# TLA+ models of the Doriancoin difficulty code

This directory holds TLA+ models of two parts of the repository:

- `src/blockchain/difficulty.go`: the compact target codec and the difficulty retarget algorithms.
- `src/unnamed/part_000` and `part_001`: the `chaincfg` package, with the network parameters, the genesis blocks and the network registry.

It also holds the TLC configurations that check the models, and TLAPS proofs of the properties that matter most.

## The system

| Part | Code | What it does |
|---|---|---|
| Compact codec | `CompactToBig`, `BigToCompact`, `CalcWork` (difficulty.go:62-154) | Converts between 256-bit targets and the 32-bit "nBits" form. The form has an exponent byte, a sign bit and a 23-bit mantissa. |
| Retarget dispatch | `calcNextRequiredDifficulty` (221-247) | Returns `PowLimitBits` on regtest and for genesis. Otherwise it dispatches on the new block's height to ASERT, LWMAv2, LWMA or the legacy algorithm. |
| Legacy retarget | 249-332, `findPrevTestNetDifficulty` (196-213) | Off a retarget boundary it keeps the bits. With the testnet rule, a late block gets `PowLimitBits` and an on-time block gets the last "real" bits. On a boundary it scales the target by the clamped timespan of the window. |
| LWMA / LWMAv2 | 340-404 / 410-485 | Linearly weighted solve times over up to `LWMAWindow` blocks, with caps of 10x (v1) and 3x (v2). v1 scales the tip's target; v2 scales the target at the start of the window. |
| ASERT | 495-585 | Absolute schedule relative to an anchor at `ASERTHeight`. The target is the anchor target × 2^((deviation)/halfLife), computed in 16.16 fixed point with a cubic polynomial evaluated in uint64. |
| `calcEasiestDifficulty` | 160-192 | Bounds the easiest target a block may have a given time after a known block. |
| Exported wrapper | `CalcNextRequiredDifficulty` (592-597) | Runs the computation on the best chain's tip under `chainLock`. |
| Network registry | part_001:976-1138 | Unsynchronised package maps filled by `Register` and `RegisterHDKeyID`. Package `init` registers the four default networks with `mustRegister`. Address decoding asks `IsPubKeyHashAddrID`, `IsScriptHashAddrID`, `IsBech32SegwitPrefix`, `IsBech32MwebPrefix` and `HDPrivateKeyToPublicKeyID`. |
| Network parameters, genesis blocks | part_001:162-958, part_000 | Data: the difficulty constants, the registry fields and the genesis headers. |

How the parts interact:

- Every retarget algorithm decodes bits with `CompactToBig` and encodes its result with `BigToCompact`. Each block's bits are what the previous call returned, so the codec's rounding compounds along the chain.
- The testnet rule and LWMAv2 read bits of earlier blocks.
- ASERT reads the timestamp of the anchor's parent.

## Modules

| Module | Models | State and actions |
|---|---|---|
| `Compact` | the codec | Pure operators; no state. `ByteLen` is `len(n.Bytes())`, the least byte count that holds \|n\|. `BigToCompact` keeps the floor of `big.Int.Rsh` for negative numbers, the normalisation of a mantissa with bit 23 set, and the OR of the exponent with the mantissa. |
| `Difficulty` | dispatch, legacy, testnet rule, LWMA, LWMAv2, ASERT, `calcEasiestDifficulty` | The state is `chain`, a sequence of `[timestamp, bits]` headers; genesis is `Init`. `MineBlock` models one call of `CalcNextRequiredDifficulty` on the tip, with a timestamp `tip + st` for `st \in SolveTimes`, followed by the append of the new block. The lock makes the call atomic, so one step is faithful. An `AssertError` leaves the chain unchanged. Each Go function is one operator, which keeps its early returns, loops and caps. |
| `Registry` | the chaincfg registry | `registry` is a record of the six maps (sets, and a function for the HD map). Its actions are `PackageInit` (the four `mustRegister` calls in init order, with a panic on error), `Register(p)` and `RegisterHDKeyID(pub, priv)`. HRPs are sequences of one-character strings, so that the `+ "1"` and the `strings.ToLower` are modelled by what they do; `ToLower` folds the capitals of the letters the modelled HRPs use. `accepted` is a history variable: the Params whose `Register` returned nil. |
| `RetargetSchedule` | the legacy retarget's promise | Abstract. The state is `targets`, the decoded target of each block. `Extend` adds one block: off a retarget interval it copies the previous target; at one, the new target lies between the compact rounding of `prev * MinTimespan \div Timespan` and of `prev * MaxTimespan \div Timespan` (both capped), and at most the limit. This is what the comments of `calcNextRequiredDifficulty` promise, and it is property 6 of the spec's §5. |
| `NetworkDirectory` | the registry's promise | Abstract. The state is a set of `networks`, a key binding `hdKeys` and a `phase` (boot, ready, halted). Its actions are `Boot` (init registers the defaults or panics), `AddNetwork` (a Net that is not yet known) and `BindKey` (four-byte IDs). A lookup is "known on any registered network". These come from the doc comments of `Register`, `RegisterHDKeyID` and the `Is...` functions. |
| `MCCompact`, `MCDifficulty`, `MCAsert`, `MCRegistry` | TLC instances | Input sets, scaled-down parameters and properties about them. |
| `DifficultyProofs`, `PeriodProofs`, `ScheduleProofs`, `LwmaProofs`, `AsertProofs`, `RegistryProofs`, `DirectoryProofs` | TLAPS | The theorems below. |

Abstractions:

- Durations are whole seconds, as the code converts them with `/ time.Second`.
- A `big.Int` is an unbounded integer, and `Div` is `\div` (Euclidean division, which is floor division for the positive divisors used).
- Go's truncating `int64 /` is `TruncDiv`.
- The uint64 polynomial of ASERT is evaluated exactly modulo 2^64, in six base-4096 limbs, because TLC's integers are 32-bit.
- `BlocksPerRetarget` and the min/max timespans come from `ChainCtx`, which is not under `src/`. They are modelled from the spec.

## Runs

TLC's integers are 32-bit, so every run uses scaled-down parameters with the same structure as the real ones:

- `TargetTimePerBlock` 2 and `TargetTimespan` 4 or 8, which gives periods of 2 or 4 blocks.
- Adjustment factor 4 and LWMA window 3.
- Targets below 2^24.

The solve-time sets contain an early block (-1), an on-time block (2) and a very late block (13, or 14 in the `eras` run, where it puts the chain four ASERT half-lives behind). Where it matters they also contain 3; 13 and 14 are beyond both the LWMA cap of 6T and the max timespan. Chains of 8 to 10 blocks cross 3 to 4 retargets, or every era. The runs therefore reach:

- both clamp bounds, and both LWMA caps;
- the testnet reduction and the walk across minimum-difficulty blocks;
- the first-retarget exception;
- ASERT deviations of both signs.

All runs finish in under 30 s.

| Run | Checks | Shows |
|---|---|---|
| `codec` | `RoundTripExactlyCanonical`, `EncodeRoundsDown`, `RoundMonotone` | Inputs are targets around every byte boundary (negatives included) and compacts with exponents 0..4. The fixed points of decode-then-encode are exactly the canonical compacts. The encoding loses at most \|n\|/2^15, and never rounds a non-negative target up. Decode-then-encode never stores a larger non-negative target as a smaller one; `ScheduleProofs` takes this and the rounding-down law as hypotheses. |
| `eras` | `TargetBounded`, `LwmaSteadyState`, `AsertOnSchedule` | Chains go through LWMA (from height 1, so only genesis is a legacy block), LWMAv2 (5) and ASERT (7). Solve times are -1, 2 and 14 s against a block time of 2 s. Targets stay within PowLimit. An on-schedule LWMA window reproduces its reference target. ASERT's target is the anchor target scaled by 2^k when the chain is a whole number k of half-lives behind schedule (k < 0: ahead). The ASERT blocks meet k in -3..0, 2..4, 7, 8 and 12; from k = 7 on, the scaled target exceeds PowLimit and the cap applies. |
| `legacy` | `NeverAssertError`, `TargetBounded`, `LegacySteadyState`, `LegacyFollowsSchedule` | Mainnet's legacy rules over four periods (8 blocks). There is no AssertError, and an on-schedule period keeps the target. The chain's targets refine `RetargetSchedule`, even with timestamps that go backwards. |
| `testnet` | the same three, plus `PeriodDifficultyRestored` | The testnet rule, with periods of four blocks. An on-time block after minimum-difficulty blocks returns to the difficulty its period opened with. |
| `asert` | `AsertFactorShape`, `AsertMonotone` | Covers all 65536 fractions. The factor starts at 65536, grows by at most 2 per step and ends at 131071. The target is monotone in the schedule deviation, including across whole half-lives and past the ±256-shift cut-offs. |
| `registry` | `LookupsMatchDirectory`, `HDKeyLookupOwn`, `FailedCallLeavesRegistry`, `ImplementsDirectory` | The run starts with package init. Then any sequence of calls: `Register` on custom signets, a network that reuses simnet's magic and re-registered defaults, and `RegisterHDKeyID` on SLIP-0132 pairs and a short slice. The registry refines `NetworkDirectory`, and every lookup, on every ID and prefix of the inputs, answers as the directory does. A network's private HD ID resolves to its own public ID. A failed call changes nothing. |

The violation runs each check one statement of the spec or of a comment, and TLC refutes it:

| Run | Statement | Counterexample |
|---|---|---|
| `codec_spec_round_trip` | The spec's round-trip law. | `0x00000001` |
| `codec_spec_precision` | The spec's 2^-23 error bound. | n = 8454140 encodes to `0x040080FF`, which decodes to 8453888: an error of 252, where the bound allows 1. The actual error reaches about 2^-15. |
| `codec_spec_negative` | The spec's encoding of negative numbers. | The code's `Rsh` floors. |
| `legacy_spec_window` | The spec's window of BPR−1 blocks after the first retarget. | The code uses BPR−1 only at the first retarget. |
| `easiest_bound` | The comment of `calcEasiestDifficulty`. | ASERT doubles its target every half-life, which is far faster than the factor of 4 per `MaxRetargetTimespan` that the function assumes. |
| `registry_hd_rebind` | A registered private HD ID resolves to its own public ID. | `RegisterHDKeyID` silently overwrites it. |

`PROJECT.json` records these as findings.

Mutants: every property of a passing run is broken by a plausible one-line change to the code it is about, under that run's configuration. Examples:

- a dropped PowLimit cap;
- a timespan clamp without its lower bound;
- a Register without its duplicate check;
- Bitcoin's retarget window;
- a missing first-retarget exception;
- a window-start walk that stops one block short;
- the deviation measured from the anchor instead of its parent;
- no borrow in the exponent split;
- no 2^47 rounding term;
- a write before the duplicate check;
- a dropped MWEB-prefix write;
- the wrong slice used as the HD map key.

Refinement: two runs check that a detailed module implements an abstract one, as a `PROPERTY` of the form `A!Spec` on an `INSTANCE ... WITH` mapping.

- `LegacyFollowsSchedule` maps `chain` to the sequence of its decoded targets, and the rounding to `RoundCompact` (`CompactToBig(BigToCompact(t))`).
- `ImplementsDirectory` maps the registry as follows:
  - `networks` is `accepted`;
  - `hdKeys` is the HD map (empty after a panic);
  - `phase` comes from `initDone` and `panicked`.

Fairness: no run assumes any, and no property is a liveness property. Whether the chain can always be extended is a safety question here: the only way `calcNextRequiredDifficulty` refuses a block is an AssertError, which the same call would return forever after, and `NeverAssertError` rules it out in every reachable state.

Deadlock: the chain runs stop at `MaxHeight` and say `CHECK_DEADLOCK FALSE` for that reason. The only way the code can refuse a block is AssertError, which `NeverAssertError` covers. The registry run checks deadlock: once init has run, `Register` is always callable.

## Proofs

TLAPS checks the following for every value of the constants that satisfies `ParamsAssumption`:

- The period length is `TargetTimespan \div TargetTimePerBlock >= 1`.
- `PowLimit`, the factor and the half-life are positive.
- The heights are naturals.

| Theorem | Module | Statement |
|---|---|---|
| `NeverAssertErrorInvariant` | DifficultyProofs | `Spec => []NeverAssertError`, the invariant the `legacy` and `testnet` runs check. |
| `PeriodDifficultyRestoredHolds` | PeriodProofs | `ASSUME ~PoWNoRetargeting PROVE Spec => []PeriodDifficultyRestored`, the testnet run's invariant, on every network that retargets. |
| `TargetBoundedOnLegacy` | ScheduleProofs | `ASSUME LegacyOnly, RoundsDown, GenesisWithinLimit PROVE Spec => []TargetBounded`, an invariant of the `legacy` run. |
| `LegacyImplementsSchedule` | ScheduleProofs | `ASSUME LegacyOnly, RoundsDown, RoundMonotoneBelowLimit, GenesisWithinLimit PROVE Spec => LegacyFollowsSchedule`: the original retarget refines `RetargetSchedule`. |
| `LegacySteadyStateOnLegacy` | ScheduleProofs | `ASSUME LegacyOnly, RoundsDown, GenesisWithinLimit, TargetTimespan % TargetTimePerBlock = 0 PROVE Spec => []LegacySteadyState`, an invariant of the `legacy` run. |
| `PreAsertTargetBounded` | LwmaProofs | `ASSUME RoundsDown, GenesisWithinLimit, PowLimitBitsWithinLimit PROVE Spec => []PreAsertBounded`: every block below the ASERT era has a target in 0..PowLimit, whatever mix of legacy, testnet rule, LWMA and LWMAv2 the network uses. |
| `TargetBoundedWithoutAsert` | LwmaProofs | The same hypotheses and `ASERTHeight = 0` give `Spec => []TargetBounded`, an invariant of the `testnet` run. |
| `LwmaSteadyStateHolds` | LwmaProofs | `ASSUME ~PoWNoRetargeting, RoundsDown, GenesisWithinLimit, PowLimitBitsWithinLimit PROVE Spec => []LwmaSteadyState`, an invariant of the `eras` run. |
| `AsertSplitExact` | AsertProofs | The code's split of a fixed-point exponent is the floor decomposition. |
| `AsertPolynomialFits` | AsertProofs | The uint64 polynomial never wraps for frac ≤ 65535, so the factor lies in 65536..131071. |
| `FailedCallLeavesRegistryHolds` | RegistryProofs | `Spec => FailedCallLeavesRegistry`, the action property of the `registry` run. |
| `HDKeyLookupOwnHolds` | RegistryProofs | `ASSUME ConsistentHDKeys PROVE Spec => []HDKeyLookupOwn`, the invariant of the `registry` run. |
| `RegistryImplementsDirectory` | DirectoryProofs | `Spec => ImplementsDirectory`: the registry refines `NetworkDirectory`. |
| `LookupsMatchDirectoryHolds` | DirectoryProofs | `ASSUME LowerCaseHRPs PROVE Spec => []LookupsMatchDirectory`. |

The registry proofs assume `ParamsShapeAssumption`: the HD key IDs of every custom Params have four bytes. In Go they are `[4]byte` arrays, so this is a fact of the type, not a restriction.

How the registry theorems are proved:

- `FailedCallLeavesRegistryHolds` needs no invariant. Register's only error before its writes is the duplicate check (`RegisterOnFailureInert`). The error after its first three writes, from `RegisterHDKeyID`, needs an ID that is not four bytes, which a Params cannot have.
- `HDKeyLookupOwnHolds` rests on the inductive invariant `HDInv`, in two parts. First, every entry of the HD map is a four-byte (private, public) pair that some input carries. Second, every accepted network is an input whose private ID is in the map. `HDKeyLookupOwn` alone is not inductive: it says nothing of entries that a later `RegisterHDKeyID` may overwrite. The lemmas `HDKeyIDOnSound`, `RegisterOnSound` and `MustRegisterOnSound` show that each write keeps the map sound and only adds to its domain. `PackageInitSound` chains them through the four `mustRegister` calls of `init`.
- `ConsistentHDKeys` says that no private ID among the inputs is paired with two public IDs. Under it, the entry of an accepted network's private ID can only be that network's own public ID. The `registry` run's inputs satisfy it. The `registry_hd_rebind` run's inputs do not, and there the property fails.

How the directory theorems are proved:

- Both rest on `RepInv` (lemma `RepInvariant`). It says three things:
  - before init, the registry is empty;
  - after a successful init, `Rep(registry, accepted)` holds: each of the five set-valued maps is exactly the image of `accepted` under its field;
  - `accepted` is a subset of the inputs.
- `RegisterOnRep` shows that Register fails exactly on a known Net. On success it adds the new network's field values to each map and binds its HD key. `PackageInitRep` chains this through init, whose result is `DefaultKeys`.
- Under `RepInv`, each step of `Next` is a step of `DirNext` or a stutter, with the registry mapped as above. `Init` is `DirInit`.
- The lookups then agree with the directory field by field. The prefix lookups need `LowerCaseHRPs` (every input's HRP + "1" is its own lower case). Without it, `MCUpperCaseParams` breaks the property: the code stores the prefix as given but looks it up lower-cased.

How `NeverAssertErrorInvariant` is proved:

- It rests on `NoAssertErrorAtHeight`: at every height h ≥ 0, for every chain and every timestamp, the call does not fail. The proof takes each branch of the dispatch in turn.
- In the legacy branch, `RetargetWindowInChain` shows that `h - RetargetWalk(h) >= 0` whenever `(h+1) % BPR = 0`. This is the arithmetic behind Litecoin's first-retarget exception: at h = BPR−1 the window is BPR−1 blocks; afterwards h+1 ≥ 2·BPR.
- In the ASERT branch, the dispatch guard gives `ASERTHeight >= 1`, so the anchor has a parent.
- The invariant itself is `TipHeight >= 0`, which follows from `ChainWellFormed`. The lemma `ChainWellFormedInvariant` (the chain is a sequence of 1..MaxHeight+1 header records with integer timestamps) is proved first; it is inductive as it stands, and every other chain proof uses it.

How `PeriodDifficultyRestoredHolds` is proved:

- `PeriodDifficultyRestored` alone is not inductive. It says nothing of the blocks mined after a long gap, which carry `PowLimitBits`, and the next walk of `findPrevTestNetDifficulty` must pass over them. The strengthening `PeriodInv` says that every testnet legacy block off a boundary carries either `PowLimitBits` or the bits of the boundary block that opened its period.
- `WalkReachesPeriodStart` is the lemma about the walk. If every block strictly between the period's start and h carries one of those two values, the walk stops at the period's start or at a block with the start's bits. The block it stops at is the largest height in 0..h where it may stop. Its existence is proved with `WFMin` from `WellFoundedInduction`, applied to the reversed order on naturals, which needs no induction over an operator.
- `NewBlockBits` applies the lemma to the block the miner appends. `PeriodArith` does the `%` arithmetic of period starts: the start of every height in a period is the same, and it is a boundary.
- The hypothesis `~PoWNoRetargeting` restricts the theorem to networks that retarget. Without retargeting the dispatcher returns `PowLimitBits` for every block, so the property holds there only if genesis carries `PowLimitBits` too. Regtest, the only network that sets `PoWNoRetargeting`, does not: its genesis bits are `0x1e0ffff0` (part_000:109) and its `PowLimitBits` are `0x207fffff`, so with its `ReduceMinDifficulty` the property fails at block 1.

How the `ScheduleProofs` theorems are proved:

- `LegacyOnly` is the legacy run's configuration: no `PoWNoRetargeting`, no testnet rule, no LWMA and no ASERT. Under it the dispatcher always calls the original retarget.
- The codec is reached only through `RoundCompact`, and the proof uses three facts about it, stated as hypotheses:
  - `RoundsDown`: a target in 0..PowLimit is stored as a value in 0..itself;
  - `RoundMonotoneBelowLimit`: two such targets keep their order;
  - `GenesisWithinLimit`: the genesis target is within the limit.
  The `codec` run checks the first two (`EncodeRoundsDown`, `RoundMonotone`) on targets clustered at every byte boundary. They are hypotheses because tlapm cannot evaluate `256^e`. The third is not a codec fact but a fact about the constants. The legacy run's genesis satisfies it. Of the source's networks, only signet runs the original retarget alone, and its genesis lies above `sigNetPowLimit`. So no network of the source satisfies `LegacyOnly` and `GenesisWithinLimit` together. These theorems are about the original retarget as a component, in the legacy run's configuration.
- `LegacyNewTarget` does the control part without the codec. Off a boundary the new target is lastNode's. At a boundary it is `RoundCompact(CapAtPowLimit(prev * Clamp(v, Min, Max) \div TargetTimespan))` for some integer timespan v, and there is no AssertError, by `RetargetWindowInChain`. `MineStep` states what one `MineBlock` step does to the chain.
- `RetargetWithinLimit` and `RetargetWithinBounds` show that this value is in 0..PowLimit and lies between the schedule's `Hardest(prev)` and `Easiest(prev)`. The step needs `prev` in 0..PowLimit, so that scaling by a larger timespan gives a larger target. That is why `TargetBounded` is proved first, with `ChainWellFormed` as its companion invariant. The refinement then maps `Init` to `SchedInit` and each `MineBlock` step to an `Extend` step.
- `LegacySteadyState` is inductive together with `ChainWellFormed` and `TargetBounded`, because the headers below the tip never change. For the new block, `Telescope` shows that BlocksPerRetarget on-schedule blocks span BlocksPerRetarget · TargetTimePerBlock seconds. It is proved with the largest-element lemma of `PeriodProofs`, since no induction over an operator is available. That span is `TargetTimespan` when the block time divides it, and it does on every network of the source (302400 s and 150 s). The clamp leaves it alone, the scaling is the identity, and the cap does nothing because the target is already within `PowLimit` (`SteadyRetarget`). The testnet run checks the same property, with the minimum-difficulty rule on, and there it stays TLC-only.

How the `LwmaProofs` theorems are proved:

- `LwmaSums` is a recursive function defined in a LET, so it is the CHOOSE of a function that satisfies the loop's recursion (`LwmaSumsIsChoose`). `LwmaSumsWellDefined` shows that such a function exists. It takes the largest k for which the states of the first k iterations exist, and `SumsExtendOne` extends them by one iteration, so k is the whole window. `LwmaSumsFacts` then shows, for the largest index where it holds, what every iteration's state satisfies:
  - the weights are a natural at least the iteration count;
  - the weighted sum is an integer;
  - when every solve time read is T, the weighted sum is T times the weights.
  Both arguments use the largest-element lemma of `PeriodProofs`. No induction over an operator is needed.
- `LwmaNextWithinLimit`: from a reference target in 0..PowLimit, the clamp gives a non-negative weighted time, the cap bounds the scaled target, and `RoundsDown` keeps the stored target within the limit. `LwmaNextSteady`: with every solve time equal to T, the clamp leaves `weights · T` alone and the division undoes the multiplication. The loop runs at least once, because `blocks >= 3` needs lastNode at height 2 or more.
- `PreAsertBounded` is `TargetBounded` restricted to the blocks below the ASERT era. It is inductive with `ChainWellFormed`. A new block takes one of these branches:
  - the regtest return or the testnet rule: `PowLimitBits`;
  - `findPrevTestNetDifficulty`: a block below it, or `PowLimitBits` (`FindPrevInChain`);
  - the legacy retarget: `LegacyRetargetBits`, factored out of `ScheduleProofs`, and `RetargetWithinLimit`;
  - LWMA and LWMAv2: their reference block lies in the chain (`LwmaWithinLimit`).
  ASERT blocks are left out because their target is 2^k times the anchor's. The new hypothesis `PowLimitBitsWithinLimit` is conditional on regtest or the testnet rule, the only branches that store `PowLimitBits`. The `eras` and `testnet` configurations satisfy it and the other hypotheses. On testnet the `PowLimitBits` of `MCDifficulty` decode to at most its `PowLimit`.
- `LwmaSteadyState` is inductive with `ChainWellFormed` and `PreAsertBounded`, because the headers below the tip never change. The reference block is below the new one, so it is not an ASERT block, and its target is a number. `LwmaSteadyBlock` then follows the dispatch to `CalcLWMA` or `CalcLWMAv2`. For v2, the window start `h - MinOf(blocks, h)` is the property's `H - 1 - blocks`. The hypothesis `~PoWNoRetargeting` excludes regtest, which returns `PowLimitBits` before the dispatch reaches LWMA. There the property would be a round-trip fact about `PowLimitBits`, a codec question.

Tricks used in the ASERT proofs:

- 2^32 and 2^48 are given to the prover as pairs of inequalities with their definitions hidden, because tlapm folds literal products beyond 2^62.
- Ranges are stated as inequalities, because SMT fails on literal intervals as large as 0..65535.
- A small lemma, `QuotientBelow`, keeps the product `q*d` atomic.

The following stay with TLC:

- **Everything about the codec.** Its powers `256^e` have symbolic exponents, which tlapm cannot evaluate. For the same reason, the bits are typed as uint32 only by TLC, and the codec facts behind `ScheduleProofs` and `LwmaProofs` are hypotheses there. The following need more of the codec, or of the ASERT arithmetic, than these hypotheses, and remain TLC-only:
  - `TargetBounded` on ASERT blocks (the `eras` run);
  - `LegacySteadyState` with the testnet rule, where a boundary's lastNode may carry `PowLimitBits`;
  - `AsertOnSchedule`;
  - the round-trip properties.
- **The loop of `calcEasiestDifficulty`.** Its iteration count depends on the duration, and `EasiestBoundsChain` compares two codec outputs. The LWMA loop is proved about through the CHOOSE its LET recursion stands for (see above). The same route would apply here, but the property it serves is a codec question.
- **The properties of the ASERT target.**

## Not modelled

- **`HashToBig`**: a byte reversal.
- **Logging.**
- **The genesis hashes, merkle roots and coinbase**: data only. The model uses only the genesis header's bits and timestamp.
- **Checkpoints, deployments, DNS seeds and ports**: data only.
- **`DNSSeed.String` and `newHashFromStr`**: formatting and hex parsing.
- **The 256-bit real PowLimits** of the networks: beyond TLC. This is also why the signet inconsistency (its `PowLimitBits` decodes above its `PowLimit`) is listed as a hazard only.
- **The int32/int64 overflow of ASERT's exponent**: it needs deviations beyond 2^47 s.
- **Concurrent registry use**: the comments require registration before use.
- **The staleness of a difficulty returned after `chainLock` is released**: block connection is outside `src/`.
