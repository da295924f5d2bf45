---------------------------- MODULE MCDifficulty ----------------------------
(***************************************************************************)
(* Scaled-down networks for model checking the retarget core.  The real    *)
(* networks' targets are near 2^236; here PowLimit is about 2^20 or 2^24   *)
(* so that every product the code forms fits TLC's 32-bit integers, and    *)
(* the periods, windows and activation heights are shrunk so that a chain  *)
(* of ten blocks passes through every era.                                 *)
(***************************************************************************)
EXTENDS Difficulty

\* Two seconds per block, a retarget every two blocks, a factor of 4.
MCTargetTimePerBlock == 2
MCTargetTimespan == 4

\* A block can be early (a timestamp one second before its parent's), on
\* time, or late by more than 6T (beyond LWMA's solve-time clamp).
MCSolveTimes == {-1, 2, 13}

\* Era run: LWMA from height 1 (genesis alone is legacy, computing from
\* height 4), LWMAv2 at 5..7 (window of three, start below its activation),
\* ASERT anchored at 7 (half life 3 s) for heights 8..10.  PowLimit 0x0fffff.
\* A late block here is 12 s behind (four half lives), so the ASERT blocks
\* meet the deviations k * 3 s for k in -3..0, 2..4, 7, 8 and 12: the
\* anchor target 16383 halved, doubled up to 2^4 times, and capped at
\* PowLimit from k = 7 on.
MCErasSolveTimes == {-1, 2, 14}
MCErasPowLimit == 1048575
MCErasPowLimitBits == 51380223         \* 0x030fffff
MCErasGenesisBits == 51380208          \* 0x030ffff0, below the limit as on mainnet
MCErasAnchorBits == 37748480           \* 0x023fff00, the target 16383

\* Legacy runs: the original retarget only, PowLimit 0xffff00 as in the
\* codec's 3-byte range, genesis a little below it.
MCLegacyPowLimit == 16776960
MCLegacyPowLimitBits == 67174399       \* 0x0400ffff
MCLegacyGenesisBits == 67174384        \* 0x0400fff0
\* Timestamps that never go backwards (on-time and late blocks only).
MCForwardSolveTimes == {2, 13}
MCLegacySolveTimes == {-1, 2, 3, 13}
=============================================================================
