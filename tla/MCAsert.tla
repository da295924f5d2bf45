------------------------------- MODULE MCAsert -------------------------------
(***************************************************************************)
(* ASERT's arithmetic on its own, over bounded inputs: the fixed-point     *)
(* factor for every fraction f in 0..65535, and the target for schedule    *)
(* deviations around zero and beyond the +-256 shift cut-offs (TLC cannot  *)
(* represent the targets of the shifts in between).  The chain is empty    *)
(* and Next stutters: each state is one input, a fraction (with d = 0) or *)
(* a deviation (with f = 0), and each property reads the one it is about. *)
(***************************************************************************)
EXTENDS MCDifficulty

VARIABLES f, d
avars == <<chain, f, d>>

\* With a half life of 3 s, a shift of 256 needs a deviation of 768 s.
Deviations == -50..40 \cup {-800, -769, -768, 768, 769, 800}
Fractions == 0..65535

AsertInit ==
    /\ chain = << >>
    /\ \/ f \in Fractions /\ d = 0
       \/ f = 0 /\ d \in Deviations
AsertSpec == AsertInit /\ [][UNCHANGED avars]_avars

AsertTypeOK == f \in Fractions /\ d \in Deviations

(***************************************************************************)
(* The uint64 polynomial gives a factor that starts at 65536 (2^0), rises  *)
(* by at most 2 per step of f (the slope of 65536 * 2^(f/65536) is below   *)
(* 1.39) and ends at 131071, one step below 2^1: the 64-bit evaluation     *)
(* neither wraps nor loses the rounding term.                              *)
(***************************************************************************)
AsertFactorShape ==
    /\ AsertFactor(0) = 65536
    /\ f < 65535 => AsertFactor(f) <= AsertFactor(f + 1)
                    /\ AsertFactor(f + 1) <= AsertFactor(f) + 2
    /\ f = 65535 => AsertFactor(f) = 131071

(***************************************************************************)
(* The target never decreases as blocks fall further behind schedule:      *)
(* negative exponents borrow a whole shift to keep frac non-negative, and  *)
(* the +-256 cut-offs agree with the shifts they replace.                  *)
(***************************************************************************)
AsertMonotone ==
    f = 0 => \A d2 \in Deviations : d <= d2 => AsertTarget(d) <= AsertTarget(d2)
=============================================================================
