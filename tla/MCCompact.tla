------------------------------ MODULE MCCompact ------------------------------
(***************************************************************************)
(* Model checking of the compact codec over bounded inputs.  The state is  *)
(* one target n and one compact x drawn from sets that cluster around the  *)
(* byte boundaries where the codec changes branch (2^8, 2^15, 2^16, 2^23,  *)
(* 2^24) and around the worst case of its rounding; Next stutters, so the  *)
(* properties are checked on every input.  All values stay below 2^31.     *)
(***************************************************************************)
EXTENDS Compact

VARIABLES n, x
vars == <<n, x>>

Around(b, w) == (b - w)..(b + w)
Boundaries == {128, 256, 32768, 65536, 8388608, 16777216, 1073741824}
PositiveTargets ==
    1..300 \cup UNION {Around(b, 40) : b \in Boundaries} \cup Around(8454143, 3)
Targets == {0} \cup PositiveTargets \cup {-t : t \in PositiveTargets}

Mantissas == {0, 1, 127, 128, 255, 256, 32767, 32768, 32769,
              65535, 65536, 1193046, 8388607}
Compacts == {e * 16777216 + s * 8388608 + m : e \in 0..4, s \in 0..1, m \in Mantissas}

Init == \/ n \in Targets /\ x = 0
        \/ n = 0 /\ x \in Compacts
Next == UNCHANGED vars
Spec == Init /\ [][Next]_vars

TypeOK == n \in Targets /\ x \in Compacts \cup {0}

\* The canonical compacts: zero, or a mantissa whose top byte is not zero,
\* an exponent of at least one, and no bits below the ones decoding keeps.
Canonical(c) ==
    \/ c = 0
    \/ /\ MantissaOf(c) >= 32768
       /\ ExponentOf(c) >= 1
       /\ ExponentOf(c) >= 3 \/ MantissaOf(c) % 256^(3 - ExponentOf(c)) = 0

(***************************************************************************)
(* Round trip (CompactToBig then BigToCompact): a compact comes back       *)
(* unchanged exactly when it is canonical, and whatever BigToCompact       *)
(* returns is canonical.  This is what makes the bits stored in headers    *)
(* a fixed point of the retarget code when a target does not move.         *)
(***************************************************************************)
RoundTripExactlyCanonical ==
    /\ BigToCompact(CompactToBig(x)) = x <=> Canonical(x)
    /\ Canonical(BigToCompact(n))

(***************************************************************************)
(* Encoding loses less than 2^-15 of |n| (BigToCompact keeps a mantissa of *)
(* at least 0x8000, so 16 significant bits), and never rounds a target up: *)
(* for n >= 0 the decoded value is at most n.  (A negative n is rounded    *)
(* towards zero below 2^24 and away from zero above, by Rsh.)              *)
(***************************************************************************)
EncodeRoundsDown ==
    LET d == CompactToBig(BigToCompact(n))
    IN  /\ Abs(n - d) <= Abs(n) \div 32768
        /\ n >= 0 => d <= n

(***************************************************************************)
(* Storing a target never reorders targets: for n >= 0 the decoded value  *)
(* of BigToCompact(n) is at most that of BigToCompact(n + 1), so a larger *)
(* target computed by a retarget is never stored as a smaller one than a  *)
(* smaller target would be (the legacy retarget's bounds rest on it).     *)
(***************************************************************************)
RoundMonotone ==
    n >= 0 => CompactToBig(BigToCompact(n)) <= CompactToBig(BigToCompact(n + 1))

(***************************************************************************)
(* The spec's round-trip law: every compact with a mantissa in             *)
(* 1..0x7FFFFF and the sign clear survives CompactToBig then BigToCompact. *)
(***************************************************************************)
SpecRoundTrip ==
    (MantissaOf(x) \in 1..8388607 /\ ~IsNegativeCompact(x))
        => BigToCompact(CompactToBig(x)) = x

(***************************************************************************)
(* The spec's precision law: for a positive n the encoding loses at most   *)
(* 2^-23 of n.                                                             *)
(***************************************************************************)
SpecPrecision ==
    n > 0 => n - CompactToBig(BigToCompact(n)) <= n \div 8388608

(***************************************************************************)
(* The spec's encoding of a negative number: the mantissa is taken from    *)
(* |n| >> 8(e-3), so a negative n encodes as |n| with the sign bit set.    *)
(***************************************************************************)
SpecNegativeEncoding ==
    n < 0 => BigToCompact(n) = BigToCompact(-n) + 8388608
=============================================================================
