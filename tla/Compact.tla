------------------------------- MODULE Compact -------------------------------
(***************************************************************************)
(* The compact ("nBits") encoding of difficulty targets, translated from   *)
(* CompactToBig, BigToCompact and CalcWork of blockchain/difficulty.go.    *)
(*                                                                         *)
(* A big.Int is a mathematical integer here.  A compact is a natural below *)
(* 2^32 whose top byte is the exponent, bit 23 the sign and bits 0..22 the *)
(* mantissa; its fields are taken apart with \div and % instead of masks.  *)
(* The module only uses operators TLC can evaluate without ever forming    *)
(* 256^4: every power that is evaluated is applied to an input that makes  *)
(* it small (the models keep every target below 2^31).                     *)
(***************************************************************************)
EXTENDS Integers

Abs(n) == IF n < 0 THEN -n ELSE n

\* The three fields of a compact, as the masks 0x007fffff, 0x00800000 and
\* the shift >> 24 of CompactToBig extract them.
MantissaOf(compact) == compact % 8388608
IsNegativeCompact(compact) == (compact \div 8388608) % 2 = 1
ExponentOf(compact) == compact \div 16777216

\* CompactToBig: N = (-1^sign) * mantissa * 256^(exponent-3).  For an
\* exponent of at most 3 the uint32 mantissa is shifted right, which floors.
CompactToBig(compact) ==
    LET mantissa == MantissaOf(compact)
        exponent == ExponentOf(compact)
        bn == IF exponent <= 3 THEN mantissa \div 256^(3 - exponent)
                               ELSE mantissa * 256^(exponent - 3)
    IN  IF IsNegativeCompact(compact) THEN -bn ELSE bn

\* len(n.Bytes()): the number of bytes of |n| without leading zero bytes,
\* i.e. the least e such that |n| fits in e bytes.
\* Mutant: the byte count accepts a leading byte of 256.
FitsInBytesLoose(m, e) == IF e = 0 THEN m = 0 ELSE m \div 256^(e - 1) <= 256
FitsInBytes(m, e) == IF e = 0 THEN m = 0 ELSE m \div 256^(e - 1) < 256
ByteLen(n) ==
    CHOOSE e \in 0..32 : /\ FitsInBytes(Abs(n), e)
                        /\ (e = 0 \/ ~FitsInBytes(Abs(n), e - 1))

\* BigToCompact.  When the number has at most 3 bytes the low word of |n|
\* is shifted left; that word is below 2^24, so the uint32 conversion and
\* the shift cannot truncate.  Otherwise n is shifted right by big.Int.Rsh,
\* which is an arithmetic shift: it rounds towards minus infinity, so for a
\* negative n the mantissa is the magnitude of the floored quotient.  A
\* mantissa with bit 23 set is shifted right one byte and the exponent
\* incremented; the exponent and the mantissa are then ORed together (the
\* mantissa can reach 2^24 only for a negative n, and then its bit 24 is ORed
\* into the exponent's low bit), and the sign bit is set for a negative n.
\* Mutant: no normalisation of a mantissa with bit 23 set.
BigToCompactNoNormalise(n) ==
    IF n = 0 THEN 0
    ELSE LET exponent == ByteLen(n)
             mantissa == IF exponent <= 3 THEN Abs(n) * 256^(3 - exponent)
                         ELSE Abs(n \div 256^(exponent - 3))
         IN  exponent * 16777216 + mantissa + (IF n < 0 THEN 8388608 ELSE 0)
BigToCompact(n) ==
    IF n = 0 THEN 0
    ELSE LET exponent == ByteLen(n)
             m0 == IF exponent <= 3
                     THEN Abs(n) * 256^(3 - exponent)
                     ELSE Abs(n \div 256^(exponent - 3))
             normalise == (m0 \div 8388608) % 2 = 1
             mantissa == IF normalise THEN m0 \div 256 ELSE m0
             e == IF normalise THEN exponent + 1 ELSE exponent
             high == IF mantissa \div 16777216 = 1 /\ e % 2 = 0 THEN e + 1 ELSE e
             compact == high * 16777216 + (mantissa % 16777216)
         IN  IF n < 0 THEN compact + 8388608 ELSE compact

\* CalcWork: 2^256 / (target + 1), and 0 for a target that is not positive.
\* (Only stated, never evaluated: TLC cannot represent 2^256.)
CalcWork(bits) ==
    IF CompactToBig(bits) <= 0 THEN 0
    ELSE 2^256 \div (CompactToBig(bits) + 1)
=============================================================================
