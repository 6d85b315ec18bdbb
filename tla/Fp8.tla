--------------------------------- MODULE Fp8 ---------------------------------
(***************************************************************************)
(* float8.metal and the quantising half of convert_fp8_kernel: conversions *)
(* between float32 and an 8-bit format with ExpBits exponent bits, ManBits *)
(* mantissa bits and the given bias (E4M3: 4, 3, 7; E5M2: 5, 2, 15).  The  *)
(* kernel uses E4M3; for E5M2 the module is the pair of functions alone.   *)
(*                                                                         *)
(* A float is a record of the three fields of its bits: sign s, biased     *)
(* exponent x in 0 .. 255, fraction m in 0 .. 2^23 - 1.  A code is the     *)
(* number 0 .. 255 the kernel stores.  Shifts are divisions by powers of   *)
(* two; an unsigned shift by a negative count is undefined and may give    *)
(* any number.                                                             *)
(***************************************************************************)
EXTENDS Integers, FiniteSetsExt

CONSTANTS
    ExpBits, ManBits, Bias,
    Inputs      \* the floats to convert

Float == [s: {0, 1}, x: 0 .. 255, m: 0 .. 2^23 - 1]

ASSUME FormatAssumption ==
    /\ ExpBits \in Nat \ {0} /\ ManBits \in Nat \ {0} /\ 1 + ExpBits + ManBits = 8
    /\ Bias \in Nat
ASSUME InputsAssumption == Inputs \subseteq Float

EXP_MAX == 2^ExpBits - 2        \* last finite exponent
Code(s, e, man) == s * 128 + e * 2^ManBits + man
Inf(s) == Code(s, EXP_MAX + 1, 0)

SignOf(code) == code \div 128
ExpOf(code) == (code \div 2^ManBits) % 2^ExpBits
ManOf(code) == code % 2^ManBits
IsNaN(code) == ExpOf(code) = EXP_MAX + 1 /\ ManOf(code) # 0

-----------------------------------------------------------------------------
(* Decoding *)

\* The float (-1)^s * man * 2^e, for a mantissa of at most ManBits + 1 bits.
Scaled(s, man, e) ==
    LET top == CHOOSE b \in 0 .. ManBits : 2^b <= man /\ man < 2^(b + 1)
    IN  [s |-> s, x |-> e + top + 127, m |-> (man - 2^top) * 2^(23 - top)]

SubnormalExponent_Unbiased == 0 - Bias - ManBits    \* the exponent field taken as 0
SubnormalExponent == 1 - Bias - ManBits

\* fp8_e4m3_to_float and fp8_e5m2_to_float; every NaN code gives the one NAN.
ToFloat(code) ==
    LET s == SignOf(code)  exp == ExpOf(code)  man == ManOf(code)
    IN  CASE exp = 0 /\ man = 0 -> [s |-> s, x |-> 0, m |-> 0]
          [] exp = 0 /\ man # 0 -> Scaled(s, man, SubnormalExponent)
          [] exp = EXP_MAX + 1 /\ man = 0 -> [s |-> s, x |-> 255, m |-> 0]
          [] exp = EXP_MAX + 1 /\ man # 0 -> [s |-> 0, x |-> 255, m |-> 2^22]
          [] OTHER -> Scaled(s, 2^ManBits + man, exp - Bias - ManBits)

-----------------------------------------------------------------------------
(* Encoding *)

\* e_fp8: the exponent field the float would have.
Fp8Exponent(f) == f.x - 127 + Bias

IsNormal(f) == f.x < 255 /\ Fp8Exponent(f) \in 1 .. EXP_MAX

RoundUp_NoSticky(m, shift) ==       \* halves away from zero
    (m \div 2^(shift - 1)) % 2 = 1

\* mant += (round & (sticky | lsb)), for the bits of m below bit shift.
RoundUp(m, shift) ==
    LET lsb == (m \div 2^shift) % 2
        round == (m \div 2^(shift - 1)) % 2
        sticky == m % 2^(shift - 1) # 0
    IN  round = 1 /\ (sticky \/ lsb = 1)

\* The normal path; a mantissa that overflows carries into the exponent.
EncodeNormal(f) ==
    LET shift == 23 - ManBits
        mant == f.m \div 2^shift + (IF RoundUp(f.m, shift) THEN 1 ELSE 0)
        carry == mant = 2^ManBits
        e == Fp8Exponent(f) + (IF carry THEN 1 ELSE 0)
    IN  IF e > EXP_MAX THEN Inf(f.s) ELSE Code(f.s, e, IF carry THEN 0 ELSE mant)

\* The path below the normal range, which values above it take as well.  The
\* bits of the rounded mantissa above bit ManBits are masked away.
EncodeSubnormal(f) ==
    LET rshift == 1 - Fp8Exponent(f) + 23 - ManBits
        mant == 2^23 + f.m
    IN  IF rshift <= 0 THEN {Code(f.s, 0, r) : r \in 0 .. 2^ManBits - 1}
        ELSE {Code(f.s, 0, ((mant + 2^(rshift - 1)) \div 2^rshift) % 2^ManBits)}

\* fp32_to_fp8: the codes a float may be given.
FromFloat(f) ==
    CASE f.x = 255 -> {Code(f.s, EXP_MAX + 1, IF f.m = 0 THEN 0 ELSE 1)}
      [] IsNormal(f) -> {EncodeNormal(f)}
      [] Fp8Exponent(f) < 1 - ManBits -> {Code(f.s, 0, 0)}
      [] OTHER -> EncodeSubnormal(f)

-----------------------------------------------------------------------------
(* One element of convert_fp8_kernel, with scale 1: quantised, then requantised *)

VARIABLES
    src,    \* the value converted
    dst     \* its code, or NoCode

vars == <<src, dst>>

NoCode == 256

Init == src \in Inputs /\ dst = NoCode

Quantize ==
    /\ dst = NoCode
    /\ dst' \in FromFloat(src)
    /\ UNCHANGED src

Requantize ==
    /\ dst # NoCode
    /\ dst' \in FromFloat(ToFloat(dst))
    /\ UNCHANGED src

Next == Quantize \/ Requantize

Spec == Init /\ [][Next]_vars

-----------------------------------------------------------------------------
(* Reference *)

RoundHalfEven(n, d) ==
    LET q == n \div d  r == n % d
    IN  IF 2 * r > d \/ (2 * r = d /\ q % 2 = 1) THEN q + 1 ELSE q

\* The code nearest to a finite float, ties to the even code, infinity from
\* half a unit above the largest finite value on.  Codes of one sign are
\* ordered as their values: counting units of the spacing that f's binade has
\* in the format (below the normal range that of the subnormals) and adding
\* the codes of the binades below gives the code.
Nearest(f) ==
    LET e == Fp8Exponent(f)
        below == Min({Max({1 - e, 0}), ManBits + 2})    \* nearer to 0 further down
        units == RoundHalfEven(2^23 + f.m, 2^(23 - ManBits + below))
        code == (Max({e, 1}) - 1) * 2^ManBits + units
    IN  f.s * 128 + Min({code, Inf(0)})

Quantized == dst # NoCode

\* A finite value in the normal range is given the code nearest to it, ties to
\* the even one, also where rounding carries into the next binade or past the
\* largest finite value; infinities and NaNs stay what they are.
NormalsRoundToNearest ==
    Quantized =>
        /\ IsNormal(src) => dst = Nearest(src)
        /\ src.x = 255 => IF src.m = 0 THEN dst = Inf(src.s) ELSE IsNaN(dst)

\* A code that was decoded and encoded again is the same code (a NaN another
\* NaN), subnormals included: rescaling a cache by 1 changes nothing.
RequantizeKeepsCode ==
    [][Quantized => dst' = dst \/ (IsNaN(dst) /\ IsNaN(dst'))]_vars

\* float8.metal, on encoding: "round-to-nearest-even, gradual under-flow,
\* sat-to-infinity".  Every finite value is given the code nearest to it, ties
\* to the even one: values below the normal range round as the others do, and
\* values beyond the largest finite code become the infinity of their sign.
RoundsAsPromised == Quantized /\ src.x < 255 => dst = Nearest(src)
=============================================================================
