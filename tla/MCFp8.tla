-------------------------------- MODULE MCFp8 --------------------------------
(***************************************************************************)
(* Inputs of Fp8 for TLC.  Fractions run through all values of the bits    *)
(* that a code keeps, the bit that is rounded and the one below it, with   *)
(* the rest 0 or 1: every case rounding distinguishes.  Exponents run from *)
(* below the smallest subnormal to above the largest finite value, with    *)
(* those of zero, of the largest floats and of infinity and NaN.           *)
(***************************************************************************)
EXTENDS Fp8

CONSTANT Beyond     \* how far exponents go on beyond the format's range

Fractions ==
    {top * 2^(21 - ManBits) + low : top \in 0 .. 2^(ManBits + 2) - 1, low \in {0, 1}}

Exponents ==
    {0, 254, 255}
        \union (127 - Bias - ManBits - Beyond) .. (127 - Bias + EXP_MAX + Beyond)

MCInputs == [s: {0, 1}, x: Exponents, m: Fractions]
=============================================================================
