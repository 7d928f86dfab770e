----------------------------- MODULE FixedPoint -----------------------------
(***************************************************************************)
(* The numbers of the divider and the multiplier of polygonRaster.sv: words *)
(* of N bits (32), the first one a sign and the others a magnitude with Q  *)
(* (15) bits after the binary point.  A word is the natural number its     *)
(* bits stand for.                                                         *)
(***************************************************************************)
EXTENDS Integers

CONSTANTS N, Q,
          Pow2     \* Pow2[i] = 2^i, for the widths that occur

ASSUME WidthAssumption == /\ N \in Nat /\ N > 1
                          /\ Q \in Nat /\ Q < N
                          /\ N + Q < Pow2[N]      \* reg_count can hold its start value

ASSUME Pow2Assumption ==
    /\ Pow2 \in [0..(2 * N + Q) -> Nat \ {0}]
    /\ Pow2[0] = 1 /\ Pow2[1] = 2
    /\ \A i, j \in 0..(2 * N + Q) : i + j <= 2 * N + Q => Pow2[i + j] = Pow2[i] * Pow2[j]

Words == 0..(Pow2[N] - 1)
Negative(w) == w >= Pow2[N - 1]
Magnitude(w) == IF Negative(w) THEN w - Pow2[N - 1] ELSE w
=============================================================================
