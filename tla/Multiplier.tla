----------------------------- MODULE Multiplier -----------------------------
(***************************************************************************)
(* The multiplier of polygonRaster.sv: one bit of the multiplicand per     *)
(* cycle selects whether the multiplier, shifted left by as much, is added *)
(* to the result.  It runs N+1 cycles, not N: in the last one it indexes   *)
(* reg_multiplicand_temp past its end.  Registers keep their names without *)
(* the prefix reg_; an m stands before those the divider has too.          *)
(***************************************************************************)
EXTENDS FixedPoint

VARIABLES i_multiplicand, i_multiplier,    \* the ports
          working_result, multiplier_temp, multiplicand_temp,
          mcount, mdone, msign, moverflow

mulPorts == <<i_multiplicand, i_multiplier>>
mulWorking == <<working_result, multiplier_temp, multiplicand_temp>>
mulVars == <<mulPorts, mulWorking, mcount, mdone, msign, moverflow>>

Wide == 2 * N - 1          \* width of the result and of the shifted multiplier
Bit(w, i) == (w \div Pow2[i]) % 2 = 1

(* multiplicand_temp[mcount].  Index N does not exist: the read yields 0    *)
(* (the x of the language, taken as false) or, when the index is cut to    *)
(* the bits that are needed, bit 0.                                        *)
Selected(w, i) == IF i < N THEN {Bit(w, i)} ELSE {FALSE, Bit(w, 0)}

MulInit == /\ i_multiplicand = 0 /\ i_multiplier = 0
           /\ working_result = 0 /\ multiplier_temp = 0 /\ multiplicand_temp = 0
           /\ mcount = 0
           /\ mdone = TRUE /\ msign = FALSE /\ moverflow = FALSE

(* A mutated form of MulStart: the result of the last multiplication is    *)
(* added to.                                                               *)
StartKeepsResult == /\ mdone
                    /\ i_multiplicand' \in Words /\ i_multiplier' \in Words
                    /\ mdone' = FALSE
                    /\ mcount' = 0
                    /\ multiplicand_temp' = Magnitude(i_multiplicand')
                    /\ multiplier_temp' = Magnitude(i_multiplier')
                    /\ moverflow' = FALSE
                    /\ msign' = (Negative(i_multiplicand') # Negative(i_multiplier'))
                    /\ UNCHANGED working_result

(* i_start.                                                                *)
MulStart == /\ mdone
            /\ i_multiplicand' \in Words /\ i_multiplier' \in Words
            /\ mdone' = FALSE
            /\ mcount' = 0
            /\ working_result' = 0
            /\ multiplicand_temp' = Magnitude(i_multiplicand')
            /\ multiplier_temp' = Magnitude(i_multiplier')
            /\ moverflow' = FALSE
            /\ msign' = (Negative(i_multiplicand') # Negative(i_multiplier'))
-----------------------------------------------------------------------------
(* A mutated form of Add: the multiplier keeps its place. *)
AddUnshifted == /\ \E b \in Selected(multiplicand_temp, mcount) :
                      working_result' = (IF b THEN working_result + multiplier_temp
                                         ELSE working_result) % Pow2[Wide]
                /\ UNCHANGED multiplier_temp

Add == /\ \E b \in Selected(multiplicand_temp, mcount) :
             working_result' = (IF b THEN working_result + multiplier_temp
                                ELSE working_result) % Pow2[Wide]
       /\ multiplier_temp' = (2 * multiplier_temp) % Pow2[Wide]

MulFinish == /\ mdone' = TRUE
             /\ moverflow' = (working_result >= Pow2[N - 1 + Q])

(* A mutated form of MulStep: mcount has one value too few. *)
StepNarrowCount == /\ ~mdone
                   /\ Add
                   /\ mcount' = (mcount + 1) % N
                   /\ IF mcount = N THEN MulFinish ELSE UNCHANGED <<mdone, moverflow>>
                   /\ UNCHANGED <<mulPorts, multiplicand_temp, msign>>

MulStep == /\ ~mdone
           /\ Add
           /\ mcount' = (mcount + 1) % Pow2[N]
           /\ IF mcount = N THEN MulFinish ELSE UNCHANGED <<mdone, moverflow>>
           /\ UNCHANGED <<mulPorts, multiplicand_temp, msign>>

MulNext == MulStart \/ MulStep

(* CLOCK_50 never stops.                                                   *)
MulSpec == MulInit /\ [][MulNext]_mulVars /\ WF_mulVars(MulStep)
-----------------------------------------------------------------------------
Multiplicand == Magnitude(i_multiplicand)
Factor == Magnitude(i_multiplier)

MulTypeOK == /\ i_multiplicand \in Words /\ i_multiplier \in Words
             /\ working_result \in 0..(Pow2[Wide] - 1)
             /\ multiplier_temp \in 0..(Pow2[Wide] - 1)
             /\ multiplicand_temp \in 0..(Pow2[N - 1] - 1)
             /\ mcount \in 0..(N + 1)
             /\ mdone \in BOOLEAN /\ msign \in BOOLEAN /\ moverflow \in BOOLEAN

(* While it multiplies, the result is the multiplier times the bits of the *)
(* multiplicand that have been seen, and no carry is lost.                 *)
PartialProduct ==
    ~mdone => /\ working_result = Factor * (multiplicand_temp % Pow2[mcount])
              /\ multiplier_temp = Factor * Pow2[mcount]

(* "multiply a by b first" (polygonRaster.sv:407): the product of an even  *)
(* multiplicand is exact, and overflow says whether it fits.  The screen   *)
(* coordinates are such products: their multiplicands are quotients, whose *)
(* last bit is 0 (QuotientWithinTwo of Divider), plus one or negated (S11  *)
(* to S15 of projection, which keep that bit).                             *)
EvenProductExact ==
    mdone /\ Multiplicand % 2 = 0 =>
        /\ working_result = Multiplicand * Factor
        /\ moverflow <=> Multiplicand * Factor >= Pow2[N - 1 + Q]

(* Every multiplication ends.                                              *)
MultiplicationEnds == ~mdone ~> mdone
=============================================================================
