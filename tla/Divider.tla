------------------------------- MODULE Divider -------------------------------
(***************************************************************************)
(* The divider of polygonRaster.sv, one bit of the quotient per cycle: the *)
(* divisor is shifted right from far above the dividend down to its place, *)
(* and subtracted wherever it fits.  Registers keep their names without    *)
(* the prefix reg_.                                                        *)
(***************************************************************************)
EXTENDS FixedPoint

VARIABLES i_dividend, i_divisor,     \* the ports; they hold still during a division
          working_quotient, working_dividend, working_divisor,
          count, done, sign, overflow,
          quotient

ports == <<i_dividend, i_divisor>>
working == <<working_quotient, working_dividend, working_divisor>>
vars == <<ports, working, count, done, sign, overflow, quotient>>

Init == /\ i_dividend = 0 /\ i_divisor = 0
        /\ working_quotient = 0 /\ working_dividend = 0 /\ working_divisor = 0
        /\ count = 0
        /\ done = TRUE /\ sign = FALSE /\ overflow = FALSE
        /\ quotient = 0

(* i_start.                                                                *)
Start == /\ done
         /\ i_dividend' \in Words /\ i_divisor' \in Words
         /\ done' = FALSE
         /\ count' = N + Q - 1
         /\ working_quotient' = 0
         /\ working_dividend' = Magnitude(i_dividend') * Pow2[Q]
         /\ working_divisor' = Magnitude(i_divisor') * Pow2[N + Q - 1]
         /\ overflow' = FALSE
         /\ sign' = (Negative(i_dividend') # Negative(i_divisor'))
         /\ UNCHANGED quotient

Fits == working_dividend >= working_divisor
-----------------------------------------------------------------------------
(* A mutated form of Subtract. *)

(* The dividend must exceed the divisor, as the comment in the code has it. *)
SubtractStrict == /\ working_divisor' = working_divisor \div 2
                  /\ IF working_dividend > working_divisor
                     THEN /\ working_quotient' = working_quotient + Pow2[count]
                          /\ working_dividend' = working_dividend - working_divisor
                     ELSE UNCHANGED <<working_quotient, working_dividend>>

-----------------------------------------------------------------------------
(* One bit: working_quotient[count], whose bits from count down are zero.  *)
Subtract == /\ working_divisor' = working_divisor \div 2
            /\ IF Fits
               THEN /\ working_quotient' = working_quotient + Pow2[count]
                    /\ working_dividend' = working_dividend - working_divisor
               ELSE UNCHANGED <<working_quotient, working_dividend>>

(* The result is copied in the cycle of the last bit, and from the         *)
(* register as it was before that cycle.                                   *)
Finish == /\ done' = TRUE
          /\ quotient' = working_quotient % Pow2[N]
          /\ overflow' = (working_quotient >= Pow2[N])

(* A mutated form of Step: it stops only when nothing is left to divide. *)
StepUntilZero == /\ ~done
                 /\ IF count = 0 /\ working_dividend # 0
                    THEN UNCHANGED <<working, count, done, quotient, overflow>>
                    ELSE /\ Subtract
                         /\ count' = IF count = 0 THEN Pow2[N] - 1 ELSE count - 1
                         /\ IF count = 0 THEN Finish ELSE UNCHANGED <<done, quotient, overflow>>
                 /\ UNCHANGED <<ports, sign>>

Step == /\ ~done
        /\ Subtract
        /\ count' = IF count = 0 THEN Pow2[N] - 1 ELSE count - 1
        /\ IF count = 0 THEN Finish ELSE UNCHANGED <<done, quotient, overflow>>
        /\ UNCHANGED <<ports, sign>>

Next == Start \/ Step

(* CLOCK_50 never stops.                                                   *)
Spec == Init /\ [][Next]_vars /\ WF_vars(Step)
-----------------------------------------------------------------------------
Dividend == Magnitude(i_dividend) * Pow2[Q]
Divisor == Magnitude(i_divisor)

TypeOK == /\ i_dividend \in Words /\ i_divisor \in Words
          /\ working_quotient \in 0..(Pow2[N + Q] - 1)
          /\ working_dividend \in 0..(Pow2[N - 1 + Q] - 1)
          /\ working_divisor \in 0..(Pow2[2 * N + Q - 2] - 1)
          /\ count \in Words
          /\ done \in BOOLEAN /\ sign \in BOOLEAN /\ overflow \in BOOLEAN
          /\ quotient \in Words

(* While it divides: what has been subtracted is the quotient so far times *)
(* the divisor, what is left is less than twice the shifted divisor, and   *)
(* the bits still to be found are zero.                                    *)
DividingInv ==
    ~done => /\ count \in 0..(N + Q - 1)
             /\ working_divisor = Divisor * Pow2[count]
             /\ working_quotient * Divisor + working_dividend = Dividend
             /\ Divisor > 0 => working_dividend < 2 * working_divisor
             /\ \E k \in 0..working_quotient : working_quotient = k * (2 * Pow2[count])
             /\ working_quotient + 2 * Pow2[count] <= Pow2[N + Q]

(* A quotient that fits into the N-1 bits of the output's magnitude.       *)
Representable == Divisor > 0 /\ Dividend < Pow2[N - 1] * Divisor

(* The promise of the comment above projection, "left shift a first by 15      *)
(* bits, then divide by b" (polygonRaster.sv:406), is kept up to the last  *)
(* bit of the quotient, which is always 0: for every dividend and divisor  *)
(* the result is the exact quotient or one less.                           *)
QuotientWithinTwo ==
    done /\ Representable =>
        /\ ~overflow
        /\ \E k \in 0..quotient : quotient = 2 * k
        /\ quotient * Divisor <= Dividend /\ Dividend < (quotient + 2) * Divisor

(* The same promise taken exactly.  It does not hold: Finish copies        *)
(* working_quotient before the bit of its own cycle has arrived.           *)
DividesExactly ==
    done /\ Representable =>
        quotient * Divisor <= Dividend /\ Dividend < (quotient + 1) * Divisor

IndInv == TypeOK /\ DividingInv /\ QuotientWithinTwo

(* Every division ends, also by zero.                                      *)
DivisionEnds == ~done ~> done
=============================================================================
