---------------------------- MODULE MCArithmetic ----------------------------
(* All divisions, and all products, of words of five bits, two of them      *)
(* after the point.  The two units share nothing, and projection never      *)
(* starts both at once: a behaviour is one of either.                       *)
EXTENDS Divider, Multiplier

VARIABLE unit

allVars == <<unit, vars, mulVars>>

Divides    == unit = "divider" /\ UNCHANGED <<unit, mulVars>>
Multiplies == unit = "multiplier" /\ UNCHANGED <<unit, vars>>

MCInit == unit \in {"divider", "multiplier"} /\ Init /\ MulInit
MCNext == \/ Divides /\ Next
          \/ Multiplies /\ MulNext
MCSpec == /\ MCInit /\ [][MCNext]_allVars
          /\ WF_allVars(Divides /\ Step) /\ WF_allVars(Multiplies /\ MulStep)

MCPow2 == [i \in 0..(2 * N + Q) |-> 2 ^ i]
=============================================================================
