----------------------------- MODULE MCJtagUart -----------------------------
(* The driver on rings of three bytes and FIFOs of two, so that a call can *)
(* ask for more than a ring holds; four bytes of the host fill ring and    *)
(* FIFO, and five of the program make a write wait.  Then one byte each    *)
(* way, and on a system with a timer one byte out.                         *)
EXTENDS JtagUart

MCBounds == {[clock |-> FALSE, in |-> 4, out |-> 0],
             [clock |-> FALSE, in |-> 0, out |-> 5],
             [clock |-> FALSE, in |-> 1, out |-> 1],
             [clock |-> TRUE, in |-> 0, out |-> 1]}
=============================================================================
