----------------------------- MODULE ByteStream -----------------------------
(***************************************************************************)
(* What either direction of the JTAG UART promises: the bytes put in at    *)
(* one end come out at the other, each once and in order.  The k-th byte   *)
(* put in is called k, so the bytes that have come out are 1..n.           *)
(***************************************************************************)
EXTENDS Naturals, Sequences

VARIABLES put,    (* how many bytes have been put in  *)
          got     (* the bytes that have come out     *)

vars == <<put, got>>

(* The bytes a + 1 .. b of the stream, in order.                           *)
Stream(a, b) == [i \in 1..(b - a) |-> a + i]

Init == /\ put = 0
        /\ got = <<>>

Put == /\ put' \in Nat /\ put' > put
       /\ UNCHANGED got

Get == \E n \in (Len(got) + 1)..put : /\ got' = Stream(0, n)
                                      /\ UNCHANGED put

Next == Put \/ Get

Spec == Init /\ [][Next]_vars
=============================================================================
