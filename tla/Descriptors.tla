---------------------------- MODULE Descriptors ----------------------------
(***************************************************************************)
(* What the file descriptor pool promises its callers: a descriptor that   *)
(* is handed out is not in use, one that is closed can be handed out       *)
(* again, the standard streams are never given up, and while a descriptor  *)
(* holds a device for itself nobody else gets a new one for it.            *)
(***************************************************************************)
EXTENDS Naturals

CONSTANTS Fds,         (* the descriptors                                  *)
          Standard,    (* those of the standard streams                    *)
          Things,      (* devices and file systems                         *)
          NoDev        (* not one of them: the descriptor is free          *)

VARIABLES refers,      (* what a descriptor refers to                      *)
          holders      (* descriptors that hold their device exclusively   *)

vars == <<refers, holders>>

Held(d) == \E h \in holders : refers[h] = d

Init == /\ refers \in [Fds -> Things \cup {NoDev}]
        /\ \A f \in Standard : refers[f] # NoDev
        /\ holders = {}

Open == \E f \in Fds, d \in Things :
          /\ refers[f] = NoDev /\ ~Held(d)
          /\ refers' = [refers EXCEPT ![f] = d]
          /\ UNCHANGED holders

Close == \E f \in Fds \ Standard :
          /\ refers[f] # NoDev
          /\ refers' = [refers EXCEPT ![f] = NoDev]
          /\ holders' = holders \ {f}

Redirect == \E f \in Standard, d \in Things :
          /\ holders = {}
          /\ refers' = [refers EXCEPT ![f] = d]
          /\ UNCHANGED holders

(* Not if two others refer to the device.                                  *)
Hold == \E f \in Fds :
          /\ refers[f] # NoDev
          /\ \A g, h \in Fds \ {f} :
                refers[g] = refers[f] /\ refers[h] = refers[f] => g = h
          /\ holders' = holders \cup {f}
          /\ UNCHANGED refers

Release == \E f \in Fds :
          /\ holders' = holders \ {f}
          /\ UNCHANGED refers

Next == Open \/ Close \/ Redirect \/ Hold \/ Release

Spec == Init /\ [][Next]_vars
=============================================================================
