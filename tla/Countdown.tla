----------------------------- MODULE Countdown -----------------------------
(***************************************************************************)
(* What alarms promise: each counts its own ticks down, is called when     *)
(* they are over and not before, and time does not go on over an alarm     *)
(* that is due.                                                            *)
(***************************************************************************)
EXTENDS Naturals

CONSTANTS Alarm,       (* the alarms                                       *)
          Periods,     (* numbers of ticks an alarm may be set to          *)
          Stopped      (* not a number: the alarm is not running           *)

VARIABLE left          (* ticks until the alarm is called                  *)

Running(a) == left[a] # Stopped

Init == left = [a \in Alarm |-> Stopped]

Tick == /\ \A a \in Alarm : Running(a) => left[a] > 0
        /\ left' = [a \in Alarm |-> IF Running(a) THEN left[a] - 1 ELSE Stopped]

(* n whole ticks, and the rest of the one that has begun.                  *)
Start(a) == /\ ~Running(a)
            /\ \E n \in Periods : left' = [left EXCEPT ![a] = n + 1]

Stop(a) == left' = [left EXCEPT ![a] = Stopped]

Call(a) == /\ left[a] = 0
           /\ \E p \in Periods \cup {Stopped} : left' = [left EXCEPT ![a] = p]

Next == Tick \/ \E a \in Alarm : Start(a) \/ Stop(a) \/ Call(a)

Spec == Init /\ [][Next]_left
=============================================================================
