------------------------------ MODULE MCKernel ------------------------------
(* The parts of the HAL that interrupts are about: two or three interrupts *)
(* with two service routines; three alarms on a counter of a few ticks;    *)
(* and the time of day, with a second of ten parts and words of 32 values. *)
(* They meet only in alt_tick, a service routine that leaves the processor *)
(* as it found it and counts one: a behaviour is one of the three.         *)
EXTENDS Interrupts, Alarms, TimeOfDay, TLC

VARIABLE part

AlarmSymmetry == Permutations(Alarm)

allVars == <<part, vars, alarmVars, timeVars>>

MCInit == /\ part \in {"interrupts", "alarms", "time"}
          /\ Init /\ AlarmInit /\ TimeInit
Interrupt == part = "interrupts" /\ Next /\ UNCHANGED <<part, alarmVars, timeVars>>
AlarmStep == part = "alarms" /\ AlarmNext /\ UNCHANGED <<part, vars, timeVars>>
TimeStep  == part = "time" /\ TimeNext /\ UNCHANGED <<part, vars, alarmVars>>


MCSpec == MCInit /\ [][Interrupt \/ AlarmStep \/ TimeStep]_allVars
=============================================================================
