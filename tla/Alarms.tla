------------------------------- MODULE Alarms -------------------------------
(***************************************************************************)
(* The alarms of the HAL: alt_alarm_start, alt_alarm_stop and the walk of  *)
(* alt_tick over the list of registered alarms, which lies in memory as    *)
(* next and previous pointers.  alt_tick runs in an interrupt, one step    *)
(* per turn of its loop; the callbacks it makes may start and stop alarms. *)
(* The tick counter wraps at Width, 2^32 in the code.                      *)
(***************************************************************************)
EXTENDS Integers, FiniteSets

CONSTANTS Alarm,        (* the alarm structures                            *)
          alt_alarm_list, (* the head of the list                          *)
          Null,
          Width,        (* values of the tick counter                      *)
          Delays,       (* nticks given to alt_alarm_start                 *)
          Periods,      (* what callbacks return to be called again        *)
          StopNext      (* whether a callback stops the alarm that the     *)
                        (* loop of alt_tick goes to next                   *)

ASSUME AlarmAssumption ==
    /\ alt_alarm_list \notin Alarm /\ Null \notin Alarm \cup {alt_alarm_list}
    /\ IsFiniteSet(Alarm)
    /\ Width \in Nat \ {0, 1}
    /\ Delays \subseteq 0..(Width - 1) /\ Periods \subseteq 1..(Width - 1)
    /\ StopNext \in BOOLEAN

VARIABLES
    next, previous,     (* alt_llist: of the head and of each alarm        *)
    time, rollover,     (* of each alarm                                   *)
    nticks,             (* _alt_nticks                                     *)
    at                  (* where alt_tick is                               *)

alarmVars == <<next, previous, time, rollover, nticks, at>>

Node == Alarm \cup {alt_alarm_list}

(* An entry that was removed points to itself, one never used to nothing.  *)
Registered(a) == next[a] \notin {a, Null}

InCallback == at.pc = "callback"

AlarmInit ==
    /\ next = [x \in Node |-> IF x \in Alarm THEN Null ELSE x]
    /\ previous = next
    /\ time = [a \in Alarm |-> 0] /\ rollover = [a \in Alarm |-> FALSE]
    /\ nticks = 0
    /\ at = [pc |-> "idle", alarm |-> alt_alarm_list, next |-> alt_alarm_list]
-----------------------------------------------------------------------------
(* Mutated forms of definitions below.                                     *)

(* The old first entry keeps the head as its previous one. *)
InsertOneWay(list, entry) ==
    /\ next' = [next EXCEPT ![entry] = next[list], ![list] = entry]
    /\ previous' = [previous EXCEPT ![entry] = list]

(* An alarm that is started never counts as being beyond the wrap. *)
DeadlineBeforeWrap(a, n) ==
    [time |-> (n + nticks + 1) % Width, rollover |-> FALSE]

(* alt_tick follows the pointer of the alarm after its callback. *)
ContinueAtPointer == next'[at.alarm]
-----------------------------------------------------------------------------
alt_llist_insert(list, entry) ==
    /\ next' = [next EXCEPT ![entry] = next[list], ![list] = entry]
    /\ previous' = [previous EXCEPT ![entry] = list, ![next[list]] = entry]

alt_llist_remove(entry) ==
    /\ previous' = [[previous EXCEPT ![next[entry]] = previous[entry]]
                        EXCEPT ![entry] = entry]
    /\ next' = [[next EXCEPT ![previous[entry]] = next[entry]]
                    EXCEPT ![entry] = entry]

(* The time of an alarm that begins now, and whether it lies beyond the    *)
(* wrap of the counter.                                                    *)
Deadline(a, n) == LET t == (n + nticks + 1) % Width
                  IN [time |-> t, rollover |-> t < nticks]

(* The program, or the callback of another alarm, starts an alarm that is  *)
(* not running.                                                            *)
alt_alarm_start(a) ==
    /\ at.pc = "idle" \/ (InCallback /\ a # at.alarm)
    /\ ~Registered(a)
    /\ \E n \in Delays :
         /\ time' = [time EXCEPT ![a] = Deadline(a, n).time]
         /\ rollover' = [rollover EXCEPT ![a] = Deadline(a, n).rollover]
    /\ alt_llist_insert(alt_alarm_list, a)
    /\ UNCHANGED <<nticks, at>>

(* The program or a callback stops an alarm; stopping it again is harmless.*)
alt_alarm_stop(a) ==
    /\ at.pc = "idle" \/ (InCallback /\ (a # at.next \/ StopNext))
    /\ next[a] # Null
    /\ alt_llist_remove(a)
    /\ UNCHANGED <<time, rollover, nticks, at>>

(* The timer's interrupt. *)
alt_tick ==
    /\ at.pc = "idle"
    /\ nticks' = (nticks + 1) % Width
    /\ at' = [at EXCEPT !.pc = "loop", !.alarm = next[alt_alarm_list]]
    /\ UNCHANGED <<next, previous, time, rollover>>

Beyond(a) == rollover[a] /\ nticks # 0
Due(a)    == time[a] <= nticks /\ ~Beyond(a)

(* One turn of the loop, up to the callback if there is one.               *)
Visit ==
    /\ at.pc = "loop" /\ at.alarm # alt_alarm_list
    /\ rollover' = [rollover EXCEPT ![at.alarm] = Beyond(at.alarm)]
    /\ at' = IF Due(at.alarm)
             THEN [at EXCEPT !.pc = "callback", !.next = next[at.alarm]]
             ELSE [at EXCEPT !.alarm = next[at.alarm]]
    /\ UNCHANGED <<next, previous, time, nticks>>

Continue == at.next

(* The callback returns 0, which stops its alarm, or the ticks up to the   *)
(* next call.                                                              *)
Return(p) ==
    /\ InCallback
    /\ IF p = 0
       THEN alt_llist_remove(at.alarm) /\ UNCHANGED <<time, rollover>>
       ELSE LET t == (time[at.alarm] + p) % Width
            IN  /\ time' = [time EXCEPT ![at.alarm] = t]
                /\ rollover' = [rollover EXCEPT ![at.alarm] = t < nticks]
                /\ UNCHANGED <<next, previous>>
    /\ at' = [at EXCEPT !.pc = "loop", !.alarm = Continue]
    /\ UNCHANGED nticks

TickEnd ==
    /\ at.pc = "loop" /\ at.alarm = alt_alarm_list
    /\ at' = [at EXCEPT !.pc = "idle", !.next = alt_alarm_list]
    /\ UNCHANGED <<next, previous, time, rollover, nticks>>

Loop == Visit \/ TickEnd \/ \E p \in Periods \cup {0} : Return(p)

AlarmNext == \/ alt_tick \/ Loop
        \/ \E a \in Alarm : alt_alarm_start(a) \/ alt_alarm_stop(a)

AlarmSpec == AlarmInit /\ [][AlarmNext]_alarmVars

-----------------------------------------------------------------------------
(* The entries reached from the head in k steps. *)
Reached[k \in 0..Cardinality(Alarm)] ==
    IF k = 0 THEN alt_alarm_list ELSE next[Reached[k - 1]]

(* The pointers form one ring through the head that is the same in both    *)
(* directions and has just the registered alarms on it, whatever callbacks *)
(* do to the list alt_tick is walking on.                                  *)
OneRing ==
    LET ring == {a \in Alarm : Registered(a)} \cup {alt_alarm_list} IN
    /\ \A x \in ring : next[x] \in ring /\ previous[next[x]] = x
    /\ ring = {Reached[k] : k \in 0..(Cardinality(ring) - 1)}

(* No callback is made for an alarm that has been stopped: what alt_tick   *)
(* has remembered of the list is still on it.                              *)
KeepsPlace ==
    /\ (at.pc = "loop" /\ at.alarm \in Alarm) => Registered(at.alarm)
    /\ (InCallback /\ at.next \in Alarm) => Registered(at.next)

(* The list of alarms stays one ring, and alt_tick on it, whatever         *)
(* callbacks start and stop except the alarm that comes next (StopNext).   *)
WalksTheList == OneRing /\ KeepsPlace

(* The ticks until an alarm is called; 2 * Width stands for no call.       *)
left == [a \in Alarm |->
           IF ~Registered(a) THEN 2 * Width
           ELSE time[a] + (IF Beyond(a) THEN Width ELSE 0) - nticks]

Timers == INSTANCE Countdown
    WITH Periods <- Delays \cup Periods, Stopped <- 2 * Width

(* Every alarm is called at its tick, across the wrap of the counter, and  *)
(* no tick passes over an alarm that is due.                               *)
OnTime == Timers!Spec
=============================================================================
