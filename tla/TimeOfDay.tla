----------------------------- MODULE TimeOfDay -----------------------------
(***************************************************************************)
(* settimeofday and gettimeofday of the HAL on the counter of the system   *)
(* clock.  Words of 32 bits have TimeWidth values here, a second has       *)
(* ALT_US parts.                                                           *)
(***************************************************************************)
EXTENDS Integers

CONSTANTS TimeWidth,   (* values of alt_u32                                *)
          ALT_US,      (* microseconds in a second                         *)
          Rates,       (* clock rates a timer may have                     *)
          Seconds      (* bound: seconds that are ever set                 *)

ASSUME TimeAssumption ==
    /\ TimeWidth \in Nat \ {0} /\ ALT_US \in Nat \ {0}
    /\ Rates \subseteq Nat \ {0} /\ Seconds \subseteq Nat

VARIABLES
    alt_nticks,        (* _alt_nticks                                      *)
    tick_rate,         (* _alt_tick_rate                                   *)
    alt_resettime,     (* tv_sec and tv_usec                               *)
    wanted             (* the last time set, at which tick, and whether    *)
                       (* the counter has gone round since                 *)

timeVars == <<alt_nticks, tick_rate, alt_resettime, wanted>>

Times == [tv_sec : Seconds, tv_usec : 0..(ALT_US - 1)]

TimeInit == /\ alt_nticks = 0 /\ tick_rate = 0
        /\ alt_resettime = [tv_sec |-> 0, tv_usec |-> 0]
        /\ wanted = [t |-> alt_resettime, tick |-> 0, over |-> FALSE]
-----------------------------------------------------------------------------
(* Mutated forms of definitions below.                                     *)

(* The counter is not taken off the microseconds. *)
OffsetOfSeconds(t) ==
    [tv_sec |-> t.tv_sec - alt_nticks \div tick_rate, tv_usec |-> t.tv_usec]

-----------------------------------------------------------------------------
(* Microseconds since the last whole second of the counter: with the       *)
(* 64 bits of gettimeofday, and with the 32 bits of settimeofday.          *)
UsecLong  == (alt_nticks * (ALT_US \div tick_rate)) % ALT_US
UsecShort == ((alt_nticks * (ALT_US \div tick_rate)) % TimeWidth) % ALT_US

(* The first timer that comes up sets the rate; a second one is refused.   *)
alt_sysclk_init(rate) ==
    /\ tick_rate = 0
    /\ tick_rate' = rate
    /\ UNCHANGED <<alt_nticks, alt_resettime, wanted>>

(* The counter of alt_tick, a word. *)
alt_tick_counts ==
    /\ tick_rate # 0
    /\ alt_nticks' = (alt_nticks + 1) % TimeWidth
    /\ wanted' = [wanted EXCEPT !.over = @ \/ alt_nticks' = 0]
    /\ UNCHANGED <<tick_rate, alt_resettime>>

Offset(t) == [tv_sec  |-> t.tv_sec - alt_nticks \div tick_rate,
              tv_usec |-> t.tv_usec - UsecShort]

settimeofday(t) ==
    /\ tick_rate # 0
    /\ alt_resettime' = Offset(t)
    /\ wanted' = [t |-> t, tick |-> alt_nticks, over |-> FALSE]
    /\ UNCHANGED <<alt_nticks, tick_rate>>

(* The two loops of gettimeofday: borrow from the seconds while there are  *)
(* any, or stop at zero; then carry.                                       *)
Borrow(t) ==
    LET k == (ALT_US - 1 - t.tv_usec) \div ALT_US
    IN  IF t.tv_usec >= 0 THEN t
        ELSE IF t.tv_sec < k THEN [tv_sec |-> 0, tv_usec |-> 0]
        ELSE [tv_sec |-> t.tv_sec - k, tv_usec |-> t.tv_usec + k * ALT_US]

Carry(t) == [tv_sec  |-> t.tv_sec + t.tv_usec \div ALT_US,
             tv_usec |-> t.tv_usec % ALT_US]

gettimeofday ==
    Carry(Borrow([tv_sec  |-> alt_resettime.tv_sec + alt_nticks \div tick_rate,
                  tv_usec |-> alt_resettime.tv_usec + UsecLong]))

TimeNext == \/ \E rate \in Rates : alt_sysclk_init(rate)
        \/ alt_tick_counts
        \/ \E t \in Times : settimeofday(t)

TimeSpec == TimeInit /\ [][TimeNext]_timeVars
-----------------------------------------------------------------------------
Clocked == tick_rate # 0
InUsec(t) == t.tv_sec * ALT_US + t.tv_usec

(* How far the clock has moved since it was set, less what the ticks since *)
(* then took; a tick is ALT_US / tick_rate, so tick_rate times as much.    *)
Gained == tick_rate * (InUsec(gettimeofday) - InUsec(wanted.t))
              - (alt_nticks - wanted.tick) * ALT_US

(* Every tick is a whole number of microseconds; and those of the counter, *)
(* when the time was set, fitted the word of settimeofday.                 *)
Whole == ALT_US % tick_rate = 0
Fits  == wanted.tick * (ALT_US \div tick_rate) < TimeWidth

(* gettimeofday returns the time that was set and all that has elapsed     *)
(* since, through every borrow and carry, until the counter goes round: to *)
(* the microsecond when it was set while the product fitted, and otherwise *)
(* to less than a second, whatever the product that overflowed left.  A    *)
(* rate that does not divide a second puts it off by less than one more.   *)
Elapsed ==
    Clocked /\ ~wanted.over =>
        LET second == ALT_US * tick_rate
            off    == IF Gained < 0 THEN -Gained ELSE Gained
        IN  /\ Whole /\ Fits => off = 0
            /\ Whole => off < second
            /\ off < 2 * second

(* alt_settod.c: "an immediate call to gettimeofday() would return the     *)
(* value specified".                                                       *)
SetThenGet ==
    (Clocked /\ alt_nticks = wanted.tick) => gettimeofday = wanted.t
=============================================================================
