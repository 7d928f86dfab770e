----------------------------- MODULE Interrupts -----------------------------
(***************************************************************************)
(* Interrupts in the HAL with the processor's own controller: registering, *)
(* enabling and disabling an interrupt (alt_iic_isr_register.c, alt_iic.c, *)
(* alt_legacy_irq.h), the dispatch loop (alt_irq_handler.c) and service    *)
(* routines that let higher priorities in.                                 *)
(*                                                                         *)
(* The program and the exceptions that interrupt each other are a stack of *)
(* frames; the last frame runs.  A frame stands between two accesses to    *)
(* the status register, the enable register or the shared variables, which *)
(* is where an interrupt can come.                                         *)
(***************************************************************************)
EXTENDS Integers, Sequences, SequencesExt

CONSTANTS ALT_NIRQ,      (* interrupts; 0 is served first                  *)
          Handlers,      (* interrupt service routines                     *)
          NULL,
          CallsNested,   (* whether a routine that has let others in, or   *)
                         (* one of those, switches interrupts              *)
          Withdraws      (* whether a device may take its request back     *)

Irq == 0..(ALT_NIRQ - 1)
Program == ALT_NIRQ      (* in place of the irq of the first frame         *)

ASSUME InterruptsAssumption ==
    /\ ALT_NIRQ \in Nat \ {0} /\ NULL \notin Handlers
    /\ CallsNested \in BOOLEAN /\ Withdraws \in BOOLEAN

VARIABLES
    handler, context,    (* alt_irq[i].handler, and the context beside it  *)
    alt_irq_active,      (* the interrupts that are enabled                *)
    alt_priority_mask,   (* those that may come in now                     *)
    ienable, pie,        (* the processor's enable register; status.PIE    *)
    raised,              (* requests of the devices                        *)
    frames,
    switched             (* the interrupts that calls have left enabled    *)

table == <<handler, context>>
vars  == <<table, alt_irq_active, alt_priority_mask, ienable, pie, raised,
           frames, switched>>

Pending == raised \cap ienable
Top     == frames[Len(frames)]
At(pc)  == Top.pc = pc
Put(f)  == frames' = [frames EXCEPT ![Len(frames)] = f]
Go(pc)  == Put([Top EXCEPT !.pc = pc])

Frame == [irq |-> Program, pc |-> "run", id |-> 0, on |-> FALSE, new |-> NULL,
          status |-> FALSE, inner |-> FALSE, loaded |-> {}, old |-> Irq,
          nests |-> FALSE, served |-> FALSE, registers |-> FALSE]

(* After alt_irq_init: nothing enabled, and the processor takes interrupts.*)
Init ==
    /\ handler = [i \in Irq |-> NULL] /\ context = handler
    /\ alt_irq_active = {} /\ alt_priority_mask = Irq
    /\ ienable = {} /\ pie = TRUE
    /\ raised = {} /\ switched = {}
    /\ frames = <<Frame>>
-----------------------------------------------------------------------------
(* Mutated forms of definitions below.                                     *)

(* alt_irq_enable_all just enables. *)
EnableAlways(saved) == pie' = TRUE

(* The table is written without disabling interrupts. *)
DisableNothing == pie' = pie

-----------------------------------------------------------------------------
(* The devices. *)
Raise(i) ==
    /\ raised' = raised \cup {i}
    /\ UNCHANGED <<table, alt_irq_active, alt_priority_mask, ienable, pie,
                   frames, switched>>

Withdraw(i) ==
    /\ Withdraws
    /\ raised' = raised \ {i}
    /\ UNCHANGED <<table, alt_irq_active, alt_priority_mask, ienable, pie,
                   frames, switched>>

(* The processor takes an interrupt: alt_irq_entry.S finds it pending and  *)
(* calls alt_irq_handler.                                                  *)
Take ==
    /\ pie /\ Pending # {}
    /\ pie' = FALSE
    /\ frames' = Append(frames, [Frame EXCEPT !.pc = "look"])
    /\ UNCHANGED <<table, alt_irq_active, alt_priority_mask, ienable, raised,
                   switched>>

(* The bits of alt_irq_pending are tested upwards from 0.                  *)
First == CHOOSE i \in Pending : \A j \in Pending : i <= j

Dispatch == Put([Frame EXCEPT !.irq = First])

(* The frame after a call it has made. *)
Resumed == [Frame EXCEPT !.irq = Top.irq, !.old = Top.old,
                         !.nests = Top.nests, !.served = Top.served]

(* The outer loop of alt_irq_handler.  The inner loop has no end: without  *)
(* a bit to find it goes on forever.                                       *)
Look ==
    /\ At("look")
    /\ IF Pending # {} THEN Dispatch ELSE Go("lost")
    /\ UNCHANGED <<table, alt_irq_active, alt_priority_mask, ienable, pie,
                   raised, switched>>

LookAgain ==
    /\ At("again")
    /\ IF Pending # {} THEN Dispatch /\ UNCHANGED pie
       ELSE frames' = Front(frames) /\ pie' = TRUE
    /\ UNCHANGED <<table, alt_irq_active, alt_priority_mask, ienable, raised,
                   switched>>
-----------------------------------------------------------------------------
(* A service routine: it clears its device's request, may let others in,   *)
(* and returns to the loop.                                                *)
InIsr == At("run") /\ Top.irq # Program

Serve ==
    /\ InIsr
    /\ raised' = raised \ {Top.irq}
    /\ Put([Top EXCEPT !.served = TRUE])
    /\ UNCHANGED <<table, alt_irq_active, alt_priority_mask, ienable, pie,
                   switched>>

alt_irq_interruptible ==
    /\ InIsr /\ ~Top.nests
    /\ alt_priority_mask' = 0..(Top.irq - 1)
    /\ ienable' = alt_irq_active \cap alt_priority_mask'
    /\ pie' = TRUE
    /\ Put([Top EXCEPT !.old = alt_priority_mask, !.nests = TRUE])
    /\ UNCHANGED <<table, alt_irq_active, raised, switched>>

alt_irq_non_interruptible ==
    /\ InIsr /\ Top.nests
    /\ pie' = FALSE
    /\ alt_priority_mask' = Top.old
    /\ ienable' = Top.old \cap alt_irq_active
    /\ Put([Top EXCEPT !.nests = FALSE])
    /\ UNCHANGED <<table, alt_irq_active, raised, switched>>

IsrReturn ==
    /\ InIsr /\ Top.served /\ ~Top.nests
    /\ Put([Frame EXCEPT !.pc = "again"])
    /\ UNCHANGED <<table, alt_irq_active, alt_priority_mask, ienable, pie,
                   raised, switched>>
-----------------------------------------------------------------------------
(* alt_irq_disable_all keeps the bit it clears, alt_irq_enable_all puts it *)
(* back.                                                                   *)
alt_irq_disable_all == pie' = FALSE
alt_irq_enable_all(saved) == pie' = saved

(* alt_ic_isr_register: the program gives an interrupt a routine, or none. *)
Register(i, new) ==
    /\ At("run") /\ Top.irq = Program
    /\ alt_irq_disable_all
    /\ Put([Top EXCEPT !.pc = "handler", !.id = i, !.new = new, !.status = pie,
                       !.on = (new # NULL), !.registers = TRUE])
    /\ UNCHANGED <<table, alt_irq_active, alt_priority_mask, ienable, raised,
                   switched>>

SetHandler ==
    /\ At("handler")
    /\ handler' = [handler EXCEPT ![Top.id] = Top.new]
    /\ Go("context")
    /\ UNCHANGED <<context, alt_irq_active, alt_priority_mask, ienable, pie,
                   raised, switched>>

SetContext ==
    /\ At("context")
    /\ context' = [context EXCEPT ![Top.id] = Top.new]
    /\ Go("disable")
    /\ UNCHANGED <<handler, alt_irq_active, alt_priority_mask, ienable, pie,
                   raised, switched>>

(* alt_ic_irq_enable, alt_ic_irq_disable: the program for an interrupt     *)
(* that has a routine, a routine for its own.                              *)
Switch(i, on) ==
    /\ At("run")
    /\ \/ Top.irq = Program /\ handler[i] # NULL
       \/ Top.irq = i /\ (alt_priority_mask = Irq \/ CallsNested)
    /\ Put([Top EXCEPT !.pc = "disable", !.id = i, !.on = on,
                       !.registers = FALSE])
    /\ UNCHANGED <<table, alt_irq_active, alt_priority_mask, ienable, pie,
                   raised, switched>>

(* alt_irq_enable, alt_irq_disable. *)
Disable ==
    /\ At("disable")
    /\ alt_irq_disable_all
    /\ Put([Top EXCEPT !.pc = "load", !.inner = pie])
    /\ UNCHANGED <<table, alt_irq_active, alt_priority_mask, ienable, raised,
                   switched>>

Load ==
    /\ At("load")
    /\ Put([Top EXCEPT !.pc = "store", !.loaded = alt_irq_active])
    /\ UNCHANGED <<table, alt_irq_active, alt_priority_mask, ienable, pie,
                   raised, switched>>

With(set) == IF Top.on THEN set \cup {Top.id} ELSE set \ {Top.id}

Store ==
    /\ At("store")
    /\ alt_irq_active' = With(Top.loaded)
    /\ switched' = With(switched)
    /\ Go("ienable")
    /\ UNCHANGED <<table, alt_priority_mask, ienable, pie, raised>>

WriteIenable ==
    /\ At("ienable")
    /\ ienable' = alt_irq_active
    /\ Go("enable")
    /\ UNCHANGED <<table, alt_irq_active, alt_priority_mask, pie, raised,
                   switched>>

Enable ==
    /\ At("enable")
    /\ alt_irq_enable_all(Top.inner)
    /\ IF Top.registers THEN Go("registered") ELSE Put(Resumed)
    /\ UNCHANGED <<table, alt_irq_active, alt_priority_mask, ienable, raised,
                   switched>>

RegisterEnds ==
    /\ At("registered")
    /\ alt_irq_enable_all(Top.status)
    /\ Put(Resumed)
    /\ UNCHANGED <<table, alt_irq_active, alt_priority_mask, ienable, raised,
                   switched>>

InCall == \/ SetHandler \/ SetContext \/ Disable \/ Load \/ Store
          \/ WriteIenable \/ Enable \/ RegisterEnds

Next ==
    \/ \E i \in Irq : Raise(i) \/ Withdraw(i)
    \/ Take \/ Look \/ LookAgain
    \/ Serve \/ alt_irq_interruptible \/ alt_irq_non_interruptible \/ IsrReturn
    \/ \E i \in Irq : \/ \E new \in Handlers \cup {NULL} : Register(i, new)
                      \/ \E on \in BOOLEAN : Switch(i, on)
    \/ InCall

Spec == Init /\ [][Next]_vars

-----------------------------------------------------------------------------
(* Whenever an interrupt can be dispatched there is a routine for it, and  *)
(* the context beside it is that routine's own.                            *)
ReadyToDispatch ==
    (pie \/ At("look") \/ At("again")) =>
        \A i \in ienable : handler[i] # NULL /\ context[i] = handler[i]

(* No enable or disable is undone by one that comes in between the load    *)
(* and the store of another.                                               *)
NoLostSwitch == alt_irq_active = switched

(* No interrupt sees half of an update, or undoes one.                     *)
UpdatesAtomic == ReadyToDispatch /\ NoLostSwitch

(* alt_legacy_irq.h: "to allow higer priority interrupts to interrupt the  *)
(* current ISR".  Whatever runs on top of a routine has a lower number.    *)
OnlyHigherNests ==
    \A k \in 2..Len(frames) : \A j \in (k + 1)..Len(frames) :
        frames[j].irq # Program => frames[j].irq < frames[k].irq

(* alt_irq_handler.c: the loop ends when alt_irq_pending returns zero.     *)
EndsOnZero == ~At("lost")
=============================================================================
