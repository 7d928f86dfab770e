---------------------------- MODULE Kernel_proofs ----------------------------
(***************************************************************************)
(* Proofs about the parts of the HAL that interrupts are about, for any    *)
(* number of interrupts, routines and alarms and words of any width.       *)
(***************************************************************************)
EXTENDS Interrupts, Alarms, TimeOfDay, NumberFacts, SequenceTheorems, FiniteSetTheorems, TLAPS

(* Interrupts.  A frame may be interrupted between two calls and before    *)
(* the first access of one; of the routines, only one that lets others in. *)
Dispatching == {"look", "again", "lost"}
Registering == {"handler", "context", "registered"}
Switching   == {"disable", "load", "store", "ienable", "enable"}

Places == {"run"} \cup Dispatching \cup Registering \cup Switching
FrameType == [irq : Irq \cup {Program}, pc : Places,
              id : Irq, on : BOOLEAN, new : Handlers \cup {NULL},
              status : BOOLEAN, inner : BOOLEAN, loaded : SUBSET Irq, old : SUBSET Irq,
              nests : BOOLEAN, served : BOOLEAN, registers : BOOLEAN]

IrqTypeOK ==
    /\ handler \in [Irq -> Handlers \cup {NULL}] /\ context \in [Irq -> Handlers \cup {NULL}]
    /\ alt_irq_active \subseteq Irq /\ alt_priority_mask \subseteq Irq /\ ienable \subseteq Irq
    /\ pie \in BOOLEAN
    /\ frames \in Seq(FrameType) /\ Len(frames) >= 1

Interruptible(k, f) ==
    /\ f.pc \in {"run", "disable"}
    /\ f.pc = "disable" => ~f.registers
    /\ k # 1 => f.nests

(* What the frame f, the k-th, is about: the first is the program, and the *)
(* only one that registers; the others dispatch or run the routine of an   *)
(* interrupt that has one.                                                 *)
Shape(k, f) ==
    /\ f.pc \in Dispatching <=> k # 1 /\ f.irq = Program
    /\ k = 1 => f.irq = Program /\ ~f.nests
    /\ f.pc \in Dispatching => ~f.nests
    /\ f.pc \in Registering => f.registers
    /\ f.registers /\ f.pc \in Registering \cup Switching => k = 1
    /\ f.pc \in {"load", "store", "ienable", "enable"} =>
          (f.inner => ~f.registers /\ (k # 1 => f.nests))
    /\ f.pc \in {"disable", "load", "store", "ienable"} /\ ~f.registers => handler[f.id] # NULL
    /\ f.irq # Program => handler[f.irq] # NULL

FramesInv ==
    /\ \A k \in 1..Len(frames) : Shape(k, frames[k])
    /\ \A k \in 1..(Len(frames) - 1) : Interruptible(k, frames[k])
    /\ pie => Interruptible(Len(frames), Top)

(* The entry that is being changed, from the first word of it to the       *)
(* enable register.                                                        *)
Unsettled(i) ==
    Top.registers /\ Top.pc \in {"context", "disable", "load", "store", "ienable"} /\ Top.id = i

TableInv ==
    /\ \A i \in alt_irq_active \cup ienable : handler[i] # NULL \/ Unsettled(i)
    /\ \A i \in Irq : context[i] = handler[i] \/ (Unsettled(i) /\ Top.pc = "context")
    /\ Top.registers /\ Top.pc \in Registering \cup Switching => (Top.on <=> Top.new # NULL)
    /\ Unsettled(Top.id) => handler[Top.id] = Top.new
    /\ Unsettled(Top.id) /\ Top.pc = "ienable" /\ ~Top.on => Top.id \notin alt_irq_active
    /\ Top.pc = "store" => Top.loaded = alt_irq_active
    /\ alt_irq_active = switched

IrqInv == IrqTypeOK /\ FramesInv /\ TableInv

(* What the routines under the k-th frame let in; and unless routines that *)
(* have let others in switch interrupts, no more than that is enabled.     *)
Beneath(k) == IF k >= 3 THEN 0..(frames[k - 1].irq - 1) ELSE Irq

PriorityInv ==
    /\ alt_priority_mask = IF Top.nests THEN 0..(Top.irq - 1) ELSE Beneath(Len(frames))
    /\ \A k \in 1..Len(frames) : frames[k].nests => frames[k].old = Beneath(k)
    /\ \A k \in 2..Len(frames) : frames[k].pc \in Switching =>
          ~frames[k].nests /\ alt_priority_mask = Irq
    /\ ienable \subseteq alt_priority_mask
    /\ OnlyHigherNests

-----------------------------------------------------------------------------
LEMMA TopFacts ==
    ASSUME IrqTypeOK
    PROVE  /\ Top \in FrameType /\ Len(frames) \in Nat /\ Len(frames) >= 1
           /\ \A k \in 1..Len(frames) : frames[k] \in FrameType
           /\ ALT_NIRQ \in Nat /\ ALT_NIRQ >= 1 /\ 0 \in Irq /\ Program \notin Irq
           /\ Frame \in FrameType
<1>1. /\ ALT_NIRQ \in Nat /\ ALT_NIRQ >= 1 /\ 0 \in Irq /\ Program \notin Irq
  BY InterruptsAssumption DEF Irq, Program
<1>2. Frame \in FrameType
  BY <1>1 DEF Frame, FrameType, Places
<1>3. /\ Top \in FrameType /\ Len(frames) \in Nat /\ Len(frames) >= 1
      /\ \A k \in 1..Len(frames) : frames[k] \in FrameType
  BY DEF IrqTypeOK, Top
<1> QED BY <1>1, <1>2, <1>3

LEMMA Running ==
    ASSUME IrqInv
    PROVE  /\ IrqTypeOK /\ FramesInv /\ TableInv
           /\ Top \in FrameType /\ Frame \in FrameType /\ Shape(Len(frames), Top)
           /\ Len(frames) \in Nat /\ Len(frames) >= 1
           /\ 0 \in Irq /\ Program \notin Irq
  BY TopFacts DEF IrqInv, FramesInv, Top

(* The running frame changes; those under it stay as they are.             *)
LEMMA PutFacts ==
    ASSUME IrqTypeOK, NEW f \in FrameType, Put(f)
    PROVE  /\ frames' \in Seq(FrameType) /\ Len(frames') = Len(frames) /\ Top' = f
           /\ frames'[Len(frames)] = f
           /\ \A k \in 1..(Len(frames) - 1) : frames'[k] = frames[k]
<1>1. /\ frames \in Seq(FrameType) /\ Len(frames) >= 1
      /\ frames' = [frames EXCEPT ![Len(frames)] = f]
  BY DEF IrqTypeOK, Put
<1>2. frames' \in Seq(FrameType) /\ Len(frames') = Len(frames)
  BY <1>1, ExceptSeq
<1>3. frames'[Len(frames)] = f /\ \A k \in 1..(Len(frames) - 1) : frames'[k] = frames[k]
  BY <1>1
<1> QED BY <1>2, <1>3 DEF Top

LEMMA PutFrames ==
    ASSUME IrqTypeOK, FramesInv, NEW f \in FrameType, Put(f), handler' = handler,
           Shape(Len(frames), f), pie' => Interruptible(Len(frames), f)
    PROVE  FramesInv'
<1>1. /\ Len(frames') = Len(frames) /\ Top' = f /\ frames'[Len(frames)] = f
      /\ \A k \in 1..(Len(frames) - 1) : frames'[k] = frames[k]
      /\ Len(frames) \in Nat /\ Len(frames) >= 1
  BY PutFacts, TopFacts
<1>2. ASSUME NEW k \in 1..Len(frames') PROVE Shape(k, frames[k])'
  <2>1. CASE k = Len(frames)
    BY <1>1, <2>1 DEF Shape
  <2>2. CASE k # Len(frames)
    BY <1>1, <2>2 DEF Shape, FramesInv
  <2> QED BY <2>1, <2>2
<1>3. ASSUME NEW k \in 1..(Len(frames') - 1) PROVE Interruptible(k, frames'[k])
  BY <1>1 DEF FramesInv
<1> QED BY <1>1, <1>2, <1>3 DEF FramesInv, Interruptible

(* The first interrupt that is pending and enabled has a routine.          *)
LEMMA FirstPending ==
    ASSUME IrqInv, Pending # {}, ~Unsettled(Top.id)
    PROVE  First \in Irq /\ First \in ienable /\ First # Program /\ handler[First] # NULL
<1>1. /\ ienable \subseteq Irq /\ Irq \subseteq Nat /\ Program \notin Irq
      /\ \A i \in ienable : handler[i] # NULL
  BY Running DEF IrqTypeOK, TableInv, Unsettled, Irq
<1>2. First \in Pending
  <2>1. Pending \in SUBSET Nat
    BY <1>1 DEF Pending
  <2>2. \E i \in Pending : \A j \in Pending : i <= j
    BY <2>1, LeastNumber
  <2> QED BY <2>2 DEF First
<1> QED BY <1>1, <1>2 DEF Pending

LEMMA ServeInv ==
    ASSUME IrqInv, Serve
    PROVE  IrqInv'
<1> DEFINE f == [Top EXCEPT !.served = TRUE]
<1>1. /\ IrqTypeOK /\ FramesInv /\ TableInv /\ Top \in FrameType /\ Shape(Len(frames), Top)
      /\ Top.pc = "run" /\ UNCHANGED pie
      /\ UNCHANGED <<handler, context, alt_irq_active, alt_priority_mask, ienable, switched>>
  BY Running DEF Serve, InIsr, At, table
<1>2. /\ f \in FrameType /\ f.pc = "run" /\ f.irq = Top.irq /\ f.id = Top.id /\ f.on = Top.on /\ f.new = Top.new
      /\ f.nests = Top.nests /\ f.registers = Top.registers /\ f.old = Top.old
      /\ f.inner = Top.inner
  BY <1>1 DEF FrameType, Places, Dispatching, Registering, Switching
<1>3. Put(f)
  BY DEF Serve, InIsr, At, table
<1> HIDE DEF f
<1>4. IrqTypeOK' /\ Top' = f
  BY <1>1, <1>2, <1>3, PutFacts DEF IrqTypeOK
<1>5. Shape(Len(frames), f)
  BY <1>1, <1>2 DEF Shape, FramesInv, Interruptible, TableInv, Dispatching, Registering, Switching
<1>6. FramesInv'
  <2>1. pie' => Interruptible(Len(frames), f)
    BY <1>1, <1>2 DEF Shape, FramesInv, Interruptible, Dispatching, Registering, Switching
  <2> QED BY <1>1, <1>2, <1>3, <1>5, <2>1, PutFrames
<1>7. TableInv'
  BY <1>1, <1>2, <1>4 DEF TableInv, Unsettled, Registering, Switching
<1> QED BY <1>4, <1>6, <1>7 DEF IrqInv

LEMMA SwitchInv ==
    ASSUME IrqInv, NEW i \in Irq, NEW on \in BOOLEAN, Switch(i, on)
    PROVE  IrqInv'
<1> DEFINE f == [Top EXCEPT !.pc = "disable", !.id = i, !.on = on, !.registers = FALSE]
<1>1. /\ IrqTypeOK /\ FramesInv /\ TableInv /\ Top \in FrameType /\ Shape(Len(frames), Top)
      /\ Top.pc = "run" /\ handler[i] # NULL /\ UNCHANGED pie
      /\ UNCHANGED <<handler, context, alt_irq_active, alt_priority_mask, ienable, switched>>
  BY Running DEF Switch, At, table, Shape
<1>2. /\ f \in FrameType /\ f.pc = "disable" /\ f.id = i /\ ~f.registers
      /\ f.irq = Top.irq /\ f.nests = Top.nests
  BY <1>1 DEF FrameType, Places, Dispatching, Registering, Switching
<1>3. Put(f)
  BY DEF Switch, At, table, Shape
<1> HIDE DEF f
<1>4. IrqTypeOK' /\ Top' = f
  BY <1>1, <1>2, <1>3, PutFacts DEF IrqTypeOK
<1>5. Shape(Len(frames), f)
  BY <1>1, <1>2 DEF Shape, FramesInv, Interruptible, TableInv, Dispatching, Registering, Switching
<1>6. FramesInv'
  <2>1. pie' => Interruptible(Len(frames), f)
    BY <1>1, <1>2 DEF Shape, FramesInv, Interruptible, Dispatching, Registering, Switching
  <2> QED BY <1>1, <1>2, <1>3, <1>5, <2>1, PutFrames
<1>7. TableInv'
  BY <1>1, <1>2, <1>4 DEF TableInv, Unsettled, Registering, Switching
<1> QED BY <1>4, <1>6, <1>7 DEF IrqInv

LEMMA RegisterInv ==
    ASSUME IrqInv, NEW i \in Irq, NEW new \in Handlers \cup {NULL}, Register(i, new)
    PROVE  IrqInv'
<1> DEFINE f == [Top EXCEPT !.pc = "handler", !.id = i, !.new = new, !.status = pie,
                                !.on = (new # NULL), !.registers = TRUE]
<1>1. /\ IrqTypeOK /\ FramesInv /\ TableInv /\ Top \in FrameType /\ Shape(Len(frames), Top)
      /\ Top.pc = "run" /\ Top.irq = Program /\ pie' = FALSE /\ pie \in BOOLEAN
      /\ UNCHANGED <<handler, context, alt_irq_active, alt_priority_mask, ienable, switched>>
  BY Running DEF Register, At, table, alt_irq_disable_all, IrqTypeOK
<1>2. /\ f \in FrameType /\ f.pc = "handler" /\ f.id = i /\ f.registers
      /\ f.new = new /\ (f.on <=> new # NULL)
      /\ f.irq = Top.irq /\ f.nests = Top.nests
  BY <1>1, ZenonT(60) DEF FrameType, Places, Registering
<1>3. Put(f)
  BY DEF Register, At, table, alt_irq_disable_all, IrqTypeOK
<1> HIDE DEF f
<1>4. IrqTypeOK' /\ Top' = f
  BY <1>1, <1>2, <1>3, PutFacts DEF IrqTypeOK
<1>5. Shape(Len(frames), f)
  BY <1>1, <1>2 DEF Shape, FramesInv, Interruptible, TableInv, Dispatching, Registering, Switching
<1>6. FramesInv'
  <2>1. pie' => Interruptible(Len(frames), f)
    BY <1>1, <1>2 DEF Shape, FramesInv, Interruptible, Dispatching, Registering, Switching
  <2> QED BY <1>1, <1>2, <1>3, <1>5, <2>1, PutFrames
<1>7. TableInv'
  BY <1>1, <1>2, <1>4 DEF TableInv, Unsettled, Registering, Switching
<1> QED BY <1>4, <1>6, <1>7 DEF IrqInv

LEMMA DisableInv ==
    ASSUME IrqInv, Disable
    PROVE  IrqInv'
<1> DEFINE f == [Top EXCEPT !.pc = "load", !.inner = pie]
<1>1. /\ IrqTypeOK /\ FramesInv /\ TableInv /\ Top \in FrameType /\ Shape(Len(frames), Top)
      /\ Top.pc = "disable" /\ pie' = FALSE /\ pie \in BOOLEAN
      /\ UNCHANGED <<handler, context, alt_irq_active, alt_priority_mask, ienable, switched>>
  BY Running DEF Disable, At, table, alt_irq_disable_all, IrqTypeOK
<1>2. /\ f \in FrameType /\ f.pc = "load" /\ f.inner = pie
      /\ f.irq = Top.irq /\ f.id = Top.id /\ f.on = Top.on /\ f.new = Top.new
      /\ f.nests = Top.nests /\ f.registers = Top.registers /\ f.old = Top.old
  BY <1>1 DEF FrameType, Places, Dispatching, Registering, Switching
<1>3. Put(f)
  BY DEF Disable, At, table, alt_irq_disable_all, IrqTypeOK
<1> HIDE DEF f
<1>4. IrqTypeOK' /\ Top' = f
  BY <1>1, <1>2, <1>3, PutFacts DEF IrqTypeOK
<1>5. Shape(Len(frames), f)
  BY <1>1, <1>2 DEF Shape, FramesInv, Interruptible, TableInv, Dispatching, Registering, Switching
<1>6. FramesInv'
  <2>1. pie' => Interruptible(Len(frames), f)
    BY <1>1, <1>2 DEF Shape, FramesInv, Interruptible, Dispatching, Registering, Switching
  <2> QED BY <1>1, <1>2, <1>3, <1>5, <2>1, PutFrames
<1>7. TableInv'
  BY <1>1, <1>2, <1>4 DEF TableInv, Unsettled, Registering, Switching
<1> QED BY <1>4, <1>6, <1>7 DEF IrqInv

LEMMA LoadInv ==
    ASSUME IrqInv, Load
    PROVE  IrqInv'
<1> DEFINE f == [Top EXCEPT !.pc = "store", !.loaded = alt_irq_active]
<1>1. /\ IrqTypeOK /\ FramesInv /\ TableInv /\ Top \in FrameType /\ Shape(Len(frames), Top)
      /\ Top.pc = "load" /\ UNCHANGED pie /\ alt_irq_active \subseteq Irq
      /\ UNCHANGED <<handler, context, alt_irq_active, alt_priority_mask, ienable, switched>>
  BY Running DEF Load, At, table, IrqTypeOK
<1>2. /\ f \in FrameType /\ f.pc = "store" /\ f.loaded = alt_irq_active
      /\ f.irq = Top.irq /\ f.id = Top.id /\ f.on = Top.on /\ f.new = Top.new
      /\ f.nests = Top.nests /\ f.registers = Top.registers /\ f.old = Top.old
      /\ f.inner = Top.inner
  BY <1>1 DEF FrameType, Places, Dispatching, Registering, Switching
<1>3. Put(f)
  BY DEF Load, At, table, IrqTypeOK
<1> HIDE DEF f
<1>4. IrqTypeOK' /\ Top' = f
  BY <1>1, <1>2, <1>3, PutFacts DEF IrqTypeOK
<1>5. Shape(Len(frames), f)
  BY <1>1, <1>2 DEF Shape, FramesInv, Interruptible, TableInv, Dispatching, Registering, Switching
<1>6. FramesInv'
  <2>1. pie' => Interruptible(Len(frames), f)
    BY <1>1, <1>2 DEF Shape, FramesInv, Interruptible, Dispatching, Registering, Switching
  <2> QED BY <1>1, <1>2, <1>3, <1>5, <2>1, PutFrames
<1>7. TableInv'
  BY <1>1, <1>2, <1>4 DEF TableInv, Unsettled, Registering, Switching
<1> QED BY <1>4, <1>6, <1>7 DEF IrqInv

LEMMA IsrReturnInv ==
    ASSUME IrqInv, IsrReturn
    PROVE  IrqInv'
<1> DEFINE f == [Frame EXCEPT !.pc = "again"]
<1>1. /\ IrqTypeOK /\ FramesInv /\ TableInv /\ Top \in FrameType /\ Shape(Len(frames), Top)
      /\ Top.pc = "run" /\ Top.irq # Program /\ ~Top.nests /\ UNCHANGED pie /\ Program \notin Irq /\ Frame \in FrameType
      /\ UNCHANGED <<handler, context, alt_irq_active, alt_priority_mask, ienable, switched>>
  BY Running DEF IsrReturn, InIsr, At, table
<1>2. /\ f \in FrameType /\ f.pc = "again" /\ ~f.registers /\ ~f.nests
      /\ f.irq = Program
  BY <1>1 DEF Frame, FrameType, Places, Dispatching, Registering, Switching
<1>3. Put(f)
  BY DEF IsrReturn, InIsr, At, table
<1> HIDE DEF f
<1>4. IrqTypeOK' /\ Top' = f
  BY <1>1, <1>2, <1>3, PutFacts DEF IrqTypeOK
<1>5. Shape(Len(frames), f)
  BY <1>1, <1>2 DEF Shape, FramesInv, Interruptible, TableInv, Dispatching, Registering, Switching
<1>6. FramesInv'
  <2>1. pie' => Interruptible(Len(frames), f)
    BY <1>1, <1>2 DEF Shape, FramesInv, Interruptible, Dispatching, Registering, Switching
  <2> QED BY <1>1, <1>2, <1>3, <1>5, <2>1, PutFrames
<1>7. TableInv'
  BY <1>1, <1>2, <1>4 DEF TableInv, Unsettled, Registering, Switching
<1> QED BY <1>4, <1>6, <1>7 DEF IrqInv

LEMMA InterruptibleInv ==
    ASSUME IrqInv, alt_irq_interruptible
    PROVE  IrqInv'
<1> DEFINE f == [Top EXCEPT !.old = alt_priority_mask, !.nests = TRUE]
<1>1. /\ IrqTypeOK /\ FramesInv /\ TableInv /\ Top \in FrameType /\ Shape(Len(frames), Top)
      /\ Top.pc = "run" /\ Top.irq # Program /\ pie' = TRUE /\ alt_priority_mask \subseteq Irq
      /\ alt_priority_mask' \subseteq Irq /\ ienable' \subseteq alt_irq_active /\ ienable' \subseteq Irq
      /\ UNCHANGED <<handler, context, alt_irq_active, switched>>
  BY Running DEF alt_irq_interruptible, InIsr, At, table, IrqTypeOK
<1>2. /\ f \in FrameType /\ f.pc = "run" /\ f.nests
      /\ f.irq = Top.irq /\ f.id = Top.id
  BY <1>1 DEF FrameType, Places, Dispatching, Registering, Switching
<1>3. Put(f)
  BY DEF alt_irq_interruptible, InIsr, At, table, IrqTypeOK
<1> HIDE DEF f
<1>4. IrqTypeOK' /\ Top' = f
  BY <1>1, <1>2, <1>3, PutFacts DEF IrqTypeOK
<1>5. Shape(Len(frames), f)
  BY <1>1, <1>2 DEF Shape, FramesInv, Interruptible, TableInv, Dispatching, Registering, Switching
<1>6. FramesInv'
  <2>1. pie' => Interruptible(Len(frames), f)
    BY <1>1, <1>2 DEF Shape, FramesInv, Interruptible, Dispatching, Registering, Switching
  <2> QED BY <1>1, <1>2, <1>3, <1>5, <2>1, PutFrames
<1>7. TableInv'
  BY <1>1, <1>2, <1>4 DEF TableInv, Unsettled, Registering, Switching
<1> QED BY <1>4, <1>6, <1>7 DEF IrqInv

LEMMA NonInterruptibleInv ==
    ASSUME IrqInv, alt_irq_non_interruptible
    PROVE  IrqInv'
<1> DEFINE f == [Top EXCEPT !.nests = FALSE]
<1>1. /\ IrqTypeOK /\ FramesInv /\ TableInv /\ Top \in FrameType /\ Shape(Len(frames), Top)
      /\ Top.pc = "run" /\ Top.irq # Program /\ pie' = FALSE /\ Top.old \subseteq Irq
      /\ alt_priority_mask' \subseteq Irq /\ ienable' \subseteq alt_irq_active /\ ienable' \subseteq Irq
      /\ UNCHANGED <<handler, context, alt_irq_active, switched>>
  BY Running DEF alt_irq_non_interruptible, InIsr, At, table, IrqTypeOK, FrameType, Places
<1>2. /\ f \in FrameType /\ f.pc = "run" /\ ~f.nests
      /\ f.irq = Top.irq /\ f.id = Top.id
  BY <1>1 DEF FrameType, Places, Dispatching, Registering, Switching
<1>3. Put(f)
  BY DEF alt_irq_non_interruptible, InIsr, At, table, IrqTypeOK, FrameType, Places
<1> HIDE DEF f
<1>4. IrqTypeOK' /\ Top' = f
  BY <1>1, <1>2, <1>3, PutFacts DEF IrqTypeOK
<1>5. Shape(Len(frames), f)
  BY <1>1, <1>2 DEF Shape, FramesInv, Interruptible, TableInv, Dispatching, Registering, Switching
<1>6. FramesInv'
  <2>1. pie' => Interruptible(Len(frames), f)
    BY <1>1, <1>2 DEF Shape, FramesInv, Interruptible, Dispatching, Registering, Switching
  <2> QED BY <1>1, <1>2, <1>3, <1>5, <2>1, PutFrames
<1>7. TableInv'
  BY <1>1, <1>2, <1>4 DEF TableInv, Unsettled, Registering, Switching
<1> QED BY <1>4, <1>6, <1>7 DEF IrqInv

LEMMA SetContextInv ==
    ASSUME IrqInv, SetContext
    PROVE  IrqInv'
<1> DEFINE f == [Top EXCEPT !.pc = "disable"]
<1>1. /\ IrqTypeOK /\ FramesInv /\ TableInv /\ Top \in FrameType /\ Shape(Len(frames), Top)
      /\ Top.pc = "context" /\ context' = [context EXCEPT ![Top.id] = Top.new] /\ UNCHANGED pie
      /\ Top.id \in Irq /\ Top.new \in Handlers \cup {NULL}
      /\ UNCHANGED <<handler, alt_irq_active, alt_priority_mask, ienable, switched>>
  BY Running DEF SetContext, Go, At, table, FrameType, Places
<1>2. /\ f \in FrameType /\ f.pc = "disable"
      /\ f.irq = Top.irq /\ f.id = Top.id /\ f.on = Top.on /\ f.new = Top.new
      /\ f.nests = Top.nests /\ f.registers = Top.registers /\ f.old = Top.old
      /\ f.inner = Top.inner
  BY <1>1 DEF FrameType, Places, Dispatching, Registering, Switching
<1>3. Put(f)
  BY DEF SetContext, Go
<1> HIDE DEF f
<1>4. IrqTypeOK' /\ Top' = f
  BY <1>1, <1>2, <1>3, PutFacts DEF IrqTypeOK
<1>5. Shape(Len(frames), f)
  BY <1>1, <1>2 DEF Shape, FramesInv, Interruptible, TableInv, Dispatching, Registering, Switching
<1>6. FramesInv'
  <2>1. pie' => Interruptible(Len(frames), f)
    BY <1>1, <1>2 DEF Shape, FramesInv, Interruptible, Dispatching, Registering, Switching
  <2> QED BY <1>1, <1>2, <1>3, <1>5, <2>1, PutFrames
<1>7. TableInv'
  <2>1. Top.registers
    BY <1>1 DEF Shape, Registering
  <2>2. handler[Top.id] = Top.new /\ \A i \in Irq : context[i] = handler[i] \/ i = Top.id
    BY <1>1, <2>1 DEF TableInv, Unsettled
  <2>3. \A i \in Irq : context'[i] = handler[i]
    BY <1>1, <2>2 DEF IrqTypeOK
  <2> QED BY <1>1, <1>2, <1>4, <2>1, <2>3 DEF TableInv, Unsettled, Registering, Switching
<1> QED BY <1>4, <1>6, <1>7 DEF IrqInv

LEMMA StoreInv ==
    ASSUME IrqInv, Store
    PROVE  IrqInv'
<1> DEFINE f == [Top EXCEPT !.pc = "ienable"]
<1>1. /\ IrqTypeOK /\ FramesInv /\ TableInv /\ Top \in FrameType /\ Shape(Len(frames), Top)
      /\ Top.pc = "store" /\ alt_irq_active' = With(Top.loaded) /\ switched' = With(switched) /\ UNCHANGED pie
      /\ Top.id \in Irq /\ Top.loaded \subseteq Irq
      /\ UNCHANGED <<handler, context, alt_priority_mask, ienable>>
  BY Running DEF Store, Go, At, table, FrameType, Places
<1>2. /\ f \in FrameType /\ f.pc = "ienable"
      /\ f.irq = Top.irq /\ f.id = Top.id /\ f.on = Top.on /\ f.new = Top.new
      /\ f.nests = Top.nests /\ f.registers = Top.registers /\ f.old = Top.old
      /\ f.inner = Top.inner
  BY <1>1 DEF FrameType, Places, Dispatching, Registering, Switching
<1>3. Put(f)
  BY DEF Store, Go
<1> HIDE DEF f
<1>4. IrqTypeOK' /\ Top' = f
  BY <1>1, <1>2, <1>3, PutFacts DEF IrqTypeOK, With
<1>5. Shape(Len(frames), f)
  BY <1>1, <1>2 DEF Shape, FramesInv, Interruptible, TableInv, Dispatching, Registering, Switching
<1>6. FramesInv'
  <2>1. pie' => Interruptible(Len(frames), f)
    BY <1>1, <1>2 DEF Shape, FramesInv, Interruptible, Dispatching, Registering, Switching
  <2> QED BY <1>1, <1>2, <1>3, <1>5, <2>1, PutFrames
<1>7. TableInv'
  BY <1>1, <1>2, <1>4 DEF TableInv, With, Unsettled, Shape, Registering, Switching
<1> QED BY <1>4, <1>6, <1>7 DEF IrqInv

LEMMA WriteIenableInv ==
    ASSUME IrqInv, WriteIenable
    PROVE  IrqInv'
<1> DEFINE f == [Top EXCEPT !.pc = "enable"]
<1>1. /\ IrqTypeOK /\ FramesInv /\ TableInv /\ Top \in FrameType /\ Shape(Len(frames), Top)
      /\ Top.pc = "ienable" /\ ienable' = alt_irq_active /\ UNCHANGED pie
      /\ UNCHANGED <<handler, context, alt_irq_active, alt_priority_mask, switched>>
  BY Running DEF WriteIenable, Go, At, table
<1>2. /\ f \in FrameType /\ f.pc = "enable"
      /\ f.irq = Top.irq /\ f.id = Top.id /\ f.on = Top.on /\ f.new = Top.new
      /\ f.nests = Top.nests /\ f.registers = Top.registers /\ f.old = Top.old
      /\ f.inner = Top.inner
  BY <1>1 DEF FrameType, Places, Dispatching, Registering, Switching
<1>3. Put(f)
  BY DEF WriteIenable, Go
<1> HIDE DEF f
<1>4. IrqTypeOK' /\ Top' = f
  BY <1>1, <1>2, <1>3, PutFacts DEF IrqTypeOK
<1>5. Shape(Len(frames), f)
  BY <1>1, <1>2 DEF Shape, FramesInv, Interruptible, TableInv, Dispatching, Registering, Switching
<1>6. FramesInv'
  <2>1. pie' => Interruptible(Len(frames), f)
    BY <1>1, <1>2 DEF Shape, FramesInv, Interruptible, Dispatching, Registering, Switching
  <2> QED BY <1>1, <1>2, <1>3, <1>5, <2>1, PutFrames
<1>7. TableInv'
  BY <1>1, <1>2, <1>4 DEF TableInv, Unsettled, Shape, Registering, Switching
<1> QED BY <1>4, <1>6, <1>7 DEF IrqInv

LEMMA SetHandlerInv ==
    ASSUME IrqInv, SetHandler
    PROVE  IrqInv'
<1> DEFINE f == [Top EXCEPT !.pc = "context"]
<1>1. /\ IrqTypeOK /\ FramesInv /\ TableInv /\ Top \in FrameType /\ Shape(Len(frames), Top)
      /\ Top.pc = "handler" /\ handler' = [handler EXCEPT ![Top.id] = Top.new] /\ UNCHANGED pie
      /\ Top.id \in Irq /\ Top.new \in Handlers \cup {NULL}
      /\ UNCHANGED <<context, alt_irq_active, alt_priority_mask, ienable, switched>>
  BY Running DEF SetHandler, Go, At, table, FrameType, Places
<1>2. /\ f \in FrameType /\ f.pc = "context"
      /\ f.irq = Top.irq /\ f.id = Top.id /\ f.on = Top.on /\ f.new = Top.new
      /\ f.nests = Top.nests /\ f.registers = Top.registers
  BY <1>1 DEF FrameType, Places, Dispatching, Registering, Switching
<1>3. Put(f)
  BY DEF SetHandler, Go
<1> HIDE DEF f
<1>4. IrqTypeOK' /\ Top' = f
  BY <1>1, <1>2, <1>3, PutFacts DEF IrqTypeOK
<1>5. Top.registers /\ Len(frames) = 1 /\ Top.irq = Program /\ ~Top.nests /\ ~pie
  BY <1>1, Running DEF Shape, FramesInv, Interruptible, Registering
<1>6. FramesInv'
  <2>1. Len(frames') = 1 /\ frames'[1] = f
    BY <1>1, <1>2, <1>3, <1>5, PutFacts
  <2>2. Shape(1, frames[1])'
    BY <1>2, <1>5, <2>1 DEF Shape, Dispatching, Registering, Switching
  <2> QED BY <1>1, <1>5, <2>1, <2>2 DEF FramesInv
<1>7. TableInv'
  <2>1. \A i \in Irq : handler'[i] = IF i = Top.id THEN Top.new ELSE handler[i]
    BY <1>1 DEF IrqTypeOK
  <2>2. alt_irq_active \subseteq Irq /\ ienable \subseteq Irq
    BY <1>1 DEF IrqTypeOK
  <2>3. /\ \A i \in alt_irq_active \cup ienable : handler[i] # NULL
        /\ \A i \in Irq : context[i] = handler[i]
        /\ Top.on <=> Top.new # NULL
        /\ alt_irq_active = switched
    BY <1>1, <1>5 DEF TableInv, Unsettled, Registering
  <2>4. \A i : Unsettled(i)' <=> i = Top.id
    BY <1>2, <1>4, <1>5 DEF Unsettled
  <2>5. \A i \in alt_irq_active' \cup ienable' : handler'[i] # NULL \/ Unsettled(i)'
    BY <1>1, <2>1, <2>2, <2>3, <2>4
  <2>6. \A i \in Irq : context'[i] = handler'[i] \/ (Unsettled(i)' /\ Top'.pc = "context")
    BY <1>1, <1>2, <1>4, <2>1, <2>3, <2>4
  <2>7. handler'[Top'.id] = Top'.new
    BY <1>1, <1>2, <1>4, <2>1
  <2> QED BY <1>1, <1>2, <1>4, <2>3, <2>5, <2>6, <2>7 DEF TableInv
<1> QED BY <1>4, <1>6, <1>7 DEF IrqInv

(* The end of alt_irq_enable and alt_irq_disable, in a registration and    *)
(* out of it.                                                              *)
LEMMA ResumeInv ==
    ASSUME IrqInv, Top.pc \in {"enable", "registered"}, Put(Resumed), pie' \in BOOLEAN,
           pie' => (Len(frames) # 1 => Top.nests),
           UNCHANGED <<handler, context, alt_irq_active, alt_priority_mask, ienable, switched>>
    PROVE  IrqInv'
<1> DEFINE f == Resumed
<1>1. /\ IrqTypeOK /\ FramesInv /\ TableInv /\ Top \in FrameType /\ Shape(Len(frames), Top)
      /\ Frame \in FrameType
  BY Running
<1>2. /\ f \in FrameType /\ f.pc = "run" /\ f.irq = Top.irq /\ f.nests = Top.nests
      /\ ~f.registers
  BY <1>1, ZenonT(60) DEF Resumed, Frame, FrameType, Places
<1> HIDE DEF f
<1>3. IrqTypeOK' /\ Top' = f
  BY <1>1, <1>2, PutFacts DEF IrqTypeOK, f
<1>4. Shape(Len(frames), f)
  BY <1>1, <1>2 DEF Shape, Dispatching, Registering, Switching
<1>5. FramesInv'
  <2>1. pie' => Interruptible(Len(frames), f)
    BY <1>2 DEF Interruptible
  <2> QED BY <1>1, <1>2, <1>4, <2>1, PutFrames DEF f
<1>6. TableInv'
  BY <1>1, <1>2, <1>3 DEF TableInv, Unsettled, Registering, Switching
<1> QED BY <1>3, <1>5, <1>6 DEF IrqInv

LEMMA EnableInv ==
    ASSUME IrqInv, Enable
    PROVE  IrqInv'
<1>1. /\ IrqTypeOK /\ FramesInv /\ TableInv /\ Top \in FrameType /\ Shape(Len(frames), Top)
      /\ Top.pc = "enable" /\ pie' = Top.inner /\ pie' \in BOOLEAN
      /\ UNCHANGED <<handler, context, alt_irq_active, alt_priority_mask, ienable, switched>>
  BY Running DEF Enable, At, table, alt_irq_enable_all, FrameType, Places
<1>2. CASE ~Top.registers
  <2>1. Put(Resumed)
    BY <1>2 DEF Enable
  <2>2. pie' => (Len(frames) # 1 => Top.nests)
    BY <1>1 DEF Shape
  <2> QED BY <1>1, <2>1, <2>2, ResumeInv
<1>3. CASE Top.registers
  <2> DEFINE f == [Top EXCEPT !.pc = "registered"]
  <2>1. Put(f) /\ ~pie'
    BY <1>1, <1>3 DEF Enable, Go, Shape
  <2>2. /\ f \in FrameType /\ f.pc = "registered" /\ f.registers
        /\ f.irq = Top.irq /\ f.on = Top.on /\ f.new = Top.new /\ f.nests = Top.nests
    BY <1>1, <1>3 DEF FrameType, Places, Dispatching, Registering, Switching
  <2> HIDE DEF f
  <2>3. IrqTypeOK' /\ Top' = f
    BY <1>1, <2>1, <2>2, PutFacts DEF IrqTypeOK
  <2>4. Shape(Len(frames), f)
    BY <1>1, <1>3, <2>2 DEF Shape, Dispatching, Registering, Switching
  <2>5. FramesInv'
    BY <1>1, <2>1, <2>2, <2>4, PutFrames
  <2>6. TableInv'
    BY <1>1, <1>3, <2>2, <2>3 DEF TableInv, Unsettled, Registering, Switching
  <2> QED BY <2>3, <2>5, <2>6 DEF IrqInv
<1> QED BY <1>2, <1>3

LEMMA RegisterEndsInv ==
    ASSUME IrqInv, RegisterEnds
    PROVE  IrqInv'
<1>1. /\ Top \in FrameType /\ Shape(Len(frames), Top)
      /\ Top.pc = "registered" /\ Put(Resumed) /\ pie' = Top.status /\ pie' \in BOOLEAN
      /\ UNCHANGED <<handler, context, alt_irq_active, alt_priority_mask, ienable, switched>>
  BY Running DEF RegisterEnds, At, table, alt_irq_enable_all, FrameType, Places
<1>2. Len(frames) = 1
  BY <1>1 DEF Shape, Registering
<1> QED BY <1>1, <1>2, ResumeInv

(* The processor takes an interrupt, and the loop of alt_irq_handler.      *)
LEMMA TakeInv ==
    ASSUME IrqInv, Take
    PROVE  IrqInv'
<1> DEFINE f == [Frame EXCEPT !.pc = "look"]
           n == Len(frames)
<1>1. /\ IrqTypeOK /\ FramesInv /\ TableInv /\ Frame \in FrameType
      /\ n \in Nat /\ n >= 1 /\ pie /\ pie' = FALSE /\ frames \in Seq(FrameType)
      /\ UNCHANGED <<handler, context, alt_irq_active, alt_priority_mask, ienable, switched>>
  BY Running DEF Take, table, IrqTypeOK
<1>2. f \in FrameType /\ f.pc = "look" /\ f.irq = Program /\ ~f.nests /\ ~f.registers
  BY <1>1 DEF Frame, FrameType, Places, Dispatching
<1>3. frames' = Append(frames, f)
  BY DEF Take
<1> HIDE DEF f
<1>4. /\ frames' \in Seq(FrameType) /\ Len(frames') = n + 1 /\ frames'[n + 1] = f
      /\ \A k \in 1..n : frames'[k] = frames[k]
  BY <1>1, <1>2, <1>3, AppendProperties
<1>5. IrqTypeOK' /\ Top' = f
  <2>1. Len(frames') >= 1 /\ frames'[Len(frames')] = f
    BY <1>1, <1>4
  <2> QED BY <1>1, <1>4, <2>1 DEF IrqTypeOK, Top
<1>6. FramesInv'
  <2>1. ASSUME NEW k \in 1..(n + 1) PROVE Shape(k, frames[k])'
    <3>1. CASE k = n + 1
      BY <1>1, <1>2, <1>4, <3>1 DEF Shape, Dispatching, Registering, Switching
    <3>2. CASE k # n + 1
      BY <1>1, <1>4, <3>2 DEF Shape, FramesInv
    <3> QED BY <3>1, <3>2
  <2>2. ASSUME NEW k \in 1..n PROVE Interruptible(k, frames[k])
    BY <1>1 DEF FramesInv, Top
  <2> QED BY <1>1, <1>4, <2>1, <2>2 DEF FramesInv, Interruptible
<1>7. TableInv'
  <2>1. \A i : ~Unsettled(i)
    BY <1>1 DEF FramesInv, Interruptible, Unsettled
  <2> QED BY <1>1, <1>2, <1>5, <2>1 DEF TableInv, Unsettled, Registering, Switching
<1> QED BY <1>5, <1>6, <1>7 DEF IrqInv

LEMMA DispatchInv ==
    ASSUME IrqInv, Top.pc \in {"look", "again"}, Pending # {}, Dispatch,
           UNCHANGED <<handler, context, alt_irq_active, alt_priority_mask, ienable, switched, pie>>
    PROVE  IrqInv'
<1> DEFINE f == [Frame EXCEPT !.irq = First]
<1>1. /\ IrqTypeOK /\ FramesInv /\ TableInv /\ Frame \in FrameType /\ Top \in FrameType
      /\ Shape(Len(frames), Top)
  BY Running
<1>2. \A i : ~Unsettled(i)
  BY DEF Unsettled
<1>3. First \in Irq /\ First \in ienable /\ First # Program /\ handler[First] # NULL
  BY <1>2, FirstPending
<1>4. f \in FrameType /\ f.pc = "run" /\ f.irq = First /\ ~f.nests /\ ~f.registers
  BY <1>1, <1>3 DEF Frame, FrameType, Places
<1>5. Put(f)
  BY DEF Dispatch
<1> HIDE DEF f
<1>6. IrqTypeOK' /\ Top' = f
  BY <1>1, <1>4, <1>5, PutFacts DEF IrqTypeOK
<1>7. Len(frames) # 1 /\ ~pie
  BY <1>1 DEF Shape, FramesInv, Interruptible, Dispatching
<1>8. Shape(Len(frames), f)
  BY <1>3, <1>4, <1>7 DEF Shape, Dispatching, Registering, Switching
<1>9. FramesInv'
  BY <1>1, <1>4, <1>5, <1>7, <1>8, PutFrames
<1>10. TableInv'
  BY <1>1, <1>2, <1>4, <1>6 DEF TableInv, Unsettled, Registering, Switching
<1> QED BY <1>6, <1>9, <1>10 DEF IrqInv

LEMMA LookInv ==
    ASSUME IrqInv, Look
    PROVE  IrqInv'
<1> DEFINE f == [Top EXCEPT !.pc = "lost"]
<1>1. /\ IrqTypeOK /\ FramesInv /\ TableInv /\ Top \in FrameType /\ Shape(Len(frames), Top)
      /\ Top.pc = "look"
      /\ UNCHANGED <<handler, context, alt_irq_active, alt_priority_mask, ienable, switched, pie>>
  BY Running DEF Look, At, table
<1>2. CASE Pending # {}
  BY <1>1, <1>2, DispatchInv DEF Look
<1>3. CASE Pending = {}
  <2>1. Put(f)
    BY <1>3 DEF Look, Go
  <2>2. /\ f \in FrameType /\ f.pc = "lost"
        /\ f.irq = Top.irq /\ f.nests = Top.nests /\ f.registers = Top.registers
    BY <1>1 DEF FrameType, Places, Dispatching, Registering, Switching
  <2> HIDE DEF f
  <2>3. IrqTypeOK' /\ Top' = f
    BY <1>1, <2>1, <2>2, PutFacts DEF IrqTypeOK
  <2>4. Shape(Len(frames), f) /\ ~pie
    BY <1>1, <2>2 DEF Shape, FramesInv, Interruptible, Dispatching, Registering, Switching
  <2>5. FramesInv'
    BY <1>1, <2>1, <2>2, <2>4, PutFrames
  <2>6. TableInv'
    BY <1>1, <2>2, <2>3 DEF TableInv, Unsettled, Registering, Switching
  <2> QED BY <2>3, <2>5, <2>6 DEF IrqInv
<1> QED BY <1>2, <1>3

LEMMA LookAgainInv ==
    ASSUME IrqInv, LookAgain
    PROVE  IrqInv'
<1> DEFINE n == Len(frames)
<1>1. /\ IrqTypeOK /\ FramesInv /\ TableInv /\ Shape(n, Top) /\ n \in Nat /\ n >= 1
      /\ Top.pc = "again"
      /\ UNCHANGED <<handler, context, alt_irq_active, alt_priority_mask, ienable, switched>>
  BY Running DEF LookAgain, At, table
<1>2. CASE Pending # {}
  BY <1>1, <1>2, DispatchInv DEF LookAgain
<1>3. CASE Pending = {}
  <2>1. n >= 2
    <3>1. n # 1
      BY <1>1 DEF Shape, Dispatching
    <3> HIDE DEF n
    <3> QED BY <1>1, <3>1
  <2>2. frames' = Front(frames) /\ pie' = TRUE
    BY <1>3 DEF LookAgain
  <2>3. /\ frames' \in Seq(FrameType) /\ Len(frames') = n - 1 /\ n - 1 >= 1
        /\ \A k \in 1..(n - 1) : frames'[k] = frames[k]
    <3>1. frames \in Seq(FrameType) /\ frames # <<>>
      BY <1>1 DEF IrqTypeOK
    <3>2. frames' = SubSeq(frames, 1, n - 1)
      BY <2>2 DEF Front
    <3> QED BY <1>1, <2>1, <3>1, <3>2, SubSeqProperties
  <2>4. IrqTypeOK' /\ Top' = frames[n - 1]
    BY <1>1, <2>2, <2>3 DEF IrqTypeOK, Top
  <2>5. Interruptible(n - 1, frames[n - 1])
    BY <1>1, <2>3 DEF FramesInv
  <2>6. FramesInv'
    <3>1. ASSUME NEW k \in 1..(n - 1) PROVE Shape(k, frames[k])'
      BY <1>1, <2>3 DEF Shape, FramesInv
    <3>2. ASSUME NEW k \in 1..(n - 2) PROVE Interruptible(k, frames'[k])
      BY <1>1, <2>3 DEF FramesInv
    <3> QED BY <2>3, <2>4, <2>5, <3>1, <3>2 DEF FramesInv, Interruptible
  <2>7. TableInv'
    BY <1>1, <2>4, <2>5 DEF TableInv, Unsettled, Interruptible, Registering, Switching
  <2> QED BY <2>4, <2>6, <2>7 DEF IrqInv
<1> QED BY <1>2, <1>3

LEMMA StillIrq ==
    ASSUME IrqInv, UNCHANGED <<table, alt_irq_active, alt_priority_mask, ienable, pie, frames, switched>>
    PROVE  IrqInv'
<1>1. UNCHANGED <<handler, context, alt_irq_active, alt_priority_mask, ienable, pie, frames, switched>>
  BY DEF table
<1>2. IrqTypeOK'
  BY <1>1 DEF IrqInv, IrqTypeOK
<1>3. FramesInv'
  BY <1>1 DEF IrqInv, FramesInv, Top, Shape, Interruptible
<1>4. TableInv'
  BY <1>1 DEF IrqInv, TableInv, Top, Unsettled
<1> QED BY <1>2, <1>3, <1>4 DEF IrqInv

LEMMA InitIrq == Init => IrqInv
<1> SUFFICES ASSUME Init PROVE IrqInv
  OBVIOUS
<1>1. /\ frames = <<Frame>> /\ alt_irq_active = {} /\ ienable = {} /\ switched = {} /\ pie
      /\ handler = [i \in Irq |-> NULL] /\ context = handler /\ alt_priority_mask = Irq
      /\ pie \in BOOLEAN
  BY DEF Init
<1>2. Frame \in FrameType /\ Program \notin Irq
  BY InterruptsAssumption DEF Frame, FrameType, Places, Irq, Program
<1>3. /\ Frame.irq = Program /\ Frame.pc = "run" /\ ~Frame.nests /\ ~Frame.registers
  BY DEF Frame
<1>4. frames \in Seq(FrameType) /\ Len(frames) = 1 /\ frames[1] = Frame /\ Top = Frame
  BY <1>1, <1>2 DEF Top
<1>5. IrqTypeOK
  BY <1>1, <1>4 DEF IrqTypeOK
<1>6. FramesInv
  BY <1>1, <1>3, <1>4 DEF FramesInv, Shape, Interruptible, Dispatching, Registering, Switching
<1>7. TableInv
  BY <1>1, <1>3, <1>4 DEF TableInv, Unsettled, Registering, Switching
<1> QED BY <1>5, <1>6, <1>7 DEF IrqInv

LEMMA NextIrq == IrqInv /\ [Next]_vars => IrqInv'
<1> SUFFICES ASSUME IrqInv, [Next]_vars PROVE IrqInv'
  OBVIOUS
<1>1. ASSUME NEW i \in Irq, Raise(i) \/ Withdraw(i) PROVE IrqInv'
  BY <1>1, StillIrq DEF Raise, Withdraw
<1>2. ASSUME NEW i \in Irq,
             \/ \E new \in Handlers \cup {NULL} : Register(i, new)
             \/ \E on \in BOOLEAN : Switch(i, on)
      PROVE  IrqInv'
  BY <1>2, RegisterInv, SwitchInv
<1>3. CASE Take \/ Look \/ LookAgain
  BY <1>3, TakeInv, LookInv, LookAgainInv
<1>4. CASE Serve \/ alt_irq_interruptible \/ alt_irq_non_interruptible \/ IsrReturn
  BY <1>4, ServeInv, InterruptibleInv, NonInterruptibleInv, IsrReturnInv
<1>5. CASE InCall
  BY <1>5, SetHandlerInv, SetContextInv, DisableInv, LoadInv, StoreInv, WriteIenableInv,
     EnableInv, RegisterEndsInv DEF InCall
<1>6. CASE UNCHANGED vars
  BY <1>6, StillIrq DEF vars
<1> QED BY <1>1, <1>2, <1>3, <1>4, <1>5, <1>6 DEF Next

-----------------------------------------------------------------------------
(* The shape of the frames and of the table, whatever nested routines do.  *)
THEOREM InterruptsInvariant == Spec => []IrqInv
  BY InitIrq, NextIrq, PTL DEF Spec

(* alt_ic_isr_register, alt_irq_enable and alt_irq_disable are atomic: no  *)
(* interrupt is dispatched without its routine and context, and no enable  *)
(* or disable is lost, also when nested routines make those calls.         *)
THEOREM InterruptsUpdatesAtomic == Spec => []UpdatesAtomic
<1>1. IrqInv => UpdatesAtomic
  <2> SUFFICES ASSUME IrqInv PROVE UpdatesAtomic
    OBVIOUS
  <2>1. ASSUME pie \/ At("look") \/ At("again"), NEW i \in ienable
        PROVE  handler[i] # NULL /\ context[i] = handler[i]
    <3>1. IrqTypeOK /\ FramesInv /\ TableInv
      BY DEF IrqInv
    <3>2. ~Unsettled(i)
      BY <2>1, <3>1 DEF FramesInv, Interruptible, Unsettled, At
    <3> QED BY <3>1, <3>2 DEF TableInv, IrqTypeOK
  <2> QED BY <2>1 DEF UpdatesAtomic, ReadyToDispatch, NoLostSwitch, IrqInv, TableInv
<1> QED BY InterruptsInvariant, <1>1, PTL

(* Priorities.  No frame under the running one is at a switch, and each of *)
(* them but the program's is a routine's.                                  *)
LEMMA UnderFacts ==
    ASSUME IrqInv, PriorityInv, NEW k \in 2..(Len(frames) - 1)
    PROVE  /\ frames[k] \in FrameType /\ frames[k].nests /\ frames[k].pc \notin Switching
           /\ frames[k].irq \in Irq
<1>1. /\ IrqTypeOK /\ FramesInv /\ Len(frames) \in Nat
      /\ k \in 1..Len(frames) /\ k \in 2..Len(frames) /\ k \in 1..(Len(frames) - 1) /\ k # 1
  BY Running
<1>2. frames[k] \in FrameType
  BY <1>1, TopFacts
<1>3. Shape(k, frames[k]) /\ Interruptible(k, frames[k])
  BY <1>1 DEF FramesInv
<1>4. frames[k].nests /\ frames[k].pc \notin Switching
  BY <1>1, <1>3 DEF Interruptible, PriorityInv
<1>5. frames[k].irq # Program
  BY <1>1, <1>3 DEF Interruptible, Shape, Dispatching
<1> QED BY <1>2, <1>4, <1>5 DEF FrameType, Places

LEMMA PutPriority ==
    ASSUME IrqInv, PriorityInv, NEW f \in FrameType, Put(f),
           alt_priority_mask' = IF f.nests THEN 0..(f.irq - 1) ELSE Beneath(Len(frames)),
           f.nests => f.old = Beneath(Len(frames)),
           f.pc \in Switching /\ Len(frames) # 1 => ~f.nests /\ alt_priority_mask' = Irq,
           ienable' \subseteq alt_priority_mask',
           f.irq # Program => \A k \in 2..(Len(frames) - 1) : f.irq < frames[k].irq
    PROVE  PriorityInv'
<1> DEFINE n == Len(frames)
<1>1. /\ Len(frames') = n /\ Top' = f /\ frames'[n] = f
      /\ \A k \in 1..(n - 1) : frames'[k] = frames[k]
      /\ n \in Nat /\ n >= 1
  BY PutFacts, Running
<1>2. ASSUME NEW k \in 1..n PROVE Beneath(k)' = Beneath(k)
  <2>1. k >= 3 => k - 1 \in 1..(n - 1)
    BY <1>1
  <2> QED BY <1>1, <2>1 DEF Beneath
<1>3. alt_priority_mask' = IF Top'.nests THEN 0..(Top'.irq - 1) ELSE Beneath(Len(frames))'
  BY <1>1, <1>2 DEF Beneath
<1>4. ASSUME NEW k \in 1..n, frames'[k].nests PROVE frames'[k].old = Beneath(k)'
  BY <1>1, <1>2, <1>4 DEF PriorityInv
<1>5. ASSUME NEW k \in 2..n, frames'[k].pc \in Switching
      PROVE  ~frames'[k].nests /\ alt_priority_mask' = Irq
  BY <1>1, <1>5, UnderFacts
<1>6. OnlyHigherNests'
  <2> SUFFICES ASSUME NEW k \in 2..n, NEW j \in (k + 1)..n, frames'[j].irq # Program
               PROVE  frames'[j].irq < frames'[k].irq
    BY <1>1 DEF OnlyHigherNests
  <2>1. k \in 2..(n - 1) /\ frames'[k] = frames[k]
    BY <1>1
  <2>2. CASE j = n
    BY <1>1, <2>1, <2>2
  <2>3. CASE j # n
    <3>1. /\ k \in 2..Len(frames) /\ j \in (k + 1)..Len(frames) /\ frames'[j] = frames[j]
      BY <1>1, <2>1, <2>3
    <3> QED BY <2>1, <3>1 DEF PriorityInv, OnlyHigherNests
  <2> QED BY <2>2, <2>3
<1> QED BY <1>1, <1>3, <1>4, <1>5, <1>6 DEF PriorityInv

(* A step that leaves the running frame its irq and lets no one in.        *)
LEMMA KeepPriority ==
    ASSUME IrqInv, PriorityInv, NEW f \in FrameType, Put(f),
           f.irq = Top.irq \/ (f.irq = Program /\ ~f.nests), f.nests <=> Top.nests, f.old = Top.old \/ ~f.nests,
           f.pc \in Switching /\ Len(frames) # 1 => ~f.nests /\ alt_priority_mask = Irq,
           alt_priority_mask' = alt_priority_mask, ienable' \subseteq alt_priority_mask
    PROVE  PriorityInv'
<1> DEFINE n == Len(frames)
<1>1. n \in Nat /\ n >= 1 /\ n \in 1..n
  BY Running
<1>2. /\ alt_priority_mask = IF Top.nests THEN 0..(Top.irq - 1) ELSE Beneath(n)
      /\ Top.nests => Top.old = Beneath(n)
      /\ \A k \in 2..(n - 1) : Top.irq # Program => Top.irq < frames[k].irq
  BY <1>1 DEF PriorityInv, OnlyHigherNests, Top
<1> QED BY <1>1, <1>2, PutPriority


LEMMA SamePriority ==
    ASSUME PriorityInv, UNCHANGED <<alt_priority_mask, ienable, frames>>
    PROVE  PriorityInv'
  BY DEF PriorityInv, Top, Beneath, OnlyHigherNests

LEMMA CallPriority ==
    ASSUME IrqInv, PriorityInv, InCall
    PROVE  PriorityInv'
<1>1. /\ Top \in FrameType /\ Frame \in FrameType /\ Len(frames) \in 1..Len(frames)
      /\ alt_irq_active \subseteq Irq /\ ienable \subseteq alt_priority_mask
      /\ alt_priority_mask \subseteq Irq
      /\ Top.pc \in Switching /\ Len(frames) # 1 => ~Top.nests /\ alt_priority_mask = Irq
      /\ Top.pc \in Registering => Len(frames) = 1
  <2>1. /\ Top \in FrameType /\ Frame \in FrameType /\ Len(frames) \in Nat /\ Len(frames) >= 1
        /\ IrqTypeOK
    BY Running
  <2>2. Top.pc \in Registering => Len(frames) = 1
    BY Running DEF Shape
  <2>3. Len(frames) # 1 => Len(frames) \in 2..Len(frames)
    <3>1. \A n \in Nat : n >= 1 /\ n # 1 => n \in 2..n
      OBVIOUS
    <3> QED BY <2>1, <3>1
  <2>4. Top.pc \in Switching /\ Len(frames) # 1 => ~Top.nests /\ alt_priority_mask = Irq
    BY <2>3 DEF PriorityInv, Top
  <2> QED BY <2>1, <2>2, <2>4 DEF IrqTypeOK, PriorityInv
<1>2. Len(frames) = 1 => ~Top.nests /\ alt_priority_mask = Irq
  BY Running DEF PriorityInv, Beneath, Shape
<1>3. alt_priority_mask' = alt_priority_mask
  BY DEF InCall, SetHandler, SetContext, Disable, Load, Store, WriteIenable, Enable, RegisterEnds
<1>4. ienable' \subseteq alt_priority_mask
  <2>1. CASE WriteIenable
    BY <1>1, <1>2, <2>1 DEF WriteIenable, At, Switching
  <2>2. CASE ~WriteIenable
    BY <1>1, <2>2 DEF InCall, SetHandler, SetContext, Disable, Load, Store, Enable, RegisterEnds
  <2> QED BY <2>1, <2>2
<1>5. ASSUME NEW pc \in {"context", "disable", "store", "ienable", "enable", "registered"}, Go(pc),
             Top.pc \in Switching \cup Registering
      PROVE  PriorityInv'
  <2> DEFINE f == [Top EXCEPT !.pc = pc]
  <2>1. /\ f \in FrameType /\ f.irq = Top.irq /\ f.nests = Top.nests /\ f.old = Top.old /\ Put(f)
    BY <1>1, <1>5 DEF FrameType, Places, Switching, Registering, Go
  <2> HIDE DEF f
  <2> QED BY <1>1, <1>3, <1>4, <1>5, <2>1, KeepPriority
<1>6. CASE Disable \/ Load
  <2>1. PICK f \in FrameType :
            f.irq = Top.irq /\ f.nests = Top.nests /\ f.old = Top.old /\ Put(f) /\ Top.pc \in Switching
    <3>1. CASE Disable
      <4> DEFINE f == [Top EXCEPT !.pc = "load", !.inner = pie]
      <4>1. f \in FrameType /\ f.irq = Top.irq /\ f.nests = Top.nests /\ f.old = Top.old
        BY <1>1, Running DEF FrameType, Places, Switching, IrqTypeOK
      <4>2. Put(f) /\ Top.pc \in Switching
        BY <3>1 DEF Disable, At, Switching
      <4> HIDE DEF f
      <4> QED BY <4>1, <4>2
    <3>2. CASE Load
      <4> DEFINE f == [Top EXCEPT !.pc = "store", !.loaded = alt_irq_active]
      <4>1. f \in FrameType /\ f.irq = Top.irq /\ f.nests = Top.nests /\ f.old = Top.old
        BY <1>1 DEF FrameType, Places, Switching
      <4>2. Put(f) /\ Top.pc \in Switching
        BY <3>2 DEF Load, At, Switching
      <4> HIDE DEF f
      <4> QED BY <4>1, <4>2
    <3> QED BY <1>6, <3>1, <3>2
  <2> QED BY <1>1, <1>3, <1>4, <2>1, KeepPriority
<1>7. CASE Put(Resumed) /\ Top.pc \in Switching \cup Registering
  <2> DEFINE f == Resumed
  <2>1. /\ f \in FrameType /\ f.irq = Top.irq /\ f.nests = Top.nests /\ f.old = Top.old
        /\ f.pc = "run"
    BY <1>1, ZenonT(60) DEF Resumed, Frame, FrameType, Places
  <2>2. Put(f) /\ f.pc \notin Switching
    BY <1>7, <2>1 DEF Switching
  <2> HIDE DEF f
  <2> QED BY <1>1, <1>3, <1>4, <2>1, <2>2, KeepPriority
<1>8. CASE SetHandler \/ SetContext \/ Store \/ WriteIenable
  BY <1>5, <1>8 DEF SetHandler, SetContext, Store, WriteIenable, At, Switching, Registering
<1>9. CASE Enable \/ RegisterEnds
  BY <1>5, <1>7, <1>9 DEF Enable, RegisterEnds, At, Switching, Registering
<1> QED BY <1>6, <1>8, <1>9 DEF InCall

LEMMA IsrPriority ==
    ASSUME IrqInv, PriorityInv, ~CallsNested,
           \/ Serve \/ alt_irq_interruptible \/ alt_irq_non_interruptible \/ IsrReturn
           \/ \E i \in Irq, on \in BOOLEAN : Switch(i, on)
           \/ \E i \in Irq, new \in Handlers \cup {NULL} : Register(i, new)
    PROVE  PriorityInv'
<1> DEFINE n == Len(frames)
<1>1. /\ Top \in FrameType /\ Frame \in FrameType /\ n \in 1..n /\ n \in Nat
      /\ Shape(n, Top) /\ pie \in BOOLEAN /\ Irq \subseteq Nat /\ Program \notin Irq
      /\ alt_irq_active \subseteq Irq /\ ienable \subseteq alt_priority_mask
      /\ alt_priority_mask \subseteq Irq
  BY Running DEF IrqTypeOK, PriorityInv, Irq
<1>2. /\ alt_priority_mask = IF Top.nests THEN 0..(Top.irq - 1) ELSE Beneath(n)
      /\ Top.nests => Top.old = Beneath(n)
      /\ \A k \in 2..(n - 1) : Top.irq # Program => Top.irq < frames[k].irq
  BY <1>1 DEF PriorityInv, OnlyHigherNests, Top
<1>3. CASE Serve
  <2> DEFINE f == [Top EXCEPT !.served = TRUE]
  <2>1. /\ f \in FrameType /\ f.irq = Top.irq /\ f.nests = Top.nests /\ f.old = Top.old
        /\ f.pc \notin Switching /\ Put(f) /\ alt_priority_mask' = alt_priority_mask /\ ienable' = ienable
    BY <1>1, <1>3 DEF Serve, InIsr, At, FrameType, Places, Switching
  <2> HIDE DEF f
  <2> QED BY <1>1, <2>1, KeepPriority
<1>4. CASE IsrReturn
  <2> DEFINE f == [Frame EXCEPT !.pc = "again"]
  <2>1. /\ f \in FrameType /\ f.irq = Program /\ ~f.nests /\ ~Top.nests
        /\ f.pc \notin Switching /\ Put(f) /\ alt_priority_mask' = alt_priority_mask /\ ienable' = ienable
    BY <1>1, <1>4 DEF IsrReturn, InIsr, At, Frame, FrameType, Places, Dispatching, Switching
  <2>2. f.nests = Top.nests
    BY <1>1, <2>1 DEF FrameType, Places
  <2> HIDE DEF f
  <2> QED BY <1>1, <2>1, <2>2, KeepPriority
<1>5. CASE alt_irq_interruptible
  <2> DEFINE f == [Top EXCEPT !.old = alt_priority_mask, !.nests = TRUE]
  <2>1. /\ f \in FrameType /\ f.irq = Top.irq /\ f.nests /\ f.old = alt_priority_mask
        /\ f.pc \notin Switching /\ Put(f) /\ ~Top.nests
        /\ alt_priority_mask' = 0..(f.irq - 1) /\ ienable' \subseteq alt_priority_mask'
    BY <1>1, <1>5 DEF alt_irq_interruptible, InIsr, At, FrameType, Places, Switching
  <2> HIDE DEF f
  <2> QED BY <1>2, <2>1, PutPriority
<1>6. CASE alt_irq_non_interruptible
  <2> DEFINE f == [Top EXCEPT !.nests = FALSE]
  <2>1. /\ f \in FrameType /\ f.irq = Top.irq /\ ~f.nests /\ Top.nests
        /\ f.pc \notin Switching /\ Put(f)
        /\ alt_priority_mask' = Top.old /\ ienable' \subseteq alt_priority_mask'
    BY <1>1, <1>6 DEF alt_irq_non_interruptible, InIsr, At, FrameType, Places, Switching
  <2> HIDE DEF f
  <2> QED BY <1>2, <2>1, PutPriority
<1>7. ASSUME NEW i \in Irq, NEW on \in BOOLEAN, Switch(i, on) PROVE PriorityInv'
  <2> DEFINE f == [Top EXCEPT !.pc = "disable", !.id = i, !.on = on, !.registers = FALSE]
  <2>1. f \in FrameType /\ f.irq = Top.irq /\ f.nests = Top.nests /\ f.old = Top.old
    BY <1>1, <1>7, ZenonT(60) DEF FrameType, Places, Switching
  <2>3. Put(f) /\ alt_priority_mask' = alt_priority_mask /\ ienable' = ienable
    BY <1>7 DEF Switch
  <2>2. n # 1 => ~Top.nests /\ alt_priority_mask = Irq
    <3>1. n # 1 => Top.irq # Program
      BY <1>1, <1>7 DEF Shape, Switch, At, Dispatching
    <3>2. n # 1 => Top.irq = i /\ alt_priority_mask = Irq
      BY <1>7, <3>1 DEF Switch
    <3>3. i \notin 0..(i - 1)
      BY <1>1
    <3> QED BY <1>2, <3>2, <3>3
  <2> HIDE DEF f
  <2> QED BY <1>1, <2>1, <2>2, <2>3, KeepPriority
<1>8. ASSUME NEW i \in Irq, NEW new \in Handlers \cup {NULL}, Register(i, new) PROVE PriorityInv'
  <2> DEFINE f == [Top EXCEPT !.pc = "handler", !.id = i, !.new = new, !.status = pie,
                              !.on = (new # NULL), !.registers = TRUE]
  <2>1. /\ f \in FrameType /\ f.irq = Top.irq /\ f.nests = Top.nests /\ f.old = Top.old
        /\ f.pc = "handler"
    <3>1. Top \in FrameType /\ pie \in BOOLEAN
      BY <1>1
    <3> QED BY <3>1, ZenonT(60) DEF FrameType, Places, Registering
  <2>2. Put(f) /\ alt_priority_mask' = alt_priority_mask /\ ienable' = ienable
    BY <1>8 DEF Register
  <2>3. f.pc \notin Switching
    BY <2>1 DEF Switching
  <2> HIDE DEF f
  <2> QED BY <1>1, <2>1, <2>2, <2>3, KeepPriority
<1> QED BY <1>3, <1>4, <1>5, <1>6, <1>7, <1>8

LEMMA TakePriority ==
    ASSUME IrqInv, PriorityInv, Take
    PROVE  PriorityInv'
<1> DEFINE f == [Frame EXCEPT !.pc = "look"]
           n == Len(frames)
<1>1. /\ Frame \in FrameType /\ Top \in FrameType /\ n \in Nat /\ n >= 1 /\ pie /\ frames \in Seq(FrameType)
      /\ UNCHANGED <<alt_priority_mask, ienable>> /\ Interruptible(n, Top) /\ Shape(n, Top)
  BY Running DEF Take, IrqTypeOK, FramesInv
<1>2. f \in FrameType /\ f.irq = Program /\ ~f.nests /\ f.pc \notin Switching
  BY <1>1 DEF Frame, FrameType, Places, Dispatching, Switching
<1>3. frames' = Append(frames, f)
  BY DEF Take
<1> HIDE DEF f
<1>4. /\ Len(frames') = n + 1 /\ frames'[n + 1] = f
      /\ \A k \in 1..n : frames'[k] = frames[k]
  BY <1>1, <1>2, <1>3, AppendProperties
<1>5. Top' = f /\ \A k \in 1..n : Beneath(k)' = Beneath(k)
  BY <1>1, <1>4 DEF Top, Beneath
<1>6. alt_priority_mask = Beneath(Len(frames))'
  <2>1. CASE n = 1
    <3>1. ~Top.nests /\ Beneath(n) = Irq /\ Beneath(Len(frames))' = Irq
      BY <1>1, <1>4, <2>1 DEF Beneath, Shape
    <3> QED BY <3>1 DEF PriorityInv
  <2>2. CASE n # 1
    <3>1. Top.nests
      BY <1>1, <2>2 DEF Interruptible
    <3>2. n + 1 >= 3 /\ frames'[n + 1 - 1] = Top
      <4>1. n >= 2
        <5> HIDE DEF n
        <5> QED BY <1>1, <2>2
      <4> QED BY <1>1, <1>4, <4>1 DEF Top
    <3>3. Beneath(Len(frames))' = 0..(Top.irq - 1)
      BY <1>4, <3>2 DEF Beneath
    <3> QED BY <3>1, <3>3 DEF PriorityInv
  <2> QED BY <2>1, <2>2
<1>7. ASSUME NEW k \in 1..(n + 1), frames'[k].nests PROVE frames'[k].old = Beneath(k)'
  BY <1>1, <1>2, <1>4, <1>5, <1>7 DEF PriorityInv
<1>8. ASSUME NEW k \in 2..(n + 1), frames'[k].pc \in Switching
      PROVE  ~frames'[k].nests /\ alt_priority_mask' = Irq
  BY <1>1, <1>2, <1>4, <1>8 DEF PriorityInv
<1>9. OnlyHigherNests'
  <2> SUFFICES ASSUME NEW k \in 2..(n + 1), NEW j \in (k + 1)..(n + 1), frames'[j].irq # Program
               PROVE  frames'[j].irq < frames'[k].irq
    BY <1>4 DEF OnlyHigherNests
  <2>1. j # n + 1
    BY <1>2, <1>4
  <2>2. k \in 2..n /\ j \in (k + 1)..n /\ frames'[k] = frames[k] /\ frames'[j] = frames[j]
    BY <1>1, <1>4, <2>1
  <2> QED BY <2>2 DEF PriorityInv, OnlyHigherNests
<1>10. alt_priority_mask' = IF Top'.nests THEN 0..(Top'.irq - 1) ELSE Beneath(Len(frames))'
  BY <1>1, <1>2, <1>5, <1>6
<1>11. ienable' \subseteq alt_priority_mask'
  BY <1>1 DEF PriorityInv
<1> QED BY <1>4, <1>7, <1>8, <1>9, <1>10, <1>11 DEF PriorityInv


(* The loop finds a request: what is let in is less than the routine under *)
(* it, which is less than all the others.                                  *)
LEMMA DispatchPriority ==
    ASSUME IrqInv, PriorityInv, Top.pc \in {"look", "again"}, Pending # {}, Dispatch,
           alt_priority_mask' = alt_priority_mask, ienable' = ienable
    PROVE  PriorityInv'
<1> DEFINE f == [Frame EXCEPT !.irq = First]
           n == Len(frames)
<1>1. /\ Frame \in FrameType /\ n \in Nat /\ n >= 1 /\ ~Top.nests /\ Irq \subseteq Nat
      /\ First \in Irq /\ First \in ienable
  BY Running, FirstPending DEF Unsettled, Shape, Dispatching, Irq
<1>2. f \in FrameType /\ f.irq = First /\ ~f.nests /\ f.pc \notin Switching /\ Put(f)
  BY <1>1 DEF Frame, FrameType, Places, Switching, Dispatch
<1> HIDE DEF f
<1>3. alt_priority_mask = Beneath(n) /\ First \in Beneath(n)
  BY <1>1 DEF PriorityInv
<1>4. ASSUME NEW k \in 2..(n - 1) PROVE First < frames[k].irq
  <2>1. n - 1 \in 2..(n - 1) /\ n >= 3
    BY <1>1
  <2>2. frames[n - 1].irq \in Irq /\ frames[n - 1].irq # Program /\ frames[k].irq \in Irq
    BY <2>1, UnderFacts, Running
  <2>3. First < frames[n - 1].irq
    <3>1. First \in 0..(frames[n - 1].irq - 1)
      BY <1>3, <2>1 DEF Beneath
    <3>2. frames[n - 1].irq \in Nat /\ First \in Nat
      BY <1>1, <2>2
    <3>3. \A m \in Nat : \A x \in 0..(m - 1) : x < m
      OBVIOUS
    <3> QED BY <3>1, <3>2, <3>3
  <2>4. CASE k = n - 1
    BY <2>3, <2>4
  <2>5. CASE k # n - 1
    <3>1. k \in 2..Len(frames) /\ n - 1 \in (k + 1)..Len(frames)
      BY <1>1, <2>5
    <3>2. frames[n - 1].irq < frames[k].irq
      BY <2>2, <3>1 DEF PriorityInv, OnlyHigherNests
    <3>3. frames[n - 1].irq \in Nat /\ frames[k].irq \in Nat /\ First \in Nat
      BY <1>1, <2>2
    <3>4. \A x, y, z \in Nat : x < y /\ y < z => x < z
      OBVIOUS
    <3> QED BY <2>3, <3>2, <3>3, <3>4
  <2> QED BY <2>4, <2>5
<1> QED BY <1>2, <1>3, <1>4, PutPriority DEF PriorityInv

LEMMA LookPriority ==
    ASSUME IrqInv, PriorityInv, Look \/ LookAgain
    PROVE  PriorityInv'
<1> DEFINE n == Len(frames)
<1>1. /\ Top \in FrameType /\ n \in Nat /\ n >= 1 /\ frames \in Seq(FrameType) /\ Shape(n, Top)
      /\ alt_priority_mask' = alt_priority_mask /\ ienable' = ienable
      /\ ienable \subseteq alt_priority_mask /\ Top.pc \in {"look", "again"}
  BY Running DEF Look, LookAgain, At, PriorityInv, IrqTypeOK
<1>2. n # 1 /\ ~Top.nests /\ alt_priority_mask = Beneath(n)
  BY <1>1 DEF PriorityInv, Shape, Dispatching
<1>3. CASE Pending # {}
  BY <1>1, <1>3, DispatchPriority DEF Look, LookAgain
<1>4. CASE Pending = {} /\ Look
  <2> DEFINE f == [Top EXCEPT !.pc = "lost"]
  <2>1. /\ f \in FrameType /\ f.irq = Top.irq /\ f.nests = Top.nests /\ f.old = Top.old
        /\ f.pc \notin Switching
    BY <1>1 DEF FrameType, Places, Dispatching, Switching
  <2>2. Put(f)
    BY <1>4 DEF Look, Go
  <2> HIDE DEF f
  <2> QED BY <1>1, <2>1, <2>2, KeepPriority
<1>5. CASE Pending = {} /\ LookAgain
  <2>1. n >= 2 /\ n - 1 \in 1..n /\ n - 1 \in 1..(n - 1)
    <3> HIDE DEF n
    <3> QED BY <1>1, <1>2
  <2>2. /\ frames' \in Seq(FrameType) /\ Len(frames') = n - 1 /\ n - 1 >= 1
        /\ \A k \in 1..(n - 1) : frames'[k] = frames[k]
    <3>1. frames' = SubSeq(frames, 1, n - 1)
      BY <1>5 DEF LookAgain, Front
    <3> QED BY <1>1, <2>1, <3>1, SubSeqProperties
  <2>3. Top' = frames[n - 1] /\ \A k \in 1..(n - 1) : Beneath(k)' = Beneath(k)
    BY <1>1, <2>1, <2>2 DEF Top, Beneath
  <2>4. Interruptible(n - 1, frames[n - 1]) /\ Shape(n - 1, frames[n - 1])
    BY <1>1, <2>1, Running DEF FramesInv
  <2>5. alt_priority_mask' = IF Top'.nests THEN 0..(Top'.irq - 1) ELSE Beneath(Len(frames))'
    <3>1. CASE n = 2
      <4>1. ~Top'.nests /\ Beneath(n) = Irq /\ Beneath(Len(frames))' = Irq
        BY <2>2, <2>3, <2>4, <3>1 DEF Shape, Beneath
      <4> QED BY <1>1, <1>2, <4>1
    <3>2. CASE n # 2
      <4>1. Top'.nests /\ Beneath(n) = 0..(Top'.irq - 1)
        <5>1. n >= 3 /\ n - 1 # 1
          <6> HIDE DEF n
          <6> QED BY <1>1, <2>1, <3>2
        <5> QED BY <2>3, <2>4, <5>1 DEF Interruptible, Beneath
      <4> QED BY <1>1, <1>2, <4>1
    <3> QED BY <3>1, <3>2
  <2>6. ASSUME NEW k \in 1..(n - 1), frames'[k].nests PROVE frames'[k].old = Beneath(k)'
    BY <1>1, <2>2, <2>3, <2>6 DEF PriorityInv
  <2>7. ASSUME NEW k \in 2..(n - 1), frames'[k].pc \in Switching
        PROVE  ~frames'[k].nests /\ alt_priority_mask' = Irq
    BY <1>1, <2>2, <2>7 DEF PriorityInv
  <2>8. OnlyHigherNests'
    <3> SUFFICES ASSUME NEW k \in 2..(n - 1), NEW j \in (k + 1)..(n - 1), frames'[j].irq # Program
                 PROVE  frames'[j].irq < frames'[k].irq
      BY <2>2 DEF OnlyHigherNests
    <3>1. k \in 2..n /\ j \in (k + 1)..n /\ frames'[k] = frames[k] /\ frames'[j] = frames[j]
      BY <1>1, <2>2
    <3> QED BY <3>1 DEF PriorityInv, OnlyHigherNests
  <2> QED BY <1>1, <2>2, <2>5, <2>6, <2>7, <2>8 DEF PriorityInv
<1> QED BY <1>3, <1>4, <1>5 DEF Look

LEMMA InitPriority == Init => PriorityInv
<1> SUFFICES ASSUME Init PROVE PriorityInv
  OBVIOUS
<1>1. /\ frames = <<Frame>> /\ Len(frames) = 1 /\ frames[1] = Frame /\ Top = Frame
      /\ ~Frame.nests /\ ienable = {} /\ alt_priority_mask = Irq
  BY DEF Init, Top, Frame
<1> QED BY <1>1 DEF PriorityInv, Beneath, OnlyHigherNests

LEMMA NextPriority ==
    ASSUME ~CallsNested, IrqInv, PriorityInv, [Next]_vars
    PROVE  PriorityInv'
<1>1. ASSUME NEW i \in Irq, Raise(i) \/ Withdraw(i) PROVE PriorityInv'
  BY <1>1, SamePriority DEF Raise, Withdraw
<1>2. CASE Take \/ Look \/ LookAgain
  BY <1>2, TakePriority, LookPriority
<1>3. CASE \/ Serve \/ alt_irq_interruptible \/ alt_irq_non_interruptible \/ IsrReturn
           \/ \E i \in Irq : \/ \E new \in Handlers \cup {NULL} : Register(i, new)
                             \/ \E on \in BOOLEAN : Switch(i, on)
  BY <1>3, IsrPriority
<1>4. CASE InCall
  BY <1>4, CallPriority
<1>5. CASE UNCHANGED vars
  BY <1>5, SamePriority DEF vars
<1> QED BY <1>1, <1>2, <1>3, <1>4, <1>5 DEF Next

(* alt_irq_interruptible lets in only what has priority over the routine   *)
(* that calls it, as long as none that has let others in, nor one of       *)
(* those, switches interrupts: alt_irq_enable then writes the enable       *)
(* register without the mask.                                              *)
THEOREM InterruptsOnlyHigherNests ==
    ASSUME ~CallsNested
    PROVE  Spec => []OnlyHigherNests
<1>1. Init => IrqInv /\ PriorityInv
  BY InitIrq, InitPriority
<1>2. IrqInv /\ PriorityInv /\ [Next]_vars => (IrqInv /\ PriorityInv)'
  BY NextIrq, NextPriority
<1>3. PriorityInv => OnlyHigherNests
  BY DEF PriorityInv
<1> QED BY <1>1, <1>2, <1>3, PTL DEF Spec


-----------------------------------------------------------------------------
(* Alarms.  The ring is the registered alarms with the head of the list:   *)
(* closed under both pointers, which undo each other, and all of it is     *)
(* reached from the head.                                                  *)
Ring == {a \in Alarm : Registered(a)} \cup {alt_alarm_list}

AlarmTypeOK ==
    /\ next \in [Node -> Node \cup {Null}] /\ previous \in [Node -> Node \cup {Null}]
    /\ time \in [Alarm -> 0..(Width - 1)] /\ rollover \in [Alarm -> BOOLEAN]
    /\ nticks \in 0..(Width - 1)
    /\ at \in [pc : {"idle", "loop", "callback"}, alarm : Node, next : Node]

RingInv ==
    /\ \A x \in Ring : /\ next[x] \in Ring /\ previous[next[x]] = x
                       /\ previous[x] \in Ring /\ next[previous[x]] = x
    /\ \A a \in Alarm : next[a] = a => previous[a] = a
    /\ \A S \in SUBSET Ring :
          alt_alarm_list \in S /\ (\A x \in S : next[x] \in S) => S = Ring

(* Where alt_tick goes to next, and the alarm whose callback runs, which   *)
(* other callbacks have perhaps stopped.                                   *)
PlaceInv ==
    /\ at.pc = "loop" => at.alarm \in Ring
    /\ InCallback => /\ at.alarm \in Alarm /\ next[at.alarm] # Null
                     /\ at.next \in Ring /\ at.next # at.alarm

WalkInv == AlarmTypeOK /\ RingInv /\ PlaceInv

(* What the turn of an alarm in the loop takes away: an alarm that is due, *)
(* a mark of the wrap that is over.  Only alarms that are ahead have it:   *)
(* they are in every set that holds the next alarm and goes on up to the   *)
(* head.                                                                   *)
Unseen(a) == Registered(a) /\ (left[a] = 0 \/ (rollover[a] /\ nticks = 0))

Onward(S) == \A x \in S \ {alt_alarm_list} : next[x] \in S

Ahead(x, T) == \A S \in SUBSET Ring : x \in S /\ Onward(S) => T \subseteq S

Missed == {a \in Alarm : Unseen(a)}

TimesInv ==
    /\ \A a \in Alarm : Registered(a) => left[a] >= 0
    /\ at.pc = "idle" => Missed = {}
    /\ at.pc = "loop" => Ahead(at.alarm, Missed)
    /\ InCallback => /\ Ahead(at.next, Missed \ {at.alarm})
                     /\ Registered(at.alarm) => left[at.alarm] = 0

(* Insertion and removal in the ring.                                      *)
LEMMA RingNodes ==
    ASSUME AlarmTypeOK
    PROVE  /\ Ring \subseteq Node /\ alt_alarm_list \in Ring /\ alt_alarm_list \in Node
           /\ Null \notin Node /\ Alarm \subseteq Node /\ alt_alarm_list \notin Alarm
           /\ \A a \in Alarm : Registered(a) <=> a \in Ring
           /\ \A x \in Node : x # alt_alarm_list => x \in Alarm
  BY AlarmAssumption DEF Ring, Node

LEMMA InsertRing ==
    ASSUME AlarmTypeOK, RingInv, NEW a \in Alarm, ~Registered(a), alt_llist_insert(alt_alarm_list, a)
    PROVE  /\ next' \in [Node -> Node \cup {Null}] /\ previous' \in [Node -> Node \cup {Null}]
           /\ RingInv' /\ Ring' = Ring \cup {a}
           /\ next'[a] = next[alt_alarm_list] /\ next'[alt_alarm_list] = a
           /\ \A x \in Node \ {a, alt_alarm_list} : next'[x] = next[x]
<1> DEFINE h == alt_alarm_list
           first == next[h]
<1>1. /\ a \notin Ring /\ h \in Ring /\ Ring \subseteq Node /\ a # h /\ a \in Node
      /\ h \notin Alarm /\ Null \notin Node /\ first \in Ring /\ previous[first] = h
      /\ next \in [Node -> Node \cup {Null}] /\ previous \in [Node -> Node \cup {Null}]
      /\ \A x \in Ring : /\ next[x] \in Ring /\ previous[next[x]] = x
                         /\ previous[x] \in Ring /\ next[previous[x]] = x
  BY RingNodes DEF RingInv, AlarmTypeOK
<1>2. /\ next' = [next EXCEPT ![a] = first, ![h] = a]
      /\ previous' = [previous EXCEPT ![a] = h, ![first] = a]
  BY DEF alt_llist_insert
<1> HIDE DEF h, first
<1>3. /\ next'[a] = first /\ next'[h] = a /\ \A x \in Node \ {a, h} : next'[x] = next[x]
      /\ previous'[a] = h /\ previous'[first] = a
      /\ \A x \in Node \ {a, first} : previous'[x] = previous[x]
  BY <1>1, <1>2
<1>4. next' \in [Node -> Node \cup {Null}] /\ previous' \in [Node -> Node \cup {Null}]
  BY <1>1, <1>2
<1>5. Ring' = Ring \cup {a}
  <2>1. \A b \in Alarm : Registered(b)' <=> Registered(b) \/ b = a
    BY <1>1, <1>3 DEF Registered, Node, h
  <2> QED BY <2>1 DEF Ring
<1>6. \A x \in Ring' : /\ next'[x] \in Ring' /\ previous'[next'[x]] = x
                       /\ previous'[x] \in Ring' /\ next'[previous'[x]] = x
  <2> SUFFICES ASSUME NEW x \in Ring \cup {a}
               PROVE  /\ next'[x] \in Ring \cup {a} /\ previous'[next'[x]] = x
                      /\ previous'[x] \in Ring \cup {a} /\ next'[previous'[x]] = x
    BY <1>5
  <2>1. next'[x] \in Ring \cup {a} /\ previous'[next'[x]] = x
    BY <1>1, <1>3
  <2>2. previous'[x] \in Ring \cup {a} /\ next'[previous'[x]] = x
    BY <1>1, <1>3
  <2> QED BY <2>1, <2>2
<1>7. ASSUME NEW b \in Alarm, next'[b] = b PROVE previous'[b] = b
  BY <1>1, <1>3, <1>7 DEF RingInv, Node
<1>8. ASSUME NEW S \in SUBSET Ring', h \in S, \A x \in S : next'[x] \in S PROVE S = Ring'
  <2>1. a \in S /\ first \in S
    BY <1>3, <1>8
  <2>2. \A x \in S \ {a} : next[x] \in S \ {a}
    BY <1>1, <1>3, <1>5, <1>8, <2>1
  <2>3. S \ {a} \in SUBSET Ring /\ h \in S \ {a}
    BY <1>1, <1>5, <1>8
  <2>4. S \ {a} = Ring
    BY <2>2, <2>3 DEF RingInv, h
  <2> QED BY <1>5, <2>1, <2>4
<1> QED BY <1>3, <1>4, <1>5, <1>6, <1>7, <1>8 DEF RingInv, h, first

(* Two alarms do not point to each other past the head.                    *)
LEMMA NoPair ==
    ASSUME AlarmTypeOK, RingInv, NEW x \in Ring, next[x] = previous[x]
    PROVE  x = alt_alarm_list \/ next[x] = alt_alarm_list
<1> SUFFICES ASSUME x # alt_alarm_list, next[x] # alt_alarm_list PROVE FALSE
  OBVIOUS
<1> DEFINE S == Ring \ {x, next[x]}
<1>1. /\ \A y \in Ring : /\ next[y] \in Ring /\ previous[next[y]] = y
                         /\ previous[y] \in Ring /\ next[previous[y]] = y
      /\ alt_alarm_list \in Ring
  BY RingNodes DEF RingInv
<1>2. alt_alarm_list \in S /\ S \in SUBSET Ring
  BY <1>1
<1>3. \A y \in S : next[y] \in S
  BY <1>1
<1>4. S = Ring
  BY <1>2, <1>3 DEF RingInv
<1> QED BY <1>4

LEMMA RemoveRing ==
    ASSUME AlarmTypeOK, RingInv, NEW e \in Alarm, next[e] # Null, alt_llist_remove(e)
    PROVE  /\ next' \in [Node -> Node \cup {Null}] /\ previous' \in [Node -> Node \cup {Null}]
           /\ RingInv' /\ Ring' = Ring \ {e} /\ next'[e] = e
           /\ e \notin Ring => next' = next
           /\ e \in Ring =>
                /\ previous[e] \in Ring /\ next[previous[e]] = e
                /\ next'[previous[e]] = next[e]
                /\ \A x \in Node \ {e, previous[e]} : next'[x] = next[x]
                /\ \A x \in Ring \ {previous[e]} : next[x] # e
<1> DEFINE p == previous[e]
           n == next[e]
           h == alt_alarm_list
<1>1. /\ h \in Ring /\ Ring \subseteq Node /\ e # h /\ e \in Node
      /\ h \notin Alarm /\ Null \notin Node /\ n # Null /\ Alarm \subseteq Node
      /\ next \in [Node -> Node \cup {Null}] /\ previous \in [Node -> Node \cup {Null}]
      /\ \A x \in Ring : /\ next[x] \in Ring /\ previous[next[x]] = x
                         /\ previous[x] \in Ring /\ next[previous[x]] = x
      /\ e \in Ring <=> n # e
      /\ \A a \in Alarm : next[a] = a => previous[a] = a
      /\ \A a \in Alarm : a \in Ring <=> next[a] \notin {a, Null}
  BY RingNodes DEF RingInv, AlarmTypeOK, Registered
<1>2. /\ previous' = [[previous EXCEPT ![n] = p] EXCEPT ![e] = e]
      /\ next' = [[next EXCEPT ![p] = n] EXCEPT ![e] = e]
  BY DEF alt_llist_remove
<1>3. next' \in [Node -> Node \cup {Null}] /\ previous' \in [Node -> Node \cup {Null}]
  BY <1>1, <1>2
<1>4. CASE e \notin Ring
  <2>1. n = e /\ p = e
    BY <1>1, <1>4
  <2>2. next' = next /\ previous' = previous
    BY <1>1, <1>2, <2>1
  <2>3. Ring' = Ring /\ RingInv'
    BY <2>2 DEF Ring, Registered, RingInv
  <2> QED BY <1>3, <1>4, <2>1, <2>2, <2>3
<1>5. CASE e \in Ring
  <2>1. /\ n \in Ring /\ p \in Ring /\ n # e /\ p # e /\ next[p] = e /\ previous[n] = e
    BY <1>1, <1>5
  <2> HIDE DEF p, n, h
  <2>2. /\ next'[e] = e /\ next'[p] = n /\ \A x \in Node \ {e, p} : next'[x] = next[x]
        /\ previous'[e] = e /\ previous'[n] = p
        /\ \A x \in Node \ {e, n} : previous'[x] = previous[x]
    BY <1>1, <1>2, <2>1
  <2>3. n = p => p = h
    BY NoPair, <1>1, <1>5 DEF n, p, h
  <2>4. Ring' = Ring \ {e}
    <3>1. ASSUME NEW b \in Alarm PROVE Registered(b)' <=> Registered(b) /\ b # e
      <4>1. CASE b = e
        BY <2>2, <4>1 DEF Registered
      <4>2. CASE b # e /\ b = p
        BY <1>1, <2>1, <2>2, <2>3, <4>2 DEF Registered, h
      <4>3. CASE b # e /\ b # p
        BY <1>1, <2>2, <4>3 DEF Registered
      <4> QED BY <4>1, <4>2, <4>3
    <3> QED BY <1>1, <3>1 DEF Ring, h
  <2>5. \A x \in Ring \ {p} : next[x] # e
    BY <1>1 DEF p
  <2>6. \A x \in Ring' : /\ next'[x] \in Ring' /\ previous'[next'[x]] = x
                         /\ previous'[x] \in Ring' /\ next'[previous'[x]] = x
    <3> SUFFICES ASSUME NEW x \in Ring \ {e}
                 PROVE  /\ next'[x] \in Ring \ {e} /\ previous'[next'[x]] = x
                        /\ previous'[x] \in Ring \ {e} /\ next'[previous'[x]] = x
      BY <2>4
    <3>1. next'[x] \in Ring \ {e} /\ previous'[next'[x]] = x
      BY <1>1, <2>1, <2>2, <2>5 DEF n
    <3>2. previous'[x] \in Ring \ {e} /\ next'[previous'[x]] = x
      BY <1>1, <2>1, <2>2 DEF p
    <3> QED BY <3>1, <3>2
  <2>7. ASSUME NEW b \in Alarm, next'[b] = b PROVE previous'[b] = b
    <3>1. b = e \/ b \notin Ring'
      BY <1>1, <2>4, <2>7, <2>2, <2>1, <2>3, <2>5 DEF h
    <3> QED BY <1>1, <2>1, <2>2, <2>4, <2>7, <3>1
  <2>8. ASSUME NEW S \in SUBSET Ring', h \in S, \A x \in S : next'[x] \in S PROVE S = Ring'
    <3>1. CASE p \in S
      <4>1. \A x \in S \cup {e} : next[x] \in S \cup {e}
        <5>1. next[e] = n /\ n \in S
          BY <2>2, <2>8, <3>1 DEF n
        <5>2. ASSUME NEW x \in S PROVE next[x] \in S \cup {e}
          BY <1>1, <2>1, <2>2, <2>4, <2>8
        <5> QED BY <5>1, <5>2
      <4>2. S \cup {e} = Ring
        <5> DEFINE T == S \cup {e}
        <5>1. T \in SUBSET Ring /\ h \in T
          BY <1>5, <2>4, <2>8
        <5>2. \A x \in T : next[x] \in T
          BY <4>1
        <5> HIDE DEF T
        <5>3. T = Ring
          BY <5>1, <5>2 DEF RingInv, h
        <5> QED BY <5>3 DEF T
      <4> QED BY <2>4, <2>8, <4>2
    <3>2. CASE p \notin S
      <4>1. \A x \in S : next[x] \in S
        BY <1>1, <2>2, <2>4, <2>8, <3>2
      <4>2. S = Ring
        BY <2>4, <2>8, <4>1 DEF RingInv, h
      <4> QED BY <2>1, <3>2, <4>2
    <3> QED BY <3>1, <3>2
  <2>9. RingInv'
    BY <2>6, <2>7, <2>8 DEF RingInv, h
  <2> QED BY <1>3, <1>5, <2>1, <2>2, <2>4, <2>5, <2>9 DEF n, p
<1> QED BY <1>4, <1>5


(* The walk of alt_tick, and the places alarms are started and stopped.    *)
LEMMA StartWalk ==
    ASSUME WalkInv, NEW a \in Alarm, alt_alarm_start(a)
    PROVE  WalkInv'
<1>1. /\ AlarmTypeOK /\ RingInv /\ PlaceInv /\ ~Registered(a)
      /\ alt_llist_insert(alt_alarm_list, a) /\ UNCHANGED <<nticks, at>>
      /\ at.pc # "loop" /\ (InCallback => a # at.alarm)
      /\ nticks \in 0..(Width - 1) /\ Width \in Nat /\ Width >= 1
  BY AlarmAssumption DEF alt_alarm_start, WalkInv, InCallback, AlarmTypeOK
<1>2. /\ next' \in [Node -> Node \cup {Null}] /\ previous' \in [Node -> Node \cup {Null}]
      /\ RingInv' /\ Ring' = Ring \cup {a}
      /\ \A x \in Node \ {a, alt_alarm_list} : next'[x] = next[x]
  BY <1>1, InsertRing
<1>3. AlarmTypeOK'
  <2>1. PICK n \in Delays : /\ time' = [time EXCEPT ![a] = Deadline(a, n).time]
                            /\ rollover' = [rollover EXCEPT ![a] = Deadline(a, n).rollover]
    BY DEF alt_alarm_start
  <2>2. Deadline(a, n).time \in 0..(Width - 1) /\ Deadline(a, n).rollover \in BOOLEAN
    <3>1. n + nticks + 1 \in Nat
      BY <1>1, AlarmAssumption
    <3> DEFINE t == (n + nticks + 1) % Width
    <3>2. t \in 0..(Width - 1)
      BY <1>1, <3>1, Division
    <3> QED BY <3>2 DEF Deadline
  <2> QED BY <1>1, <1>2, <2>1, <2>2 DEF AlarmTypeOK
<1>4. PlaceInv'
  BY <1>1, <1>2, RingNodes DEF PlaceInv, InCallback
<1> QED BY <1>2, <1>3, <1>4 DEF WalkInv

LEMMA StopWalk ==
    ASSUME ~StopNext, WalkInv, NEW a \in Alarm, alt_alarm_stop(a)
    PROVE  WalkInv'
<1>1. /\ AlarmTypeOK /\ RingInv /\ PlaceInv /\ next[a] # Null /\ alt_llist_remove(a)
      /\ UNCHANGED <<time, rollover, nticks, at>>
      /\ at.pc # "loop" /\ (InCallback => a # at.next)
  BY DEF alt_alarm_stop, WalkInv, InCallback
<1>2. /\ next' \in [Node -> Node \cup {Null}] /\ previous' \in [Node -> Node \cup {Null}]
      /\ RingInv' /\ Ring' = Ring \ {a} /\ next'[a] = a
  BY <1>1, RemoveRing
<1>3. ASSUME NEW x \in Alarm, next[x] # Null PROVE next'[x] # Null
  <2>1. CASE a \notin Ring
    BY <1>1, <1>3, <2>1, RemoveRing
  <2>2. CASE a \in Ring
    <3>1. /\ next'[previous[a]] = next[a]
          /\ \A y \in Node \ {a, previous[a]} : next'[y] = next[y]
      BY <1>1, <2>2, RemoveRing
    <3>2. next[a] # Null /\ a # Null /\ x \in Node
      BY <1>1, RingNodes
    <3> QED BY <1>2, <1>3, <3>1, <3>2
  <2> QED BY <2>1, <2>2
<1>4. PlaceInv'
  BY <1>1, <1>2, <1>3 DEF PlaceInv, InCallback
<1> QED BY <1>1, <1>2, <1>4 DEF WalkInv, AlarmTypeOK

LEMMA StillRing ==
    ASSUME RingInv, UNCHANGED <<next, previous>>
    PROVE  RingInv' /\ Ring' = Ring
  BY DEF RingInv, Ring, Registered

LEMMA LoopWalk ==
    ASSUME WalkInv, alt_tick \/ Loop
    PROVE  WalkInv'
<1>1. /\ AlarmTypeOK /\ RingInv /\ PlaceInv /\ Ring \subseteq Node /\ alt_alarm_list \in Ring
      /\ Width \in Nat /\ Width >= 1 /\ nticks \in 0..(Width - 1)
      /\ at \in [pc : {"idle", "loop", "callback"}, alarm : Node, next : Node]
      /\ \A x \in Ring : next[x] \in Ring
  BY RingNodes, AlarmAssumption DEF WalkInv, AlarmTypeOK, RingInv
<1>2. CASE alt_tick
  <2>1. RingInv' /\ Ring' = Ring /\ UNCHANGED <<next, previous, time, rollover>>
    BY <1>1, <1>2, StillRing DEF alt_tick
  <2>2. nticks' \in 0..(Width - 1)
    <3>1. nticks + 1 \in Nat
      BY <1>1
    <3> QED BY <1>1, <1>2, <3>1, Division DEF alt_tick
  <2>3. at' \in [pc : {"idle", "loop", "callback"}, alarm : Node, next : Node]
        /\ at'.pc = "loop" /\ at'.alarm \in Ring
    BY <1>1, <1>2 DEF alt_tick
  <2> QED BY <1>1, <2>1, <2>2, <2>3 DEF WalkInv, AlarmTypeOK, PlaceInv, InCallback
<1>3. CASE Visit
  <2> DEFINE x == at.alarm
  <2>1. /\ at.pc = "loop" /\ x \in Alarm /\ x \in Ring /\ next[x] \in Ring /\ next[x] # x
        /\ next[x] # Null
    BY <1>1, <1>3, RingNodes DEF Visit, PlaceInv, Ring, Registered
  <2>2. RingInv' /\ Ring' = Ring /\ UNCHANGED <<next, previous, time, nticks>>
    BY <1>1, <1>3, StillRing DEF Visit
  <2>3. rollover' \in [Alarm -> BOOLEAN]
    BY <1>1, <1>3, <2>1 DEF Visit, AlarmTypeOK, Beyond
  <2>4. at' \in [pc : {"idle", "loop", "callback"}, alarm : Node, next : Node]
    BY <1>1, <1>3, <2>1 DEF Visit
  <2>5. PlaceInv'
    BY <1>1, <1>3, <2>1, <2>2 DEF Visit, PlaceInv, InCallback
  <2> QED BY <1>1, <2>2, <2>3, <2>4, <2>5 DEF WalkInv, AlarmTypeOK
<1>4. ASSUME NEW p \in Periods \cup {0}, Return(p) PROVE WalkInv'
  <2>1. /\ at.alarm \in Alarm /\ next[at.alarm] # Null /\ at.next \in Ring /\ at.next # at.alarm
        /\ nticks' = nticks
        /\ at' \in [pc : {"idle", "loop", "callback"}, alarm : Node, next : Node]
        /\ at'.pc = "loop" /\ at'.alarm = at.next
    BY <1>1, <1>4 DEF Return, PlaceInv, Continue
  <2>2. CASE p = 0
    <3>1. alt_llist_remove(at.alarm) /\ UNCHANGED <<time, rollover>>
      BY <1>4, <2>2 DEF Return
    <3>2. /\ next' \in [Node -> Node \cup {Null}] /\ previous' \in [Node -> Node \cup {Null}]
          /\ RingInv' /\ Ring' = Ring \ {at.alarm}
      BY <1>1, <2>1, <3>1, RemoveRing
    <3> QED BY <1>1, <2>1, <3>1, <3>2 DEF WalkInv, AlarmTypeOK, PlaceInv, InCallback
  <2>3. CASE p # 0
    <3> DEFINE t == (time[at.alarm] + p) % Width
    <3>1. /\ time' = [time EXCEPT ![at.alarm] = t] /\ rollover' = [rollover EXCEPT ![at.alarm] = t < nticks]
          /\ UNCHANGED <<next, previous>>
      BY <1>4, <2>3 DEF Return
    <3>2. t \in 0..(Width - 1)
      <4>1. time[at.alarm] + p \in Nat
        BY <1>1, <2>1, AlarmAssumption DEF AlarmTypeOK
      <4> QED BY <1>1, <4>1, Division
    <3> HIDE DEF t
    <3>3. RingInv' /\ Ring' = Ring
      BY <1>1, <3>1, StillRing
    <3>4. AlarmTypeOK'
      BY <1>1, <2>1, <3>1, <3>2 DEF AlarmTypeOK
    <3> QED BY <1>1, <2>1, <3>3, <3>4 DEF WalkInv, PlaceInv, InCallback
  <2> QED BY <2>2, <2>3
<1>5. CASE TickEnd
  <2>1. RingInv' /\ Ring' = Ring /\ UNCHANGED <<next, previous, time, rollover, nticks>>
    BY <1>1, <1>5, StillRing DEF TickEnd
  <2>2. at' \in [pc : {"idle", "loop", "callback"}, alarm : Node, next : Node] /\ at'.pc = "idle"
    BY <1>1, <1>5 DEF TickEnd
  <2> QED BY <1>1, <2>1, <2>2 DEF WalkInv, AlarmTypeOK, PlaceInv, InCallback
<1> QED BY <1>2, <1>3, <1>4, <1>5 DEF Loop

LEMMA InitWalk == AlarmInit => WalkInv
<1> SUFFICES ASSUME AlarmInit PROVE WalkInv
  OBVIOUS
<1>1. /\ next = [x \in Node |-> IF x \in Alarm THEN Null ELSE x] /\ previous = next
      /\ time = [a \in Alarm |-> 0] /\ rollover = [a \in Alarm |-> FALSE] /\ nticks = 0
      /\ at = [pc |-> "idle", alarm |-> alt_alarm_list, next |-> alt_alarm_list]
  BY DEF AlarmInit
<1>2. alt_alarm_list \in Node /\ alt_alarm_list \notin Alarm /\ 0 \in 0..(Width - 1)
      /\ Alarm \subseteq Node /\ Null \notin Alarm
  BY AlarmAssumption DEF Node
<1>3. AlarmTypeOK
  BY <1>1, <1>2 DEF AlarmTypeOK
<1>4. Ring = {alt_alarm_list} /\ next[alt_alarm_list] = alt_alarm_list
  BY <1>1, <1>2 DEF Ring, Registered
<1>5. RingInv
  BY <1>1, <1>2, <1>4 DEF RingInv
<1>6. PlaceInv
  BY <1>1 DEF PlaceInv, InCallback
<1> QED BY <1>3, <1>5, <1>6 DEF WalkInv

LEMMA NextWalk ==
    ASSUME ~StopNext, WalkInv, [AlarmNext]_alarmVars
    PROVE  WalkInv'
<1>1. CASE AlarmNext
  BY <1>1, StartWalk, StopWalk, LoopWalk DEF AlarmNext
<1>2. CASE UNCHANGED alarmVars
  <2>1. UNCHANGED <<next, previous, time, rollover, nticks, at>>
    BY <1>2 DEF alarmVars
  <2>2. RingInv' /\ Ring' = Ring
    BY <2>1, StillRing DEF WalkInv
  <2> QED BY <2>1, <2>2 DEF WalkInv, AlarmTypeOK, PlaceInv, InCallback
<1> QED BY <1>1, <1>2


(* The entries in k steps, as the code follows the pointers.               *)
Steps(n, u) == u = [k \in 0..n |-> IF k = 0 THEN alt_alarm_list ELSE next[u[k - 1]]]

LEMMA StepsExist == ASSUME NEW n \in Nat PROVE \E u : Steps(n, u)
<1> DEFINE T == {m \in Nat : \E u : Steps(m, u)}
<1>1. 0 \in T
  <2> DEFINE u == [k \in 0..0 |-> alt_alarm_list]
  <2>1. Steps(0, u)
    BY DEF Steps
  <2>2. \E v : Steps(0, v)
    BY <2>1
  <2> QED BY <2>2
<1>2. ASSUME NEW m \in T PROVE m + 1 \in T
  <2>1. m \in Nat
    OBVIOUS
  <2>2. PICK u : Steps(m, u)
    OBVIOUS
  <2> DEFINE v == [k \in 0..(m + 1) |-> IF k = 0 THEN alt_alarm_list ELSE next[u[k - 1]]]
  <2>3. ASSUME NEW k \in 0..m PROVE v[k] = u[k]
    <3> DEFINE F(i) == IF i = 0 THEN alt_alarm_list ELSE next[u[i - 1]]
    <3>1. u = [i \in 0..m |-> F(i)] /\ v = [i \in 0..(m + 1) |-> F(i)]
      BY <2>2 DEF Steps
    <3>2. k \in 0..(m + 1)
      BY <2>1
    <3> HIDE DEF F, v
    <3> QED BY <3>1, <3>2
  <2>4. Steps(m + 1, v)
    <3>1. ASSUME NEW k \in 0..(m + 1), k # 0 PROVE v[k - 1] = u[k - 1]
      <4>1. k - 1 \in 0..m
        BY <2>1, <3>1
      <4> QED BY <2>3, <4>1
    <3> QED BY <3>1 DEF Steps
  <2>5. \E w : Steps(m + 1, w)
    <3> HIDE DEF v
    <3> QED BY <2>4
  <2> QED BY <2>1, <2>5
<1>3. T = Nat
  <2>1. T \in SUBSET Nat
    OBVIOUS
  <2>2. \A m \in T : m + 1 \in T
    BY <1>2
  <2> HIDE DEF T
  <2> QED BY <1>1, <2>1, <2>2, Induction
<1> QED BY <1>3

LEMMA ReachedFacts ==
    ASSUME AlarmTypeOK, RingInv, NEW N \in Nat, N = Cardinality(Alarm)
    PROVE  /\ Reached[0] = alt_alarm_list
           /\ \A k \in 1..N : Reached[k] = next[Reached[k - 1]]
           /\ \A k \in 0..N : Reached[k] \in Ring
<1>1. PICK u : Steps(N, u)
  BY StepsExist
<1>2. Steps(N, Reached)
  BY <1>1 DEF Reached, Steps
<1> DEFINE F(k) == IF k = 0 THEN alt_alarm_list ELSE next[Reached[k - 1]]
<1>3. Reached = [k \in 0..N |-> F(k)]
  BY <1>2 DEF Steps
<1>4. \A k \in 0..N : Reached[k] = F(k)
  <2> HIDE DEF F
  <2> QED BY <1>3
<1>5. /\ Reached[0] = alt_alarm_list
      /\ \A k \in 1..N : Reached[k] = next[Reached[k - 1]]
  BY <1>4
<1> HIDE DEF F
<1> DEFINE T == {k \in Nat : k <= N => Reached[k] \in Ring}
<1>6. 0 \in T
  BY <1>5, RingNodes
<1>7. ASSUME NEW k \in T PROVE k + 1 \in T
  <2> SUFFICES ASSUME k + 1 <= N PROVE Reached[k + 1] \in Ring
    OBVIOUS
  <2>1. k + 1 \in 1..N /\ k <= N /\ (k + 1) - 1 = k /\ Reached[k] \in Ring
    OBVIOUS
  <2> QED BY <1>5, <2>1 DEF RingInv
<1>8. T = Nat
  <2>1. T \in SUBSET Nat
    OBVIOUS
  <2>2. \A k \in T : k + 1 \in T
    BY <1>7
  <2> HIDE DEF T
  <2> QED BY <1>6, <2>1, <2>2, Induction
<1>9. \A k \in 0..N : Reached[k] \in Ring
  BY <1>8
<1> QED BY <1>5, <1>9

(* As many steps as there are entries reach each of them: before the first *)
(* that comes to an entry again, all are different, and it can only come   *)
(* to the head, when all that is reached has been.                         *)
LEMMA RingReached == ASSUME WalkInv PROVE OneRing
<1> DEFINE N == Cardinality(Alarm)
           m == Cardinality(Ring)
           h == alt_alarm_list
<1>1. AlarmTypeOK /\ RingInv
  BY DEF WalkInv
<1>2. /\ N \in Nat /\ IsFiniteSet(Ring) /\ m \in Nat /\ m >= 1 /\ m <= N + 1 /\ h \in Ring
  <2>1. N \in Nat /\ IsFiniteSet(Alarm)
    BY FS_CardinalityType, AlarmAssumption
  <2>2. IsFiniteSet(Node) /\ Cardinality(Node) = N + 1
    BY <2>1, FS_AddElement, AlarmAssumption DEF Node
  <2>3. Ring \in SUBSET Node /\ h \in Ring
    BY <1>1, RingNodes
  <2>4. IsFiniteSet(Ring) /\ m <= N + 1
    BY <2>2, <2>3, FS_Subset
  <2>5. m \in Nat
    BY <2>4, FS_CardinalityType
  <2>6. m # 0
    BY <2>3, <2>4, FS_EmptySet
  <2> HIDE DEF N, m
  <2> QED BY <2>1, <2>3, <2>4, <2>5, <2>6
<1>3. /\ Reached[0] = h
      /\ \A k \in 1..N : Reached[k] = next[Reached[k - 1]]
      /\ \A k \in 0..N : Reached[k] \in Ring
  BY <1>1, <1>2, ReachedFacts
<1>4. /\ \A x \in Ring : next[x] \in Ring /\ previous[next[x]] = x
      /\ \A S \in SUBSET Ring : h \in S /\ (\A x \in S : next[x] \in S) => S = Ring
  BY <1>1 DEF RingInv
<1> HIDE DEF N, m, h
<1> DEFINE Again == {p \in 1..(m - 1) : \E j \in 0..(p - 1) : Reached[p] = Reached[j]}
<1>5. Again = {}
  <2> SUFFICES ASSUME Again # {} PROVE FALSE
    OBVIOUS
  <2>1. PICK p \in Again : \A q \in Again : p <= q
    <3>1. Again \in SUBSET Nat
      BY <1>2
    <3> HIDE DEF Again
    <3> QED BY <3>1, LeastNumber
  <2>2. PICK j \in 0..(p - 1) : Reached[p] = Reached[j]
    OBVIOUS
  <2>3. p \in 1..(m - 1) /\ p \in 1..N /\ p - 1 \in 0..N /\ p \in Nat
    BY <1>2
  <2>4. j = 0
    <3> SUFFICES ASSUME j # 0 PROVE FALSE
      OBVIOUS
    <3>1. j \in 1..N /\ j - 1 \in 0..N /\ p - 1 \in 1..(m - 1) /\ j - 1 \in 0..((p - 1) - 1)
      BY <1>2, <2>3
    <3>2. Reached[p] = next[Reached[p - 1]] /\ Reached[j] = next[Reached[j - 1]]
      BY <1>3, <2>3, <3>1
    <3>3. Reached[p - 1] = Reached[j - 1]
      <4>1. Reached[p - 1] \in Ring /\ Reached[j - 1] \in Ring
        BY <1>3, <2>3, <3>1
      <4>2. \A x, y \in Ring : next[x] = next[y] => x = y
        BY <1>4
      <4>3. next[Reached[p - 1]] = next[Reached[j - 1]]
        BY <2>2, <3>2
      <4> QED BY <4>1, <4>2, <4>3
    <3>4. p - 1 \in Again
      BY <3>1, <3>3
    <3> QED BY <2>1, <2>3, <3>4
  <2> DEFINE S == {Reached[k] : k \in 0..(p - 1)}
  <2>5. S \in SUBSET Ring /\ h \in S
    BY <1>2, <1>3, <2>3
  <2>6. ASSUME NEW x \in S PROVE next[x] \in S
    <3>1. PICK k \in 0..(p - 1) : x = Reached[k]
      OBVIOUS
    <3>2. k + 1 \in 1..N /\ (k + 1) - 1 = k
      BY <1>2, <2>3
    <3>3. next[x] = Reached[k + 1]
      BY <1>3, <3>1, <3>2
    <3>4. CASE k = p - 1
      BY <1>3, <2>2, <2>4, <2>5, <3>3, <3>4, <2>3
    <3>5. CASE k # p - 1
      <4>1. k + 1 \in 0..(p - 1)
        BY <2>3, <3>5
      <4> QED BY <3>3, <4>1
    <3> QED BY <3>4, <3>5
  <2>7. S = Ring
    <3> HIDE DEF S
    <3> QED BY <1>4, <2>5, <2>6
  <2>8. m <= p
    <3> DEFINE f == [k \in 0..(p - 1) |-> Reached[k]]
    <3>1. f \in Surjection(0..(p - 1), Ring)
      BY <2>7 DEF Surjection
    <3>2. IsFiniteSet(0..(p - 1)) /\ Cardinality(0..(p - 1)) = p
      BY <2>3, FS_Interval
    <3> HIDE DEF f
    <3> QED BY <3>1, <3>2, FS_Surjection DEF m
  <2> QED BY <1>2, <2>3, <2>8
<1>6. Ring = {Reached[k] : k \in 0..(m - 1)}
  <2> DEFINE f == [k \in 0..(m - 1) |-> Reached[k]]
  <2>1. \A k \in 0..(m - 1) : k \in 0..N
    BY <1>2
  <2>2. f \in [0..(m - 1) -> Ring]
    BY <1>3, <2>1
  <2>3. ASSUME NEW j \in 0..(m - 1), NEW k \in 0..(m - 1), f[j] = f[k] PROVE j = k
    <3>1. ASSUME NEW a \in 0..(m - 1), NEW b \in 0..(m - 1), a < b, Reached[a] = Reached[b]
          PROVE  FALSE
      <4>1. b \in 1..(m - 1) /\ a \in 0..(b - 1)
        BY <1>2, <3>1
      <4> QED BY <1>5, <3>1, <4>1
    <3>2. Reached[j] = Reached[k] /\ (j < k \/ k < j \/ j = k)
      BY <1>2, <2>3
    <3> QED BY <3>1, <3>2
  <2>4. f \in Injection(0..(m - 1), Ring)
    BY <2>2, <2>3 DEF Injection, IsInjective
  <2>5. Cardinality(0..(m - 1)) = m
    BY <1>2, FS_Interval
  <2>6. f \in Surjection(0..(m - 1), Ring)
    <3> HIDE DEF f
    <3> QED BY <1>2, <2>4, <2>5, FS_Injection DEF m
  <2>7. \A x \in Ring : \E k \in 0..(m - 1) : x = Reached[k]
    BY <2>6 DEF Surjection
  <2>8. \A k \in 0..(m - 1) : Reached[k] \in Ring
    BY <1>3, <2>1
  <2> QED BY <2>7, <2>8
<1> QED BY <1>4, <1>6 DEF OneRing, Ring, m, h


(* The list alt_tick walks on stays one ring of just the running alarms,   *)
(* and alt_tick on it, whatever callbacks start and stop except the alarm  *)
(* that comes next, which alt_tick has kept.                               *)
THEOREM AlarmsWalkTheList ==
    ASSUME ~StopNext
    PROVE  AlarmSpec => []WalksTheList
<1>1. WalkInv => WalksTheList
  <2>1. WalkInv => KeepsPlace
    BY AlarmAssumption DEF WalkInv, PlaceInv, KeepsPlace, Ring, InCallback
  <2> QED BY <2>1, RingReached DEF WalksTheList
<1>2. WalkInv /\ [AlarmNext]_alarmVars => WalkInv'
  BY NextWalk
<1> QED BY <1>1, <1>2, InitWalk, PTL DEF AlarmSpec


(* What is ahead of alt_tick, as the list changes.                         *)
LEMMA AheadNext ==
    ASSUME RingInv, NEW x \in Ring, x # alt_alarm_list, NEW T, Ahead(x, T)
    PROVE  Ahead(next[x], T \ {x})
<1> SUFFICES ASSUME NEW S \in SUBSET Ring, next[x] \in S, Onward(S) PROVE T \ {x} \subseteq S
  BY DEF Ahead
<1>1. Onward(S \cup {x}) /\ S \cup {x} \in SUBSET Ring
  BY DEF Onward
<1>2. T \subseteq S \cup {x}
  BY <1>1 DEF Ahead
<1> QED BY <1>2

LEMMA AheadAll ==
    ASSUME RingInv
    PROVE  Ahead(next[alt_alarm_list], Ring \ {alt_alarm_list})
<1> SUFFICES ASSUME NEW S \in SUBSET Ring, next[alt_alarm_list] \in S, Onward(S)
             PROVE  Ring \ {alt_alarm_list} \subseteq S
  BY DEF Ahead
<1> DEFINE U == S \cup {alt_alarm_list}
<1>1. U \in SUBSET Ring /\ alt_alarm_list \in U
  BY DEF Ring
<1>2. \A x \in U : next[x] \in U
  BY DEF Onward
<1>3. U = Ring
  <2> HIDE DEF U
  <2> QED BY <1>1, <1>2 DEF RingInv
<1> QED BY <1>3

LEMMA AheadInsert ==
    ASSUME AlarmTypeOK, RingInv, NEW a \in Alarm, ~Registered(a), alt_llist_insert(alt_alarm_list, a),
           NEW x \in Ring, NEW T, a \notin T, Ahead(x, T),
           NEW S \in SUBSET Ring', x \in S, Onward(S)'
    PROVE  T \subseteq S
<1>1. /\ a \notin Ring /\ Ring \subseteq Node /\ \A y \in Ring : next[y] \in Ring
      /\ Ring' = Ring \cup {a} /\ \A y \in Node \ {a, alt_alarm_list} : next'[y] = next[y]
  BY RingNodes, InsertRing DEF RingInv
<1>2. S \ {a} \in SUBSET Ring /\ x \in S \ {a}
  BY <1>1
<1>3. Onward(S \ {a})
  BY <1>1 DEF Onward
<1>4. T \subseteq S \ {a}
  BY <1>2, <1>3 DEF Ahead
<1> QED BY <1>4

LEMMA AheadRemove ==
    ASSUME AlarmTypeOK, RingInv, NEW e \in Alarm, next[e] # Null, alt_llist_remove(e),
           NEW x \in Ring, x # e, NEW T, Ahead(x, T),
           NEW S \in SUBSET Ring', x \in S, Onward(S)'
    PROVE  T \ {e} \subseteq S
<1>1. Ring \subseteq Node /\ Ring' = Ring \ {e} /\ e # alt_alarm_list
  BY RingNodes, RemoveRing
<1>2. CASE e \notin Ring
  <2>1. next' = next
    BY <1>2, RemoveRing
  <2>2. S \in SUBSET Ring /\ Onward(S)
    BY <1>1, <2>1 DEF Onward
  <2> QED BY <2>2 DEF Ahead
<1>3. CASE e \in Ring
  <2>1. /\ next'[previous[e]] = next[e]
        /\ \A y \in Node \ {e, previous[e]} : next'[y] = next[y]
        /\ \A y \in Ring \ {previous[e]} : next[y] # e
    BY <1>3, RemoveRing
  <2>2. CASE previous[e] \in S \ {alt_alarm_list}
    <3>1. next[e] \in S
      BY <2>1, <2>2 DEF Onward
    <3>2. ASSUME NEW y \in S \ {alt_alarm_list} PROVE next[y] \in S \cup {e}
      <4>1. CASE y = previous[e]
        BY <4>1, <1>3 DEF RingInv
      <4>2. CASE y # previous[e]
        BY <1>1, <2>1, <4>2 DEF Onward
      <4> QED BY <4>1, <4>2
    <3>3. S \cup {e} \in SUBSET Ring /\ Onward(S \cup {e})
      BY <1>1, <1>3, <3>1, <3>2 DEF Onward
    <3>4. T \subseteq S \cup {e}
      BY <3>3 DEF Ahead
    <3> QED BY <3>4
  <2>3. CASE previous[e] \notin S \ {alt_alarm_list}
    <3>1. S \in SUBSET Ring /\ Onward(S)
      BY <1>1, <2>1, <2>3 DEF Onward
    <3> QED BY <3>1 DEF Ahead
  <2> QED BY <2>2, <2>3
<1> QED BY <1>2, <1>3

(* A deadline d ticks from now, on the counter that wraps.                 *)
LEMMA Wrap ==
    ASSUME NEW k \in 0..(Width - 1), NEW d \in 1..Width
    PROVE  /\ (k + d) % Width = IF k + d < Width THEN k + d ELSE k + d - Width
           /\ d # Width => ((k + d) % Width < k <=> k + d >= Width)
<1>1. Width \in Nat /\ Width >= 2
  BY AlarmAssumption
<1>2. CASE k + d < Width
  <2>1. k + d \in 0..(Width - 1)
    BY <1>1, <1>2
  <2>2. (k + d) % Width = k + d
    BY <1>1, <2>1, SmallRemainder
  <2> QED BY <1>1, <1>2, <2>2
<1>3. CASE k + d >= Width
  <2> DEFINE r == k + d - Width
  <2>1. r \in 0..(Width - 1) /\ k + d = Width * 1 + r
    BY <1>1, <1>3
  <2>2. (Width * 1 + r) % Width = r
    <3> HIDE DEF r
    <3> QED BY <1>1, <2>1, Remainder
  <2> QED BY <1>1, <1>3, <2>1, <2>2
<1> QED BY <1>1, <1>2, <1>3

LEMMA LeftFacts ==
    ASSUME AlarmTypeOK, NEW a \in Alarm
    PROVE  /\ ~Registered(a) => left[a] = 2 * Width
           /\ Registered(a) => /\ left[a] = time[a] + (IF Beyond(a) THEN Width ELSE 0) - nticks
                               /\ left[a] \in Int /\ left[a] < 2 * Width /\ left[a] # 2 * Width
           /\ time[a] \in 0..(Width - 1) /\ nticks \in 0..(Width - 1) /\ Width \in Nat /\ Width >= 2
           /\ rollover[a] \in BOOLEAN
<1>1. /\ time[a] \in 0..(Width - 1) /\ nticks \in 0..(Width - 1) /\ Width \in Nat /\ Width >= 2
      /\ rollover[a] \in BOOLEAN
  BY AlarmAssumption DEF AlarmTypeOK
<1>2. /\ ~Registered(a) => left[a] = 2 * Width
      /\ Registered(a) => left[a] = time[a] + (IF Beyond(a) THEN Width ELSE 0) - nticks
  BY DEF left
<1>3. Beyond(a) \/ ~Beyond(a)
  OBVIOUS
<1> HIDE DEF Beyond
<1>4. Registered(a) => left[a] \in Int /\ left[a] < 2 * Width /\ left[a] # 2 * Width
  BY <1>1, <1>2, <1>3
<1> QED BY <1>1, <1>2, <1>4

LEMMA RegisteredNext == \A b \in Alarm : Registered(b)' <=> b \in Ring'
  BY AlarmAssumption DEF Ring

LEMMA RegisteredNow == \A b \in Alarm : Registered(b) <=> b \in Ring
  BY AlarmAssumption DEF Ring

(* An alarm that a step leaves as it is.                                   *)
LEMMA OtherAlarm ==
    ASSUME NEW b \in Alarm, b \in Ring' <=> b \in Ring, time'[b] = time[b],
           rollover'[b] = rollover[b] \/ rollover'[b] = Beyond(b), nticks' = nticks
    PROVE  left'[b] = left[b]
<1>1. Registered(b)' <=> Registered(b)
  BY RegisteredNext, RegisteredNow
<1>2. Beyond(b)' <=> Beyond(b)
  BY DEF Beyond
<1> QED BY <1>1, <1>2 DEF left

LEMMA OtherMissed ==
    ASSUME NEW b \in Alarm, b \in Ring' <=> b \in Ring, left'[b] = left[b],
           rollover'[b] = rollover[b], nticks' = nticks
    PROVE  b \in Missed' <=> b \in Missed
<1>1. Registered(b)' <=> Registered(b)
  BY RegisteredNext, RegisteredNow
<1> QED BY <1>1 DEF Missed, Unseen


(* The steps of the alarms as steps of the countdown.                      *)
CountsDown == [Timers!Next]_left

OnTimeInv == WalkInv /\ TimesInv

LEMMA StartOnTime ==
    ASSUME Delays \subseteq 0..(Width - 2), OnTimeInv, NEW a \in Alarm, alt_alarm_start(a)
    PROVE  TimesInv' /\ CountsDown
<1>1. /\ AlarmTypeOK /\ RingInv /\ PlaceInv /\ TimesInv /\ ~Registered(a)
      /\ alt_llist_insert(alt_alarm_list, a) /\ nticks' = nticks /\ at' = at
      /\ at.pc # "loop" /\ (InCallback => a # at.alarm)
      /\ time \in [Alarm -> 0..(Width - 1)] /\ rollover \in [Alarm -> BOOLEAN]
  BY DEF alt_alarm_start, OnTimeInv, WalkInv, InCallback, AlarmTypeOK
<1>2. PICK n \in Delays : /\ time' = [time EXCEPT ![a] = Deadline(a, n).time]
                          /\ rollover' = [rollover EXCEPT ![a] = Deadline(a, n).rollover]
  BY DEF alt_alarm_start
<1>3. /\ Width \in Nat /\ Width >= 2 /\ nticks \in 0..(Width - 1) /\ n \in 0..(Width - 2)
      /\ ~Registered(a) => left[a] = 2 * Width
  BY <1>1, LeftFacts
<1>4. Ring' = Ring \cup {a} /\ a \notin Ring
  BY <1>1, InsertRing, RingNodes
<1>5. left'[a] = n + 1 /\ (nticks = 0 => ~rollover'[a])
  <2> DEFINE t == (n + nticks + 1) % Width
  <2>1. n + nticks + 1 = nticks + (n + 1) /\ n + 1 \in 1..Width /\ n + 1 # Width
    BY <1>3
  <2>2. /\ t = IF nticks + (n + 1) < Width THEN nticks + (n + 1) ELSE nticks + (n + 1) - Width
        /\ t < nticks <=> nticks + (n + 1) >= Width
    BY <1>3, <2>1, Wrap
  <2>3. time'[a] = t /\ (rollover'[a] <=> t < nticks)
    BY <1>1, <1>2 DEF Deadline
  <2> HIDE DEF t
  <2>4. Beyond(a)' <=> t < nticks
    BY <1>1, <1>3, <2>2, <2>3 DEF Beyond
  <2>5. left'[a] = t + (IF t < nticks THEN Width ELSE 0) - nticks
    BY <1>1, <1>4, <2>3, <2>4, RegisteredNext DEF left
  <2>6. left'[a] = n + 1
    BY <1>3, <2>1, <2>2, <2>5
  <2> QED BY <1>3, <2>2, <2>3, <2>6
<1>6. ASSUME NEW b \in Alarm, b # a
      PROVE  left'[b] = left[b] /\ (b \in Missed' <=> b \in Missed)
  <2>1. (b \in Ring' <=> b \in Ring) /\ time'[b] = time[b] /\ rollover'[b] = rollover[b]
    BY <1>1, <1>2, <1>4, <1>6
  <2> QED BY <1>1, <2>1, OtherAlarm, OtherMissed
<1>7. a \notin Missed /\ a \notin Missed'
  BY <1>1, <1>3, <1>5 DEF Missed, Unseen
<1>8. Missed' = Missed
  <2>1. Missed \subseteq Alarm /\ Missed' \subseteq Alarm
    BY DEF Missed
  <2> QED BY <1>6, <1>7, <2>1
<1>9. TimesInv'
  <2>1. ASSUME NEW b \in Alarm, Registered(b)' PROVE left'[b] >= 0
    <3>1. CASE b = a
      BY <1>3, <1>5, <3>1
    <3>2. CASE b # a
      BY <1>1, <1>4, <1>6, <2>1, <3>2, RegisteredNow, RegisteredNext DEF TimesInv
    <3> QED BY <3>1, <3>2
  <2>2. ASSUME InCallback
        PROVE  /\ Ahead(at.next, Missed \ {at.alarm})'
               /\ Registered(at.alarm)' => left'[at.alarm] = 0
    <3>1. /\ at.next \in Ring /\ at.alarm \in Alarm /\ Ahead(at.next, Missed \ {at.alarm})
          /\ Registered(at.alarm) => left[at.alarm] = 0
      BY <1>1, <2>2 DEF PlaceInv, TimesInv
    <3>2. Ahead(at.next, Missed \ {at.alarm})'
      <4> SUFFICES ASSUME NEW S \in SUBSET Ring', at.next \in S, Onward(S)'
                   PROVE  Missed \ {at.alarm} \subseteq S
        BY <1>1, <1>8 DEF Ahead
      <4> QED BY <1>1, <1>7, <3>1, AheadInsert
    <3>3. Registered(at.alarm)' => left'[at.alarm] = 0
      BY <1>1, <1>4, <1>6, <2>2, <3>1, RegisteredNow, RegisteredNext
    <3> QED BY <3>2, <3>3
  <2> QED BY <1>1, <1>8, <2>1, <2>2 DEF TimesInv, InCallback
<1>10. Timers!Start(a)
  <2>1. left' = [left EXCEPT ![a] = n + 1]
    BY <1>5, <1>6 DEF left
  <2> QED BY <1>1, <1>3, <2>1 DEF Timers!Start, Timers!Running
<1> QED BY <1>9, <1>10 DEF CountsDown, Timers!Next

(* Taking an alarm off the list, which may not be on it any more.          *)
LEMMA RemoveOnTime ==
    ASSUME AlarmTypeOK, RingInv, \A b \in Alarm : Registered(b) => left[b] >= 0,
           NEW e \in Alarm, next[e] # Null, alt_llist_remove(e), UNCHANGED <<time, rollover, nticks>>
    PROVE  /\ Missed' = Missed \ {e} /\ left' = [left EXCEPT ![e] = 2 * Width]
           /\ \A b \in Alarm : Registered(b)' => left'[b] >= 0
           /\ \A b \in Alarm \ {e} : left'[b] = left[b] /\ (Registered(b)' <=> Registered(b))
<1>1. Ring' = Ring \ {e}
  BY RemoveRing
<1>2. ASSUME NEW b \in Alarm, b # e
      PROVE  left'[b] = left[b] /\ (b \in Missed' <=> b \in Missed)
  <2>1. b \in Ring' <=> b \in Ring
    BY <1>1, <1>2
  <2>2. left'[b] = left[b]
    BY <2>1, OtherAlarm
  <2> QED BY <2>1, <2>2, OtherMissed
<1>3. ~Registered(e)' /\ \A b \in Alarm \ {e} : Registered(b)' <=> Registered(b)
  BY <1>1, RegisteredNow, RegisteredNext
<1>4. left'[e] = 2 * Width /\ e \notin Missed'
  BY <1>3 DEF left, Missed, Unseen
<1>5. Missed' = Missed \ {e}
  <2>1. Missed \subseteq Alarm /\ Missed' \subseteq Alarm
    BY DEF Missed
  <2> QED BY <1>2, <1>4, <2>1
<1>6. left' = [left EXCEPT ![e] = 2 * Width]
  BY <1>2, <1>4 DEF left
<1>7. ASSUME NEW b \in Alarm, Registered(b)' PROVE left'[b] >= 0
  <2>1. b # e /\ Registered(b)
    BY <1>3, <1>7
  <2> QED BY <1>2, <2>1
<1> QED BY <1>2, <1>3, <1>5, <1>6, <1>7

LEMMA StopOnTime ==
    ASSUME ~StopNext, OnTimeInv, NEW a \in Alarm, alt_alarm_stop(a)
    PROVE  TimesInv' /\ CountsDown
<1>1. /\ AlarmTypeOK /\ RingInv /\ PlaceInv /\ TimesInv /\ next[a] # Null /\ alt_llist_remove(a)
      /\ UNCHANGED <<time, rollover, nticks>> /\ at' = at
      /\ at.pc # "loop" /\ (InCallback => a # at.next)
  BY DEF alt_alarm_stop, OnTimeInv, WalkInv, InCallback
<1>2. /\ Missed' = Missed \ {a} /\ left' = [left EXCEPT ![a] = 2 * Width]
      /\ \A b \in Alarm : Registered(b)' => left'[b] >= 0
      /\ \A b \in Alarm \ {a} : left'[b] = left[b] /\ (Registered(b)' <=> Registered(b))
  BY <1>1, RemoveOnTime DEF TimesInv
<1>3. ASSUME InCallback
      PROVE  /\ Ahead(at.next, Missed \ {at.alarm})'
             /\ Registered(at.alarm)' => left'[at.alarm] = 0
  <2>1. /\ at.next \in Ring /\ at.alarm \in Alarm /\ Ahead(at.next, Missed \ {at.alarm})
        /\ Registered(at.alarm) => left[at.alarm] = 0
    BY <1>1, <1>3 DEF PlaceInv, TimesInv
  <2>2. Ahead(at.next, Missed \ {at.alarm})'
    <3> SUFFICES ASSUME NEW S \in SUBSET Ring', at.next \in S, Onward(S)'
                 PROVE  (Missed \ {at.alarm}) \ {a} \subseteq S
      BY <1>1, <1>2 DEF Ahead
    <3> QED BY <1>1, <1>3, <2>1, AheadRemove
  <2>3. ~Registered(a)'
    BY <1>1, RemoveRing, RegisteredNext
  <2>4. Registered(at.alarm)' => left'[at.alarm] = 0
    BY <1>1, <1>2, <2>1, <2>3
  <2> QED BY <2>2, <2>4
<1>4. TimesInv'
  BY <1>1, <1>2, <1>3 DEF TimesInv, InCallback
<1> QED BY <1>2, <1>4 DEF CountsDown, Timers!Next, Timers!Stop


LEMMA TickOnTime ==
    ASSUME OnTimeInv, alt_tick
    PROVE  TimesInv' /\ CountsDown
<1>1. /\ AlarmTypeOK /\ RingInv /\ TimesInv /\ at.pc = "idle" /\ Missed = {}
      /\ nticks' = (nticks + 1) % Width /\ at'.pc = "loop" /\ at'.alarm = next[alt_alarm_list]
      /\ UNCHANGED <<next, previous, time, rollover>>
      /\ at \in [pc : {"idle", "loop", "callback"}, alarm : Node, next : Node]
      /\ Width \in Nat /\ Width >= 2 /\ nticks \in 0..(Width - 1)
  BY AlarmAssumption DEF alt_tick, OnTimeInv, WalkInv, AlarmTypeOK, TimesInv
<1>2. nticks' = IF nticks + 1 < Width THEN nticks + 1 ELSE 0
  <2>1. 1 \in 1..Width
    BY <1>1
  <2>2. (nticks + 1) % Width = IF nticks + 1 < Width THEN nticks + 1 ELSE nticks + 1 - Width
    BY <1>1, <2>1, Wrap
  <2>3. ~(nticks + 1 < Width) => nticks + 1 - Width = 0
    BY <1>1
  <2> QED BY <1>1, <2>2, <2>3
<1>3. RingInv' /\ Ring' = Ring
  BY <1>1, StillRing
<1>4. ASSUME NEW b \in Alarm, Registered(b)
      PROVE  left[b] > 0 /\ left'[b] = left[b] - 1 /\ left[b] # 2 * Width /\ left[b] \in Int
  <2>1. /\ left[b] = time[b] + (IF Beyond(b) THEN Width ELSE 0) - nticks
        /\ left[b] \in Int /\ left[b] # 2 * Width
        /\ time[b] \in 0..(Width - 1) /\ rollover[b] \in BOOLEAN
    BY <1>1, <1>4, LeftFacts
  <2>2. left[b] > 0 /\ (nticks = 0 => ~rollover[b])
    BY <1>1, <1>4, <2>1 DEF TimesInv, Missed, Unseen
  <2>3. left'[b] = time[b] + (IF Beyond(b)' THEN Width ELSE 0) - nticks'
    BY <1>1, <1>4 DEF left, Registered
  <2>4. Beyond(b) <=> rollover[b]
    BY <2>2 DEF Beyond
  <2>5. Beyond(b)' <=> rollover[b] /\ nticks' # 0
    BY <1>1 DEF Beyond
  <2>6. CASE nticks + 1 < Width
    <3>1. nticks' = nticks + 1 /\ nticks' # 0
      BY <1>1, <1>2, <2>6
    <3> QED BY <1>1, <2>1, <2>2, <2>3, <2>4, <2>5, <3>1
  <2>7. CASE ~(nticks + 1 < Width)
    <3>1. nticks' = 0 /\ nticks = Width - 1
      BY <1>1, <1>2, <2>7
    <3>2. rollover[b]
      BY <1>1, <2>1, <2>2, <2>4, <3>1
    <3>3. left[b] = time[b] + 1 /\ left'[b] = time[b]
      BY <1>1, <2>1, <2>3, <2>4, <2>5, <3>1, <3>2
    <3> QED BY <2>1, <2>2, <3>3
  <2> QED BY <2>6, <2>7
<1>5. ASSUME NEW b \in Alarm, ~Registered(b)
      PROVE  left[b] = 2 * Width /\ left'[b] = 2 * Width
  BY <1>1, <1>5 DEF left, Registered
<1>6. Timers!Tick
  <2>1. \A b \in Alarm : left[b] # 2 * Width => left[b] > 0
    BY <1>4, <1>5
  <2>2. \A b \in Alarm : left'[b] = IF left[b] # 2 * Width THEN left[b] - 1 ELSE 2 * Width
    BY <1>4, <1>5
  <2>3. left' = [b \in Alarm |-> IF left[b] # 2 * Width THEN left[b] - 1 ELSE 2 * Width]
    <3>1. left' = [b \in Alarm |-> left'[b]]
      BY DEF left
    <3> QED BY <2>2, <3>1
  <2> QED BY <2>1, <2>3 DEF Timers!Tick, Timers!Running
<1>7. TimesInv'
  <2>1. ASSUME NEW b \in Alarm, Registered(b)' PROVE left'[b] >= 0
    <3>1. Registered(b)
      BY <1>1, <2>1 DEF Registered
    <3> QED BY <1>4, <3>1
  <2>2. Missed' \subseteq Ring \ {alt_alarm_list}
    BY <1>3, RegisteredNext, AlarmAssumption DEF Missed, Unseen
  <2>3. ASSUME NEW S \in SUBSET Ring, next[alt_alarm_list] \in S, Onward(S) PROVE Missed' \subseteq S
    BY <1>1, <2>2, <2>3, AheadAll DEF Ahead
  <2>4. Ahead(at.alarm, Missed)'
    BY <1>1, <1>3, <2>3 DEF Ahead, Onward
  <2> QED BY <1>1, <2>1, <2>4 DEF TimesInv, InCallback
<1> QED BY <1>6, <1>7 DEF CountsDown, Timers!Next

LEMMA VisitOnTime ==
    ASSUME OnTimeInv, Visit
    PROVE  TimesInv' /\ CountsDown
<1> DEFINE x == at.alarm
<1>1. /\ AlarmTypeOK /\ RingInv /\ TimesInv /\ at.pc = "loop" /\ x # alt_alarm_list
      /\ x \in Ring /\ x \in Alarm /\ Registered(x) /\ Ahead(x, Missed)
      /\ rollover' = [rollover EXCEPT ![x] = Beyond(x)]
      /\ UNCHANGED <<next, previous, time, nticks>>
      /\ rollover \in [Alarm -> BOOLEAN]
      /\ at \in [pc : {"idle", "loop", "callback"}, alarm : Node, next : Node]
  BY RingNodes DEF Visit, OnTimeInv, WalkInv, PlaceInv, AlarmTypeOK, TimesInv
<1>2. RingInv' /\ Ring' = Ring
  BY <1>1, StillRing
<1>3. \A b \in Alarm : left'[b] = left[b]
  <2>1. ASSUME NEW b \in Alarm PROVE rollover'[b] = rollover[b] \/ rollover'[b] = Beyond(b)
    BY <1>1
  <2> QED BY <1>1, <1>2, <2>1, OtherAlarm
<1>4. ASSUME NEW b \in Alarm, b # x PROVE b \in Missed' <=> b \in Missed
  BY <1>1, <1>2, <1>3, <1>4, OtherMissed
<1>5. ~(rollover'[x] /\ nticks' = 0)
  BY <1>1 DEF Beyond
<1>6. /\ Due(x) => left[x] = 0
      /\ ~Due(x) => x \notin Missed'
  <2>1. /\ left[x] = time[x] + (IF Beyond(x) THEN Width ELSE 0) - nticks
        /\ time[x] \in 0..(Width - 1) /\ nticks \in 0..(Width - 1) /\ Width \in Nat
        /\ left[x] >= 0
    BY <1>1, LeftFacts DEF TimesInv
  <2>2. ~Due(x) => left[x] > 0
    BY <2>1 DEF Due
  <2>3. Due(x) => left[x] = 0
    BY <2>1 DEF Due
  <2>4. ~Due(x) => left'[x] # 0
    BY <1>1, <1>3, <2>2
  <2> QED BY <1>5, <2>3, <2>4 DEF Missed, Unseen
<1>7. Ahead(next[x], Missed \ {x}) /\ Missed' \subseteq Missed \cup {x}
  <2>1. Ahead(next[x], Missed \ {x})
    BY <1>1, AheadNext
  <2>2. Missed \subseteq Alarm /\ Missed' \subseteq Alarm
    BY DEF Missed
  <2> QED BY <1>4, <2>1, <2>2
<1>8. \A b \in Alarm : Registered(b)' => left'[b] >= 0
  BY <1>1, <1>2, <1>3, RegisteredNow, RegisteredNext DEF TimesInv
<1>9. CASE Due(x)
  <2>1. at'.pc = "callback" /\ at'.next = next[x] /\ at'.alarm = x
    BY <1>1, <1>9 DEF Visit
  <2>2. Ahead(at.next, Missed \ {at.alarm})'
    <3> SUFFICES ASSUME NEW S \in SUBSET Ring, next[x] \in S, Onward(S) PROVE Missed' \ {x} \subseteq S
      BY <1>1, <1>2, <2>1 DEF Ahead, Onward
    <3> QED BY <1>7 DEF Ahead
  <2> QED BY <1>1, <1>3, <1>6, <1>8, <1>9, <2>1, <2>2 DEF TimesInv, InCallback, CountsDown, left
<1>10. CASE ~Due(x)
  <2>1. at'.pc = "loop" /\ at'.alarm = next[x]
    BY <1>1, <1>10 DEF Visit
  <2>2. Ahead(at.alarm, Missed)'
    <3> SUFFICES ASSUME NEW S \in SUBSET Ring, next[x] \in S, Onward(S) PROVE Missed' \subseteq S
      BY <1>1, <1>2, <2>1 DEF Ahead, Onward
    <3> QED BY <1>6, <1>7, <1>10 DEF Ahead
  <2> QED BY <1>1, <1>3, <1>8, <2>1, <2>2 DEF TimesInv, InCallback, CountsDown, left
<1> QED BY <1>9, <1>10


LEMMA ReturnOnTime ==
    ASSUME OnTimeInv, NEW p \in Periods \cup {0}, Return(p)
    PROVE  TimesInv' /\ CountsDown
<1> DEFINE x == at.alarm
<1>1. /\ AlarmTypeOK /\ RingInv /\ TimesInv /\ InCallback /\ x \in Alarm /\ next[x] # Null
      /\ at.next \in Ring /\ at.next # x /\ Ahead(at.next, Missed \ {x})
      /\ Registered(x) => left[x] = 0
      /\ \A b \in Alarm : Registered(b) => left[b] >= 0
      /\ nticks' = nticks
      /\ at \in [pc : {"idle", "loop", "callback"}, alarm : Node, next : Node]
  BY DEF Return, OnTimeInv, WalkInv, PlaceInv, AlarmTypeOK, TimesInv
<1>2. at'.pc = "loop" /\ at'.alarm = at.next
  BY <1>1 DEF Return, Continue
<1>3. CASE p = 0
  <2>1. alt_llist_remove(x) /\ UNCHANGED <<time, rollover, nticks>>
    BY <1>1, <1>3 DEF Return
  <2>2. /\ Missed' = Missed \ {x} /\ left' = [left EXCEPT ![x] = 2 * Width]
        /\ \A b \in Alarm : Registered(b)' => left'[b] >= 0
    BY <1>1, <2>1, RemoveOnTime
  <2>3. Ahead(at.alarm, Missed)'
    <3> SUFFICES ASSUME NEW S \in SUBSET Ring', at.next \in S, Onward(S)'
                 PROVE  Missed \ {x} \subseteq S
      BY <1>2, <2>2 DEF Ahead
    <3>1. (Missed \ {x}) \ {x} \subseteq S
      BY <1>1, <2>1, AheadRemove
    <3> QED BY <3>1
  <2>4. TimesInv'
    BY <1>2, <2>2, <2>3 DEF TimesInv, InCallback
  <2>5. CountsDown
    BY <1>1, <2>2 DEF CountsDown, Timers!Next, Timers!Stop
  <2> QED BY <2>4, <2>5
<1>4. CASE p # 0
  <2> DEFINE t == (time[x] + p) % Width
  <2>1. /\ time' = [time EXCEPT ![x] = t] /\ rollover' = [rollover EXCEPT ![x] = t < nticks]
        /\ UNCHANGED <<next, previous>>
    BY <1>4 DEF Return
  <2>2. /\ time \in [Alarm -> 0..(Width - 1)] /\ rollover \in [Alarm -> BOOLEAN]
        /\ nticks \in 0..(Width - 1) /\ Width \in Nat /\ Width >= 2 /\ p \in 1..(Width - 1)
    BY <1>1, <1>4, AlarmAssumption DEF AlarmTypeOK
  <2>3. RingInv' /\ Ring' = Ring
    BY <1>1, <2>1, StillRing
  <2>4. Registered(x) => left'[x] = p /\ ~(rollover'[x] /\ nticks' = 0)
    <3> SUFFICES ASSUME Registered(x) PROVE left'[x] = p /\ ~(rollover'[x] /\ nticks' = 0)
      OBVIOUS
    <3>1. /\ left[x] = time[x] + (IF Beyond(x) THEN Width ELSE 0) - nticks
          /\ time[x] \in 0..(Width - 1) /\ left[x] = 0
      BY <1>1, LeftFacts
    <3>2. time[x] = nticks
      BY <2>2, <3>1
    <3>3. p \in 1..Width /\ p # Width
      BY <2>2
    <3>4. /\ t = IF nticks + p < Width THEN nticks + p ELSE nticks + p - Width
          /\ t < nticks <=> nticks + p >= Width
      BY <2>2, <3>2, <3>3, Wrap
    <3>5. time'[x] = t /\ (rollover'[x] <=> t < nticks)
      BY <1>1, <2>1, <2>2
    <3> HIDE DEF t
    <3>6. rollover'[x] /\ nticks' # 0 <=> t < nticks
      <4>1. nticks + p >= Width => nticks # 0
        BY <2>2
      <4> QED BY <1>1, <3>4, <3>5, <4>1
    <3>7. left'[x] = t + (IF t < nticks THEN Width ELSE 0) - nticks
      <4>1. left'[x] = time'[x] + (IF rollover'[x] /\ nticks' # 0 THEN Width ELSE 0) - nticks'
        BY <1>1, <2>1 DEF left, Registered, Beyond
      <4> QED BY <1>1, <3>5, <3>6, <4>1
    <3>8. left'[x] = p
      BY <2>2, <3>4, <3>7
    <3> QED BY <1>1, <2>2, <3>4, <3>5, <3>8
  <2> HIDE DEF t
  <2>5. ASSUME NEW b \in Alarm, b # x
        PROVE  left'[b] = left[b] /\ (b \in Missed' <=> b \in Missed)
    <3>1. (b \in Ring' <=> b \in Ring) /\ time'[b] = time[b] /\ rollover'[b] = rollover[b]
      BY <1>1, <2>1, <2>2, <2>3, <2>5
    <3> QED BY <1>1, <3>1, OtherAlarm, OtherMissed
  <2>6. \A b \in Alarm : Registered(b)' <=> Registered(b)
    BY <2>3, RegisteredNow, RegisteredNext
  <2>7. Missed' \subseteq Missed \ {x}
    <3>1. Missed \subseteq Alarm /\ Missed' \subseteq Alarm
      BY DEF Missed
    <3>2. x \notin Missed'
      <4>1. ASSUME x \in Missed' PROVE FALSE
        <5>1. next'[x] \notin {x, Null} /\ (left'[x] = 0 \/ (rollover'[x] /\ nticks' = 0))
          BY <4>1 DEF Missed, Unseen, Registered
        <5>2. Registered(x)
          BY <2>1, <5>1 DEF Registered
        <5> QED BY <2>2, <2>4, <5>1, <5>2
      <4> QED BY <4>1
    <3> QED BY <2>5, <3>1, <3>2
  <2>8. Ahead(at.alarm, Missed)'
    <3> SUFFICES ASSUME NEW S \in SUBSET Ring, at.next \in S, Onward(S) PROVE Missed' \subseteq S
      BY <1>2, <2>1, <2>3 DEF Ahead, Onward
    <3> QED BY <1>1, <2>7 DEF Ahead
  <2>9. ASSUME NEW b \in Alarm, Registered(b)' PROVE left'[b] >= 0
    BY <1>1, <2>2, <2>4, <2>5, <2>6, <2>9
  <2>10. TimesInv'
    BY <1>2, <2>8, <2>9 DEF TimesInv, InCallback
  <2>11. CountsDown
    <3>1. CASE Registered(x)
      <4>1. left' = [left EXCEPT ![x] = p]
        BY <1>1, <2>4, <2>5, <3>1 DEF left
      <4>2. Timers!Call(x)
        BY <1>1, <1>4, <3>1, <4>1 DEF Timers!Call
      <4> QED BY <1>1, <4>2 DEF CountsDown, Timers!Next
    <3>2. CASE ~Registered(x)
      <4>1. left'[x] = 2 * Width /\ left[x] = 2 * Width
        BY <1>1, <2>1, <3>2 DEF left, Registered
      <4>2. \A b \in Alarm : left'[b] = left[b]
        BY <2>5, <4>1
      <4> QED BY <4>2 DEF CountsDown, left
    <3> QED BY <3>1, <3>2
  <2> QED BY <2>10, <2>11
<1> QED BY <1>3, <1>4

LEMMA TickEndOnTime ==
    ASSUME OnTimeInv, TickEnd
    PROVE  TimesInv' /\ CountsDown
<1>1. /\ AlarmTypeOK /\ TimesInv /\ Ahead(alt_alarm_list, Missed) /\ at'.pc = "idle"
      /\ UNCHANGED <<next, previous, time, rollover, nticks>>
  BY DEF TickEnd, OnTimeInv, WalkInv, TimesInv, AlarmTypeOK
<1>2. Missed = {}
  <2>1. Onward({alt_alarm_list}) /\ {alt_alarm_list} \in SUBSET Ring
    BY DEF Onward, Ring
  <2>2. Missed \subseteq {alt_alarm_list}
    BY <1>1, <2>1 DEF Ahead
  <2> QED BY <2>2, AlarmAssumption DEF Missed
<1>3. Missed' = Missed /\ left' = left /\ \A b \in Alarm : Registered(b)' <=> Registered(b)
  BY <1>1 DEF Missed, Unseen, left, Beyond, Registered
<1> QED BY <1>1, <1>2, <1>3 DEF TimesInv, InCallback, CountsDown

LEMMA NextOnTime ==
    ASSUME ~StopNext, Delays \subseteq 0..(Width - 2), OnTimeInv, [AlarmNext]_alarmVars
    PROVE  OnTimeInv' /\ CountsDown
<1>1. WalkInv'
  BY NextWalk DEF OnTimeInv
<1>2. CASE AlarmNext
  <2>1. TimesInv' /\ CountsDown
    BY <1>2, StartOnTime, StopOnTime, TickOnTime, VisitOnTime, ReturnOnTime, TickEndOnTime
       DEF AlarmNext, Loop
  <2> QED BY <1>1, <2>1 DEF OnTimeInv
<1>3. CASE UNCHANGED alarmVars
  <2>1. UNCHANGED <<next, previous, time, rollover, nticks, at>>
    BY <1>3 DEF alarmVars
  <2>2. /\ Missed' = Missed /\ left' = left /\ Ring' = Ring
        /\ \A b \in Node : Registered(b)' <=> Registered(b)
    BY <2>1 DEF Missed, Unseen, left, Beyond, Registered, Ring
  <2>3. \A x \in Node, T \in SUBSET Alarm : Ahead(x, T)' <=> Ahead(x, T)
    BY <2>1, <2>2 DEF Ahead, Onward
  <2>4. at.alarm \in Node /\ at.next \in Node /\ Missed \in SUBSET Alarm /\ Missed \ {at.alarm} \in SUBSET Alarm
        /\ Alarm \subseteq Node
    BY DEF OnTimeInv, WalkInv, AlarmTypeOK, Missed, Node
  <2>5. TimesInv'
    BY <2>1, <2>2, <2>3, <2>4 DEF OnTimeInv, TimesInv, InCallback, Ahead, Onward
  <2> QED BY <1>1, <2>2, <2>5 DEF OnTimeInv, CountsDown
<1> QED BY <1>2, <1>3

LEMMA InitOnTime == AlarmInit => OnTimeInv /\ Timers!Init
<1> SUFFICES ASSUME AlarmInit PROVE OnTimeInv /\ Timers!Init
  OBVIOUS
<1>1. \A a \in Alarm : ~Registered(a)
  BY DEF AlarmInit, Registered, Node
<1>2. Missed = {} /\ left = [a \in Alarm |-> 2 * Width]
  BY <1>1 DEF Missed, Unseen, left
<1>3. at.pc = "idle"
  BY DEF AlarmInit
<1>4. TimesInv
  BY <1>1, <1>2, <1>3 DEF TimesInv, InCallback
<1> QED BY <1>2, <1>4, InitWalk DEF OnTimeInv, Timers!Init

(* The alarms of the HAL are countdowns: each is called when its ticks are *)
(* over and before another tick counts, across the wrap of the counter and *)
(* for callbacks that start and stop alarms.  The longest delay a word     *)
(* holds, Width - 1 ticks, is left out: alt_alarm_start adds one, and the  *)
(* deadline is the tick that has just been.                                *)
THEOREM AlarmsOnTime ==
    ASSUME ~StopNext, Delays \subseteq 0..(Width - 2)
    PROVE  AlarmSpec => OnTime
<1>1. OnTimeInv /\ [AlarmNext]_alarmVars => OnTimeInv' /\ [Timers!Next]_left
  BY NextOnTime DEF CountsDown
<1>2. AlarmInit => OnTimeInv /\ Timers!Init
  BY InitOnTime
<1> QED BY <1>1, <1>2, PTL DEF AlarmSpec, OnTime, Timers!Spec


-----------------------------------------------------------------------------
(* The time of day.  Ticks are whole seconds and what is left of them.     *)
LEMMA TickParts ==
    ASSUME NEW r \in Nat, r >= 1, ALT_US % r = 0, NEW n \in Nat
    PROVE  /\ ALT_US \div r \in Nat /\ ALT_US \div r >= 1
           /\ n * (ALT_US \div r) \in Nat
           /\ n \div r \in Nat
           /\ (n * (ALT_US \div r)) % ALT_US \in 0..(ALT_US - 1)
           /\ ALT_US * (n \div r) + ((n * (ALT_US \div r)) % ALT_US) = n * (ALT_US \div r)
<1> DEFINE q == ALT_US \div r
           d == n \div r
           m == n % r
<1>1. ALT_US \in Nat /\ ALT_US >= 1
  BY TimeAssumption
<1>2. q \in Nat /\ ALT_US = r * q + 0
  BY <1>1, Division
<1>3. d \in Nat /\ m \in 0..(r - 1) /\ n = r * d + m
  BY Division
<1> HIDE DEF q, d, m
<1>4. q >= 1
  <2>1. q # 0
    <3>1. r * 0 = 0
      OBVIOUS
    <3> QED BY <1>1, <1>2, <3>1
  <2> QED BY <1>2, <2>1
<1>5. m * q \in 0..(ALT_US - 1)
  <2>1. m * q \in Nat /\ r * q \in Nat
    BY <1>2, <1>3, ProductNat
  <2>2. (r - 1 - m) * q \in Nat
    <3>1. r - 1 - m \in Nat
      BY <1>3
    <3> QED BY <1>2, <3>1, ProductNat
  <2>3. (r - 1 - m) * q = r * q - q - m * q
    BY <1>2, <1>3, SMTT(30)
  <2> QED BY <1>2, <1>4, <2>1, <2>2, <2>3
<1>6. n * q = ALT_US * d + m * q
  <2>1. (r * d + m) * q = (r * q) * d + m * q
    BY <1>2, <1>3, SMTT(30)
  <2>2. ALT_US = r * q
    <3>1. r * q \in Nat
      BY <1>2, ProductNat
    <3> QED BY <1>2, <3>1
  <2> QED BY <1>3, <2>1, <2>2
<1>7. (n * q) % ALT_US = m * q
  <2> DEFINE w == m * q
  <2>1. w \in 0..(ALT_US - 1) /\ n * q = ALT_US * d + w
    BY <1>5, <1>6
  <2> HIDE DEF w
  <2>2. (ALT_US * d + w) % ALT_US = w
    BY <1>1, <1>3, <2>1, Remainder
  <2>3. (n * q) % ALT_US = w
    BY <2>1, <2>2
  <2> QED BY <2>3 DEF w
<1>8. n * q \in Nat
  BY <1>2, ProductNat
<1>9. /\ q \in Nat /\ q >= 1 /\ n * q \in Nat /\ d \in Nat
      /\ (n * q) % ALT_US \in 0..(ALT_US - 1) /\ ALT_US * d + ((n * q) % ALT_US) = n * q
  <2> DEFINE x == n * q
             w == m * q
             y == ALT_US * d
  <2>1. x % ALT_US = w /\ w \in 0..(ALT_US - 1) /\ x = y + w /\ x \in Nat /\ y \in Nat
    BY <1>1, <1>3, <1>5, <1>6, <1>7, <1>8, ProductNat
  <2> HIDE DEF x, w, y
  <2>2. x % ALT_US \in 0..(ALT_US - 1) /\ y + (x % ALT_US) = x
    BY <2>1
  <2> QED BY <1>2, <1>3, <1>4, <2>1, <2>2 DEF x, y
<1> QED BY <1>9 DEF q, d

(* How far n ticks are from a seconds and b microseconds, tick_rate times. *)
Drift(r, n, b) == r * (ALT_US * (n \div r) + b) - n * ALT_US

LEMMA DriftUnderSecond ==
    ASSUME NEW r \in Nat, r >= 1, NEW n \in Nat, NEW b \in 0..(ALT_US - 1)
    PROVE  /\ Drift(r, n, b) \in Int /\ ALT_US * r \in Nat
           /\ -(ALT_US * r) < Drift(r, n, b) /\ Drift(r, n, b) < ALT_US * r
<1>1. ALT_US \in Nat /\ ALT_US >= 1
  BY TimeAssumption
<1> DEFINE a == n \div r
           m == n % r
<1>2. a \in Nat /\ m \in 0..(r - 1) /\ n = r * a + m
  BY Division
<1>3. Drift(r, n, b) = r * (ALT_US * a + b) - n * ALT_US
  BY DEF Drift
<1> HIDE DEF a, m
<1>4. r * (ALT_US * a + b) = r * (ALT_US * a) + r * b
  BY <1>1, <1>2, SMTT(30)
<1>5. (r * a + m) * ALT_US = r * (ALT_US * a) + m * ALT_US
  BY <1>1, <1>2, SMTT(30)
<1>6. /\ r * (ALT_US * a) \in Nat /\ r * b \in Nat /\ m * ALT_US \in Nat /\ ALT_US * r \in Nat
      /\ r * (ALT_US - 1 - b) \in Nat /\ (r - 1 - m) * ALT_US \in Nat
  <2>1. ALT_US * a \in Nat /\ ALT_US - 1 - b \in Nat /\ r - 1 - m \in Nat /\ b \in Nat /\ m \in Nat
    BY <1>1, <1>2, ProductNat
  <2> QED BY <1>1, <2>1, ProductNat
<1>7. r * (ALT_US - 1 - b) = ALT_US * r - r - r * b
  BY <1>1, SMTT(30)
<1>8. (r - 1 - m) * ALT_US = ALT_US * r - ALT_US - m * ALT_US
  BY <1>1, <1>2, SMTT(30)
<1>9. Drift(r, n, b) = r * b - m * ALT_US
  BY <1>2, <1>3, <1>4, <1>5, <1>6
<1> QED BY <1>1, <1>6, <1>7, <1>8, <1>9

(* A tick that is a whole number of microseconds leaves nothing over.      *)
LEMMA NoDrift ==
    ASSUME NEW r \in Nat, r >= 1, ALT_US % r = 0, NEW n \in Nat
    PROVE  Drift(r, n, (n * (ALT_US \div r)) % ALT_US) = 0
<1> DEFINE q == ALT_US \div r
           a == n \div r
           b == (n * q) % ALT_US
<1>1. q \in Nat /\ n * q \in Nat /\ a \in Nat /\ b \in 0..(ALT_US - 1) /\ ALT_US * a + b = n * q
  BY TickParts
<1>2. ALT_US \in Nat /\ ALT_US = r * q
  <2>1. ALT_US \in Nat
    BY TimeAssumption
  <2>2. ALT_US = r * q + 0
    BY <2>1, Division
  <2>3. r * q \in Nat
    BY <1>1, ProductNat
  <2> QED BY <2>1, <2>2, <2>3
<1>3. Drift(r, n, b) = r * (ALT_US * a + b) - n * ALT_US
  BY DEF Drift
<1> HIDE DEF q, a, b
<1>4. r * (n * q) = n * (r * q)
  BY <1>1, SMTT(30)
<1>5. n * ALT_US \in Nat
  BY <1>2, ProductNat
<1>6. Drift(r, n, b) = 0
  <2> DEFINE x == n * ALT_US
  <2>1. r * (ALT_US * a + b) = x
    BY <1>1, <1>2, <1>4
  <2>2. Drift(r, n, b) = x - x
    BY <1>3, <2>1
  <2> HIDE DEF x
  <2>3. x \in Nat
    BY <1>5 DEF x
  <2> QED BY <2>2, <2>3
<1> QED BY <1>6 DEF b, q

LEMMA SecondsGrow ==
    ASSUME NEW r \in Nat, r >= 1, NEW n \in Nat, NEW k \in Nat, k <= n
    PROVE  k \div r <= n \div r
<1> DEFINE a == n \div r
           m == n % r
           c == k \div r
           l == k % r
<1>1. /\ a \in Nat /\ m \in 0..(r - 1) /\ n = r * a + m
      /\ c \in Nat /\ l \in 0..(r - 1) /\ k = r * c + l
  BY Division
<1> HIDE DEF a, m, c, l
<1>2. ASSUME a < c PROVE FALSE
  <2>1. r * (c - a - 1) \in Nat
    <3>1. c - a - 1 \in Nat
      BY <1>1, <1>2
    <3> QED BY <3>1, ProductNat
  <2>2. r * (c - a - 1) = r * c - r * a - r
    BY <1>1, SMTT(30)
  <2>3. r * c \in Nat /\ r * a \in Nat
    BY <1>1, ProductNat
  <2> QED BY <1>1, <2>1, <2>2, <2>3
<1> QED BY <1>1, <1>2 DEF a, c

TimeInv ==
    /\ alt_nticks \in 0..(TimeWidth - 1) /\ tick_rate \in Rates \cup {0}
    /\ wanted \in [t : [tv_sec : Nat, tv_usec : 0..(ALT_US - 1)], tick : Nat, over : BOOLEAN]
    /\ wanted.over \/ wanted.tick <= alt_nticks
    /\ ~Clocked => /\ alt_nticks = 0 /\ alt_resettime = wanted.t /\ wanted.tick = 0
                   /\ wanted.t = [tv_sec |-> 0, tv_usec |-> 0]
    /\ Clocked => alt_resettime =
            [tv_sec  |-> wanted.t.tv_sec - wanted.tick \div tick_rate,
             tv_usec |-> wanted.t.tv_usec
                           - (((wanted.tick * (ALT_US \div tick_rate)) % TimeWidth) % ALT_US)]

(* The two loops of gettimeofday leave the time, in microseconds, as it is *)
(* when the borrow stays within the seconds.                               *)
LEMMA Normalised ==
    ASSUME NEW sec \in Int, NEW usec \in Int, -ALT_US < usec, ALT_US * sec + usec >= 0
    PROVE  InUsec(Carry(Borrow([tv_sec |-> sec, tv_usec |-> usec]))) = ALT_US * sec + usec
<1>1. ALT_US \in Nat /\ ALT_US >= 1
  BY TimeAssumption
<1> DEFINE v == [tv_sec |-> sec, tv_usec |-> usec]
<1>2. ASSUME NEW s \in Int, NEW u \in Nat
      PROVE  InUsec(Carry([tv_sec |-> s, tv_usec |-> u])) = ALT_US * s + u
  <2> DEFINE d == u \div ALT_US
             m == u % ALT_US
  <2>1. d \in Nat /\ m \in 0..(ALT_US - 1) /\ u = ALT_US * d + m
    BY <1>1, Division
  <2>2. InUsec(Carry([tv_sec |-> s, tv_usec |-> u])) = (s + d) * ALT_US + m
    BY DEF InUsec, Carry
  <2> HIDE DEF d, m
  <2>3. (s + d) * ALT_US = ALT_US * s + ALT_US * d
    BY <1>1, <2>1, SMTT(30)
  <2>4. ALT_US * s \in Int /\ ALT_US * d \in Int
    BY <1>1, <2>1
  <2> QED BY <2>1, <2>2, <2>3, <2>4
<1>3. CASE usec >= 0
  <2>1. Borrow(v) = v /\ usec \in Nat
    BY <1>3 DEF Borrow
  <2> QED BY <1>2, <2>1
<1>4. CASE usec < 0
  <2> DEFINE r == -1 - usec
             k == (ALT_US - 1 - usec) \div ALT_US
  <2>1. r \in 0..(ALT_US - 1) /\ ALT_US - 1 - usec = ALT_US * 1 + r
    BY <1>1, <1>4
  <2>2. k = 1
    <3>1. (ALT_US * 1 + r) \div ALT_US = 1
      <4> HIDE DEF r
      <4> QED BY <1>1, <2>1, Remainder
    <3> QED BY <2>1, <3>1
  <2>3. sec >= 1
    <3>1. ASSUME sec <= 0 PROVE FALSE
      <4>1. ALT_US * (-sec) \in Nat
        <5>1. -sec \in Nat
          BY <3>1
        <5> QED BY <1>1, <5>1, ProductNat
      <4>2. ALT_US * (-sec) = -(ALT_US * sec) /\ ALT_US * sec \in Int
        BY <1>1, SMTT(30)
      <4> QED BY <1>4, <4>1, <4>2
    <3> QED BY <3>1
  <2> HIDE DEF k
  <2>4. Borrow(v) = IF usec >= 0 THEN v
                    ELSE IF sec < k THEN [tv_sec |-> 0, tv_usec |-> 0]
                    ELSE [tv_sec |-> sec - k, tv_usec |-> usec + k * ALT_US]
    BY DEF Borrow, k
  <2>5. Borrow(v) = [tv_sec |-> sec - 1, tv_usec |-> usec + ALT_US]
    <3>1. 1 * ALT_US = ALT_US /\ ~(usec >= 0) /\ ~(sec < 1)
      BY <1>1, <1>4, <2>3
    <3> HIDE DEF v
    <3> QED BY <2>2, <2>4, <3>1
  <2>6. sec - 1 \in Int /\ usec + ALT_US \in Nat
    BY <1>1
  <2>7. InUsec(Carry(Borrow(v))) = ALT_US * (sec - 1) + (usec + ALT_US)
    BY <1>2, <2>5, <2>6
  <2>8. ALT_US * (sec - 1) = ALT_US * sec - ALT_US /\ ALT_US * sec \in Int
    BY <1>1, SMTT(30)
  <2> HIDE DEF v
  <2>9. InUsec(Carry(Borrow(v))) = ALT_US * sec + usec
    BY <1>1, <2>7, <2>8
  <2> QED BY <2>9 DEF v
<1> QED BY <1>3, <1>4

(* And before that they stop at zero.                                      *)
LEMMA Stopped ==
    ASSUME NEW usec \in Int, -ALT_US < usec, usec < 0
    PROVE  InUsec(Carry(Borrow([tv_sec |-> 0, tv_usec |-> usec]))) = 0
<1>1. ALT_US \in Nat /\ ALT_US >= 1
  BY TimeAssumption
<1> DEFINE r == -1 - usec
           k == (ALT_US - 1 - usec) \div ALT_US
<1>2. r \in 0..(ALT_US - 1) /\ ALT_US - 1 - usec = ALT_US * 1 + r
  BY <1>1
<1>3. k = 1
  <2>1. (ALT_US * 1 + r) \div ALT_US = 1
    <3> HIDE DEF r
    <3> QED BY <1>1, <1>2, Remainder
  <2> QED BY <1>2, <2>1
<1> HIDE DEF r, k
<1>4. Borrow([tv_sec |-> 0, tv_usec |-> usec]) =
        IF usec >= 0 THEN [tv_sec |-> 0, tv_usec |-> usec]
        ELSE IF 0 < k THEN [tv_sec |-> 0, tv_usec |-> 0]
        ELSE [tv_sec |-> 0 - k, tv_usec |-> usec + k * ALT_US]
  BY DEF Borrow, k
<1>5. Borrow([tv_sec |-> 0, tv_usec |-> usec]) = [tv_sec |-> 0, tv_usec |-> 0]
  <2>1. ~(usec >= 0) /\ 0 < k
    BY <1>3
  <2> QED BY <1>4, <2>1
<1>6. InUsec(Carry(Borrow([tv_sec |-> 0, tv_usec |-> 0]))) = ALT_US * 0 + 0
  BY <1>1, Normalised
<1>7. Borrow([tv_sec |-> 0, tv_usec |-> 0]) = [tv_sec |-> 0, tv_usec |-> 0]
  BY DEF Borrow
<1>8. ALT_US * 0 + 0 = 0
  BY <1>1
<1> QED BY <1>5, <1>6, <1>7, <1>8

LEMMA TimeElapsed == ASSUME TimeInv PROVE Elapsed
<1> SUFFICES ASSUME Clocked, ~wanted.over
             PROVE  LET second == ALT_US * tick_rate
                        off    == IF Gained < 0 THEN -Gained ELSE Gained
                    IN  /\ Whole /\ Fits => off = 0
                        /\ Whole => off < second
                        /\ off < 2 * second
  BY DEF Elapsed
<1> DEFINE r  == tick_rate
           q  == ALT_US \div r
           n  == alt_nticks
           n0 == wanted.tick
           a  == n \div r
           b  == (n * q) % ALT_US
           a0 == n0 \div r
           b0 == ((n0 * q) % TimeWidth) % ALT_US
           ws == wanted.t.tv_sec
           wu == wanted.t.tv_usec
<1>1. /\ ALT_US \in Nat /\ ALT_US >= 1 /\ TimeWidth \in Nat /\ TimeWidth >= 1 /\ r \in Nat /\ r >= 1
      /\ n \in Nat /\ n0 \in Nat /\ n0 <= n /\ ws \in Nat /\ wu \in 0..(ALT_US - 1)
  BY TimeAssumption DEF TimeInv, Clocked
<1>2. /\ q \in Nat /\ n * q \in Nat /\ a \in Nat /\ b \in 0..(ALT_US - 1)
      /\ n0 * q \in Nat /\ a0 \in Nat /\ b0 \in 0..(ALT_US - 1) /\ a0 <= a
  <2>1. q \in Nat
    BY <1>1, Division
  <2> HIDE DEF q
  <2>2. n * q \in Nat /\ n0 * q \in Nat
    BY <1>1, <2>1, ProductNat
  <2>3. (n0 * q) % TimeWidth \in Nat
    BY <1>1, <2>2, Division
  <2>4. a \in Nat /\ a0 \in Nat /\ b \in 0..(ALT_US - 1) /\ b0 \in 0..(ALT_US - 1)
    BY <1>1, <2>2, <2>3, Division
  <2> QED BY <1>1, <2>1, <2>2, <2>4, SecondsGrow
<1>3. gettimeofday = Carry(Borrow([tv_sec |-> (ws - a0) + a, tv_usec |-> (wu - b0) + b]))
  <2>1. alt_resettime.tv_sec = ws - a0 /\ alt_resettime.tv_usec = wu - b0 /\ UsecLong = b
    <3>1. alt_resettime = [tv_sec |-> ws - a0, tv_usec |-> wu - b0]
      BY DEF TimeInv
    <3>2. UsecLong = b
      BY DEF UsecLong
    <3> HIDE DEF r, q, n, n0, a, b, a0, b0, ws, wu
    <3> QED BY <3>1, <3>2
  <2>2. gettimeofday = Carry(Borrow([tv_sec  |-> alt_resettime.tv_sec + a,
                                     tv_usec |-> alt_resettime.tv_usec + UsecLong]))
    BY DEF gettimeofday
  <2> HIDE DEF r, q, n, n0, a, b, a0, b0, ws, wu
  <2> QED BY <2>1, <2>2
<1>4. Gained = r * (InUsec(gettimeofday) - (ws * ALT_US + wu)) - (n - n0) * ALT_US
  BY DEF Gained, InUsec
<1>5. Whole => Drift(r, n, b) = 0
  <2>1. Whole => ALT_US % r = 0
    BY DEF Whole
  <2> QED BY <1>1, <2>1, NoDrift
<1>6. Whole /\ Fits => Drift(r, n0, b0) = 0
  <2>1. ASSUME Whole, Fits PROVE b0 = (n0 * q) % ALT_US
    <3>1. n0 * q < TimeWidth
      BY <2>1 DEF Fits
    <3> DEFINE x == n0 * q
    <3>2. x \in 0..(TimeWidth - 1)
      BY <1>1, <1>2, <3>1
    <3>3. b0 = (x % TimeWidth) % ALT_US
      OBVIOUS
    <3> HIDE DEF x
    <3>4. x % TimeWidth = x
      BY <1>1, <3>2, SmallRemainder
    <3> QED BY <3>3, <3>4 DEF x
  <2>2. Whole => ALT_US % r = 0
    BY DEF Whole
  <2>3. ASSUME Whole PROVE Drift(r, n0, (n0 * q) % ALT_US) = 0
    BY <1>1, <2>2, <2>3, NoDrift
  <2> QED BY <2>1, <2>3
<1>7. /\ Drift(r, n, b) = r * (ALT_US * a + b) - n * ALT_US
      /\ Drift(r, n0, b0) = r * (ALT_US * a0 + b0) - n0 * ALT_US
  BY DEF Drift
<1> DEFINE K  == Drift(r, n, b)
           K0 == Drift(r, n0, b0)
           S  == ALT_US * r
<1>8. /\ K \in Int /\ K0 \in Int /\ S \in Nat
      /\ -S < K /\ K < S /\ -S < K0 /\ K0 < S
  BY <1>1, <1>2, DriftUnderSecond
<1>9. S = ALT_US * tick_rate
  OBVIOUS
<1> HIDE DEF r, q, n, n0, a, b, a0, b0, ws, wu, K, K0, S
<1> DEFINE sec  == (ws - a0) + a
           usec == (wu - b0) + b
           x    == ALT_US * sec + usec
           w    == ws * ALT_US + wu
           g    == InUsec(gettimeofday)
<1>10. sec \in Nat /\ usec \in Int /\ -ALT_US < usec /\ x \in Int /\ w \in Nat
  <2>1. sec \in Nat /\ usec \in Int /\ -ALT_US < usec
    BY <1>1, <1>2
  <2>2. ALT_US * sec \in Nat /\ ws * ALT_US \in Nat
    BY <1>1, <2>1, ProductNat
  <2> QED BY <1>1, <2>1, <2>2
<1>11. r * (x - w) - (n - n0) * ALT_US = K - K0
  <2> DEFINE y  == ALT_US * a + b
             y0 == ALT_US * a0 + b0
  <2>1. x - w = y - y0 /\ y \in Nat /\ y0 \in Nat
    <3>1. ALT_US * sec = ws * ALT_US - ALT_US * a0 + ALT_US * a
      BY <1>1, <1>2, SMTT(30)
    <3>2. ws * ALT_US \in Nat /\ ALT_US * a0 \in Nat /\ ALT_US * a \in Nat
      BY <1>1, <1>2, ProductNat
    <3> QED BY <1>1, <1>2, <3>1, <3>2
  <2>2. K = r * y - n * ALT_US /\ K0 = r * y0 - n0 * ALT_US
    BY <1>7 DEF K, K0
  <2> HIDE DEF x, w, y, y0
  <2>3. r * (y - y0) = r * y - r * y0 /\ (n - n0) * ALT_US = n * ALT_US - n0 * ALT_US
    BY <1>1, <2>1, SMTT(30)
  <2>4. r * y \in Nat /\ r * y0 \in Nat /\ n * ALT_US \in Nat /\ n0 * ALT_US \in Nat
    BY <1>1, <2>1, ProductNat
  <2> QED BY <2>1, <2>2, <2>3, <2>4
<1>12. CASE x >= 0
  <2>1. g = x
    <3> HIDE DEF sec, usec
    <3>1. InUsec(Carry(Borrow([tv_sec |-> sec, tv_usec |-> usec]))) = ALT_US * sec + usec
      BY <1>10, <1>12, Normalised
    <3> QED BY <1>3, <3>1 DEF sec, usec
  <2>2. Gained = K - K0
    <3> HIDE DEF x, w
    <3>1. Gained = r * (g - w) - (n - n0) * ALT_US
      BY <1>4 DEF w
    <3> HIDE DEF g
    <3> QED BY <1>11, <2>1, <3>1
  <2>3. (Whole /\ Fits => K - K0 = 0) /\ (Whole => K = 0)
    BY <1>5, <1>6, <1>8 DEF K, K0
  <2> HIDE DEF x, w, g
  <2> QED BY <1>8, <1>9, <2>2, <2>3
<1>13. CASE x < 0
  <2>1. sec = 0 /\ usec < 0
    <3>1. ASSUME sec >= 1 PROVE FALSE
      <4> HIDE DEF sec, usec
      <4>1. ALT_US * (sec - 1) \in Nat
        <5>1. sec - 1 \in Nat
          BY <1>10, <3>1
        <5> QED BY <1>1, <5>1, ProductNat
      <4>2. ALT_US * (sec - 1) = ALT_US * sec - ALT_US /\ ALT_US * sec \in Nat
        BY <1>1, <1>10, ProductNat, SMTT(30)
      <4> QED BY <1>1, <1>10, <1>13, <4>1, <4>2
    <3> HIDE DEF sec, usec
    <3>2. sec = 0
      BY <1>10, <3>1
    <3>3. ALT_US * sec = 0
      BY <1>1, <3>2
    <3> QED BY <1>10, <1>13, <3>2, <3>3
  <2>2. g = 0
    <3> HIDE DEF sec, usec
    <3>1. InUsec(Carry(Borrow([tv_sec |-> 0, tv_usec |-> usec]))) = 0
      BY <1>10, <2>1, Stopped
    <3>2. [tv_sec |-> sec, tv_usec |-> usec] = [tv_sec |-> 0, tv_usec |-> usec]
      BY <2>1
    <3> QED BY <1>3, <3>1, <3>2 DEF sec, usec
  <2> HIDE DEF x, w
  <2>3. Gained = r * (g - w) - (n - n0) * ALT_US
    BY <1>4 DEF w
  <2> HIDE DEF g
  <2>4. Gained = r * (0 - w) - (n - n0) * ALT_US
    BY <2>2, <2>3
  <2>5. r * (x - w) = r * x + r * (0 - w) /\ r * (0 - w) = -(r * w)
    BY <1>1, <1>10, SMTT(30)
  <2>6. r * w \in Nat /\ (n - n0) * ALT_US \in Nat /\ r * (-x) \in Nat /\ r * x = -(r * (-x))
    <3>1. n - n0 \in Nat /\ -x \in Nat
      BY <1>1, <1>10, <1>13
    <3>2. r * w \in Nat /\ (n - n0) * ALT_US \in Nat /\ r * (-x) \in Nat
      BY <1>1, <1>10, <3>1, ProductNat
    <3>3. r * x = -(r * (-x))
      BY <1>1, <1>10, SMTT(30)
    <3> QED BY <3>2, <3>3
  <2>7. r * (-x) >= 1
    <3>1. -x - 1 \in Nat
      BY <1>10, <1>13
    <3>2. r * (-x - 1) \in Nat /\ r * (-x - 1) = r * (-x) - r
      BY <1>1, <1>10, <3>1, ProductNat, SMTT(30)
    <3> QED BY <1>1, <2>6, <3>2
  <2>8. Gained \in Int /\ Gained <= 0 /\ Gained > K - K0
    BY <1>8, <1>11, <2>4, <2>5, <2>6, <2>7
  <2>9. (Whole /\ Fits => K - K0 = 0) /\ (Whole => K = 0)
    BY <1>5, <1>6, <1>8 DEF K, K0
  <2> QED BY <1>8, <1>9, <2>8, <2>9
<1> QED BY <1>10, <1>12, <1>13

LEMMA InitTime == TimeInit => TimeInv
  BY TimeAssumption DEF TimeInit, TimeInv, Clocked

LEMMA NextTime == ASSUME TimeInv, [TimeNext]_timeVars PROVE TimeInv'
<1>1. ASSUME NEW rate \in Rates, alt_sysclk_init(rate) PROVE TimeInv'
  <2>1. /\ ~Clocked /\ Clocked' /\ tick_rate' = rate /\ rate \in Nat /\ rate >= 1
        /\ UNCHANGED <<alt_nticks, alt_resettime, wanted>>
        /\ ALT_US \in Nat /\ ALT_US >= 1 /\ TimeWidth \in Nat /\ TimeWidth >= 1
    BY <1>1, TimeAssumption DEF alt_sysclk_init, Clocked
  <2>2. alt_nticks = 0 /\ wanted.tick = 0 /\ wanted.t = [tv_sec |-> 0, tv_usec |-> 0]
        /\ alt_resettime = [tv_sec |-> 0, tv_usec |-> 0]
    BY <2>1 DEF TimeInv
  <2>3. 0 \div rate = 0 /\ ((0 * (ALT_US \div rate)) % TimeWidth) % ALT_US = 0
    <3>1. 0 \div rate = 0
      <4>1. (rate * 0 + 0) \div rate = 0
        BY <2>1, Remainder
      <4> QED BY <2>1, <4>1
    <3>2. ALT_US \div rate \in Nat
      BY <2>1, Division
    <3>3. 0 * (ALT_US \div rate) = 0 /\ 0 % TimeWidth = 0 /\ 0 % ALT_US = 0
      BY <2>1, <3>2, SmallRemainder
    <3> QED BY <3>1, <3>3
  <2> QED BY <2>1, <2>2, <2>3 DEF TimeInv
<1>2. CASE alt_tick_counts
  <2>1. /\ Clocked /\ Clocked' /\ alt_nticks \in 0..(TimeWidth - 1) /\ TimeWidth \in Nat
        /\ TimeWidth >= 1 /\ alt_nticks' = (alt_nticks + 1) % TimeWidth
        /\ wanted' = [wanted EXCEPT !.over = @ \/ alt_nticks' = 0]
        /\ UNCHANGED <<tick_rate, alt_resettime>>
    BY <1>2, TimeAssumption DEF alt_tick_counts, TimeInv, Clocked
  <2>2. /\ wanted' \in [t : [tv_sec : Nat, tv_usec : 0..(ALT_US - 1)], tick : Nat, over : BOOLEAN]
        /\ wanted'.t = wanted.t /\ wanted'.tick = wanted.tick
        /\ wanted'.over <=> (wanted.over \/ alt_nticks' = 0)
    <3>1. wanted \in [t : [tv_sec : Nat, tv_usec : 0..(ALT_US - 1)], tick : Nat, over : BOOLEAN]
      BY DEF TimeInv
    <3> QED BY <2>1, <3>1
  <2>3. alt_nticks' = 0 \/ alt_nticks' = alt_nticks + 1
    <3>1. CASE alt_nticks = TimeWidth - 1
      <4>1. (TimeWidth * 1 + 0) % TimeWidth = 0
        BY <2>1, Remainder
      <4> QED BY <2>1, <3>1, <4>1
    <3>2. CASE alt_nticks # TimeWidth - 1
      BY <2>1, <3>2, SmallRemainder
    <3> QED BY <3>1, <3>2
  <2>4. alt_nticks' \in 0..(TimeWidth - 1)
    <3>1. alt_nticks + 1 \in Nat
      BY <2>1
    <3> QED BY <2>1, <3>1, Division
  <2>5. wanted'.over \/ wanted'.tick <= alt_nticks'
    BY <2>1, <2>2, <2>3 DEF TimeInv
  <2> QED BY <2>1, <2>2, <2>4, <2>5 DEF TimeInv
<1>3. ASSUME NEW t \in Times, settimeofday(t) PROVE TimeInv'
  <2>1. /\ Clocked /\ Clocked' /\ alt_nticks \in 0..(TimeWidth - 1) /\ TimeWidth \in Nat
        /\ alt_resettime' = Offset(t)
        /\ wanted' = [t |-> t, tick |-> alt_nticks, over |-> FALSE]
        /\ UNCHANGED <<alt_nticks, tick_rate>> /\ tick_rate \in Rates
    BY <1>3, TimeAssumption DEF settimeofday, Clocked, TimeInv
  <2>2. t \in [tv_sec : Nat, tv_usec : 0..(ALT_US - 1)]
    BY TimeAssumption DEF Times
  <2>3. alt_resettime' =
          [tv_sec  |-> t.tv_sec - alt_nticks \div tick_rate,
           tv_usec |-> t.tv_usec
                         - (((alt_nticks * (ALT_US \div tick_rate)) % TimeWidth) % ALT_US)]
    BY <2>1 DEF Offset, UsecShort
  <2> QED BY <2>1, <2>2, <2>3 DEF TimeInv
<1>4. CASE UNCHANGED timeVars
  BY <1>4 DEF timeVars, TimeInv, Clocked
<1> QED BY <1>1, <1>2, <1>3, <1>4 DEF TimeNext

(* gettimeofday returns the time set and all that has elapsed since, until *)
(* the counter goes round: exactly when a tick is a whole number of        *)
(* microseconds and those of the counter fitted a word when the time was   *)
(* set, to less than a second when they did not, and to less than two at   *)
(* any rate.  For words, seconds, rates and times of any size.             *)
THEOREM TimeOfDayElapsed == TimeSpec => []Elapsed
<1>1. TimeInv => Elapsed
  BY TimeElapsed
<1>2. TimeInv /\ [TimeNext]_timeVars => TimeInv'
  BY NextTime
<1> QED BY <1>1, <1>2, InitTime, PTL DEF TimeSpec
=============================================================================
