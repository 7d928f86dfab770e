--------------------------- MODULE JtagUart_proofs ---------------------------
(***************************************************************************)
(* Proofs about JtagUart, for rings and FIFOs of every size, any timeout   *)
(* and any number of bytes: the interrupt that empties the transmit ring   *)
(* is enabled whenever the ring has something to send, and either          *)
(* direction is a stream of bytes that loses, doubles and swaps none,      *)
(* however the calls, the handler and the host interleave.                 *)
(***************************************************************************)
EXTENDS JtagUart, NumberFacts, TLAPS

(* The call has an operation and a place in it.                            *)
CallShape == {"op", "pc"} \subseteq DOMAIN call

WakeupInv == CallShape /\ NoLostWakeup

LEMMA InitInv == Init => WakeupInv
  BY DEF Init, Idle, WakeupInv, CallShape, NoLostWakeup

(* A step that moves neither the transmit ring nor the enable bits nor a   *)
(* write.                                                                  *)
LEMMA Elsewhere ==
    ASSUME WakeupInv, tx_in' = tx_in, tx_out' = tx_out, irq_enable' = irq_enable,
           {"op", "pc"} \subseteq DOMAIN call', Filling => Filling'
    PROVE  WakeupInv'
  BY DEF WakeupInv, CallShape, NoLostWakeup

LEMMA HostInv == WakeupInv /\ Host => WakeupInv'
<1> SUFFICES ASSUME WakeupInv, Host PROVE WakeupInv'
  OBVIOUS
<1>1. tx_in' = tx_in /\ tx_out' = tx_out /\ irq_enable' = irq_enable /\ call' = call
  BY DEF Host, HostSend, HostPause, HostReceive, tx, driver
<1> QED BY <1>1, Elsewhere DEF WakeupInv, CallShape, Filling

(* The handler turns the interrupt off only when it has found the ring     *)
(* empty.                                                                  *)
LEMMA IsrInv == WakeupInv /\ Isr => WakeupInv'
<1> SUFFICES ASSUME WakeupInv, Isr PROVE WakeupInv'
  OBVIOUS
<1>0. call' = call /\ tx_in' = tx_in
  BY DEF Isr, IsrEnter, IsrControl, IsrReceive, IsrReceiveFull, IsrTransmit,
         IsrTransmitDone, tx
<1>1. CallShape'
  BY <1>0 DEF WakeupInv, CallShape
<1>2. CASE IsrEnter \/ IsrControl \/ IsrReceive
  <2>1. tx_out' = tx_out /\ irq_enable' = irq_enable
    BY <1>2 DEF IsrEnter, IsrControl, IsrReceive, tx, driver
  <2> QED BY <1>0, <1>1, <2>1, Elsewhere DEF WakeupInv, CallShape, Filling
<1>3. CASE IsrReceiveFull
  <2>1. tx_out' = tx_out /\ ("WE" \in irq_enable => "WE" \in irq_enable')
    BY <1>3 DEF IsrReceiveFull, tx
  <2> QED BY <1>0, <1>1, <2>1 DEF WakeupInv, NoLostWakeup, Filling
<1>4. CASE IsrTransmit
  <2>1. tx_out # tx_in /\ irq_enable' = irq_enable
    BY <1>4 DEF IsrTransmit, driver
  <2> QED BY <1>0, <1>1, <2>1 DEF WakeupInv, NoLostWakeup, Filling
<1>5. CASE IsrTransmitDone
  <2>1. tx_out' = tx_out
    BY <1>5 DEF IsrTransmitDone, tx
  <2>2. CASE isr.space > 0
    <3>1. tx_out = tx_in
      BY <1>5, <2>2 DEF IsrTransmitDone
    <3> QED BY <1>0, <1>1, <2>1, <3>1 DEF WakeupInv, NoLostWakeup
  <2>3. CASE ~(isr.space > 0)
    <3>1. irq_enable' = irq_enable
      BY <1>5, <2>3 DEF IsrTransmitDone
    <3> QED BY <1>0, <1>1, <2>1, <3>1 DEF WakeupInv, NoLostWakeup, Filling
  <2> QED BY <2>2, <2>3
<1> QED BY <1>2, <1>3, <1>4, <1>5 DEF Isr

(* Reads, closes and the calls that do not wait touch neither the ring nor *)
(* the interrupt that empties it.                                          *)
LEMMA OtherCallsInv ==
    WakeupInv /\ (Timeout \/ Begin \/ SetTimeout \/ GetConnected \/ Close) => WakeupInv'
<1> SUFFICES ASSUME WakeupInv, Timeout \/ Begin \/ SetTimeout \/ GetConnected \/ Close
             PROVE  WakeupInv'
  OBVIOUS
<1>1. tx_in' = tx_in /\ tx_out' = tx_out /\ irq_enable' = irq_enable
  BY DEF Timeout, Begin, SetTimeout, GetConnected, Close, tx, driver
<1>2. call' = call \/ (~Filling /\ {"op", "pc"} \subseteq DOMAIN call')
  <2>1. CASE Timeout \/ SetTimeout \/ GetConnected
    BY <2>1 DEF Timeout, SetTimeout, GetConnected
  <2>2. CASE Begin
    BY <2>2 DEF Begin, At, Filling, Idle
  <2>3. CASE Close
    BY <2>3 DEF Close, At, Filling, Return, Idle
  <2> QED BY <2>1, <2>2, <2>3
<1> QED BY <1>1, <1>2, Elsewhere DEF WakeupInv, CallShape, Filling

LEMMA ReadInv ==
    WakeupInv /\ (\/ ReadSample \/ ReadCopy \/ ReadAdvance \/ ReadSpin \/ ReadLook
                  \/ ReadFinish) => WakeupInv'
<1> SUFFICES ASSUME WakeupInv, \/ ReadSample \/ ReadCopy \/ ReadAdvance
                               \/ ReadSpin \/ ReadLook \/ ReadFinish
             PROVE  WakeupInv'
  OBVIOUS
<1>1. tx_in' = tx_in /\ tx_out' = tx_out /\ ~Filling
  BY DEF ReadSample, ReadCopy, ReadAdvance, ReadSpin, ReadLook, ReadFinish, tx, At, Filling
<1>2. "WE" \in irq_enable => "WE" \in irq_enable'
  BY DEF ReadSample, ReadCopy, ReadAdvance, ReadSpin, ReadLook, ReadFinish, driver
<1>3. {"op", "pc"} \subseteq DOMAIN call'
  <2>0. "op" \in DOMAIN call /\ "pc" \in DOMAIN call
    BY DEF WakeupInv, CallShape
  <2>1. CASE ReadSample
    BY <2>0, <2>1 DEF ReadSample
  <2>2. CASE ReadCopy
    BY <2>0, <2>2 DEF ReadCopy
  <2>3. CASE ReadAdvance \/ ReadSpin \/ ReadLook
    BY <2>0, <2>3 DEF ReadAdvance, ReadSpin, ReadLook
  <2>4. CASE ReadFinish
    BY <2>4 DEF ReadFinish, Return, Idle
  <2> QED BY <2>1, <2>2, <2>3, <2>4
<1> QED BY <1>1, <1>2, <1>3 DEF WakeupInv, CallShape, NoLostWakeup

(* A write turns the interrupt on after it has filled the ring for the     *)
(* last time, whatever happened in between.                                *)
LEMMA WriteInv ==
    WakeupInv /\ (\/ WriteSample \/ WriteCopy \/ WriteAdvance \/ WriteKick
                  \/ WriteSpin \/ WriteLook \/ WriteFinish) => WakeupInv'
<1> SUFFICES ASSUME WakeupInv, \/ WriteSample \/ WriteCopy \/ WriteAdvance \/ WriteKick
                               \/ WriteSpin \/ WriteLook \/ WriteFinish
             PROVE  WakeupInv'
  OBVIOUS
<1>0. "op" \in DOMAIN call /\ "pc" \in DOMAIN call
  BY DEF WakeupInv, CallShape
<1>1. {"op", "pc"} \subseteq DOMAIN call'
  <2>1. CASE WriteSample
    BY <1>0, <2>1 DEF WriteSample
  <2>2. CASE WriteCopy
    BY <1>0, <2>2 DEF WriteCopy
  <2>3. CASE WriteAdvance \/ WriteKick \/ WriteSpin \/ WriteLook
    BY <1>0, <2>3 DEF WriteAdvance, WriteKick, WriteSpin, WriteLook
  <2>4. CASE WriteFinish
    BY <2>4 DEF WriteFinish, Return, Idle
  <2> QED BY <2>1, <2>2, <2>3, <2>4
<1>2. CASE WriteSample
  <2>1. call'.op = "write" /\ call'.pc \in {"take", "kick"}
    BY <1>0, <1>2 DEF WriteSample, At
  <2> QED BY <1>1, <2>1 DEF WakeupInv, CallShape, NoLostWakeup, Filling
<1>3. CASE WriteCopy
  <2>1. call'.op = "write" /\ call'.pc = "advance"
    BY <1>0, <1>3 DEF WriteCopy, At
  <2> QED BY <1>1, <2>1 DEF WakeupInv, CallShape, NoLostWakeup, Filling
<1>4. CASE WriteAdvance
  <2>1. call'.op = "write" /\ call'.pc = "copy"
    BY <1>0, <1>4 DEF WriteAdvance, At
  <2> QED BY <1>1, <2>1 DEF WakeupInv, CallShape, NoLostWakeup, Filling
<1>5. CASE WriteKick
  <2>1. "WE" \in irq_enable'
    BY <1>5 DEF WriteKick
  <2> QED BY <1>1, <2>1 DEF WakeupInv, CallShape, NoLostWakeup
<1>6. CASE WriteSpin \/ WriteLook \/ WriteFinish
  <2>1. ~Filling /\ tx_in' = tx_in /\ tx_out' = tx_out /\ irq_enable' = irq_enable
    BY <1>6 DEF WriteSpin, WriteLook, WriteFinish, At, Filling, tx, driver
  <2> QED BY <1>1, <2>1, Elsewhere
<1> QED BY <1>2, <1>3, <1>4, <1>5, <1>6

LEMMA StepInv == WakeupInv /\ [Next]_vars => WakeupInv'
<1>1. WakeupInv /\ UNCHANGED vars => WakeupInv'
  BY DEF WakeupInv, CallShape, NoLostWakeup, Filling, vars, tx, driver
<1> QED BY <1>1, HostInv, IsrInv, OtherCallsInv, ReadInv, WriteInv DEF Next, InCall

(* A byte in the transmit ring is never forgotten: the device interrupts   *)
(* as soon as it has space, or the write that put the byte there has yet   *)
(* to reach the lines of altera_avalon_jtag_uart_write.c that set WE.      *)
THEOREM JtagNoLostWakeup == Spec => []NoLostWakeup
<1>1. WakeupInv => NoLostWakeup
  BY DEF WakeupInv
<1> QED BY <1>1, InitInv, StepInv, PTL DEF Spec

-----------------------------------------------------------------------------
(* The bytes in a ring, and the place of the k-th of them.                 *)
Count(in, out) == IF in >= out THEN in - out ELSE in + BufLen - out
Cell(out, k)   == IF out + k < BufLen THEN out + k ELSE out + k - BufLen

In(op, pcs) == call.op = op /\ call.pc \in pcs

(* A read that has sampled the ring holds bytes that stay there; a write   *)
(* holds room that nobody else fills.                                      *)
ReadGrip ==
    In("read", {"take", "advance"}) =>
        /\ call.out = rx_out /\ call.n >= 1 /\ call.out + call.n <= BufLen
        /\ call.n <= Count(rx_in, rx_out)
        /\ call.pc = "take" => call.n <= call.left

WriteGrip ==
    In("write", {"take", "advance"}) =>
        /\ call.in = tx_in /\ call.n >= 1 /\ call.in + call.n <= BufLen
        /\ call.n + Count(tx_in, tx_out) < BufLen
        /\ call.pc = "take" => call.n <= call.left

Grips == ReadGrip /\ WriteGrip

(* The handler never writes to a full FIFO, which would drop the byte.     *)
SpaceInv == isr.pc \in {"receive", "transmit"} => isr.space + Len(wfifo) <= Depth

(* From the program to the host: the bytes shown, those in the FIFO, those *)
(* in the ring and those just copied there follow each other.              *)
OutInv ==
    /\ accepted = Len(shown) + Len(wfifo) + Count(tx_in, tx_out)
    /\ \A i \in 1..Len(shown) : shown[i] = i
    /\ \A i \in 1..Len(wfifo) : wfifo[i] = Len(shown) + i
    /\ \A k \in 0..(Count(tx_in, tx_out) - 1) :
          tx_buf[Cell(tx_out, k)] = Len(shown) + Len(wfifo) + 1 + k
    /\ In("write", {"advance"}) =>
          \A k \in 0..(call.n - 1) : tx_buf[call.in + k] = accepted + 1 + k

(* From the host to the program: those received, those the call has        *)
(* copied, those in the ring and those in the FIFO.                        *)
Copied == IF In("read", {"advance"}) THEN call.n ELSE 0
Taken  == Len(received) + Len(call.data) - Copied
InInv ==
    /\ call.op # "read" => call.data = <<>>
    /\ sent = Taken + Count(rx_in, rx_out) + Len(rfifo)
    /\ \A i \in 1..Len(received) : received[i] = i
    /\ \A i \in 1..Len(call.data) : call.data[i] = Len(received) + i
    /\ \A k \in 0..(Count(rx_in, rx_out) - 1) :
          rx_buf[Cell(rx_out, k)] = Taken + 1 + k
    /\ \A i \in 1..Len(rfifo) : rfifo[i] = Taken + Count(rx_in, rx_out) + i

StreamInv == JtagTypeOK /\ Grips /\ SpaceInv /\ OutInv /\ InInv
-----------------------------------------------------------------------------
(* The rings: indices wrap at BufLen.                                      *)
LEMMA Sizes == BufLen \in Nat /\ BufLen >= 2 /\ Depth \in Nat /\ Depth >= 1
  BY SizesAssumption

LEMMA WrapValue ==
    ASSUME NEW i \in 0..(2 * BufLen - 1)
    PROVE  Wrap(i) = IF i < BufLen THEN i ELSE i - BufLen
<1>1. CASE i < BufLen
  <2>1. i \in 0..(BufLen - 1)
    BY <1>1, Sizes
  <2> QED BY <1>1, <2>1, Sizes, SmallRemainder DEF Wrap
<1>2. CASE i >= BufLen
  <2>1. i - BufLen \in 0..(BufLen - 1) /\ BufLen * 1 + (i - BufLen) = i
    BY <1>2, Sizes
  <2>2. (BufLen * 1 + (i - BufLen)) % BufLen = i - BufLen
    BY <2>1, Sizes, Remainder
  <2>3. i % BufLen = i - BufLen
    BY <2>1, <2>2
  <2> QED BY <1>2, <2>3, Sizes DEF Wrap
<1> QED BY <1>1, <1>2, Sizes

LEMMA Wrapping ==
    ASSUME NEW i \in Index, NEW n \in 1..BufLen
    PROVE  Wrap(i + n) \in Index
<1>1. Wrap(i + n) = IF i + n < BufLen THEN i + n ELSE i + n - BufLen
  BY Sizes, WrapValue DEF Index
<1> QED BY <1>1, Sizes DEF Index

LEMMA Stepping == ASSUME NEW i \in Index PROVE Wrap(i + 1) \in Index
<1>1. 1 \in 1..BufLen
  BY Sizes
<1> QED BY <1>1, Wrapping

LEMMA CountRange ==
    ASSUME NEW in \in Index, NEW out \in Index
    PROVE  /\ Count(in, out) \in 0..(BufLen - 1)
           /\ Count(in, out) = 0 <=> in = out
           /\ \A k \in 0..(BufLen - 1) : Cell(out, k) \in Index
  BY Sizes DEF Count, Cell, Index

(* A byte put into a ring that is not full goes behind the others.         *)
LEMMA PutOne ==
    ASSUME NEW in \in Index, NEW out \in Index, ~Full(in, out)
    PROVE  /\ Wrap(in + 1) \in Index
           /\ Count(in, out) < BufLen - 1
           /\ Count(Wrap(in + 1), out) = Count(in, out) + 1
           /\ Cell(out, Count(in, out)) = in
           /\ \A k \in 0..(Count(in, out) - 1) : Cell(out, k) # in
<1>1. Wrap(in + 1) = IF in + 1 < BufLen THEN in + 1 ELSE in + 1 - BufLen
  BY Sizes, WrapValue DEF Index
<1> QED BY <1>1, Sizes DEF Index, Count, Cell, Full

(* n bytes that do not wrap are taken from the front.                      *)
LEMMA TakeSome ==
    ASSUME NEW in \in Index, NEW out \in Index, NEW n \in 1..BufLen,
           n <= Count(in, out), out + n <= BufLen
    PROVE  /\ Wrap(out + n) \in Index
           /\ Count(in, Wrap(out + n)) = Count(in, out) - n
           /\ \A k \in 0..(Count(in, out) - n - 1) :
                 Cell(Wrap(out + n), k) = Cell(out, k + n)
           /\ \A k \in 0..(n - 1) : Cell(out, k) = out + k
<1>1. Wrap(out + n) = IF out + n < BufLen THEN out + n ELSE out + n - BufLen
  BY Sizes, WrapValue DEF Index
<1> QED BY <1>1, Sizes DEF Index, Count, Cell

(* n bytes that do not wrap are put behind the others, into cells that     *)
(* none of the others has.                                                 *)
LEMMA PutSome ==
    ASSUME NEW in \in Index, NEW out \in Index, NEW n \in 1..BufLen,
           in + n <= BufLen, n + Count(in, out) < BufLen
    PROVE  /\ Wrap(in + n) \in Index
           /\ Count(Wrap(in + n), out) = Count(in, out) + n
           /\ \A k \in 0..(n - 1) : Cell(out, Count(in, out) + k) = in + k
           /\ \A k \in 0..(Count(in, out) - 1) :
                 Cell(out, k) \notin in..(in + n - 1)
<1>1. Wrap(in + n) = IF in + n < BufLen THEN in + n ELSE in + n - BufLen
  BY Sizes, WrapValue DEF Index
<1> QED BY <1>1, Sizes DEF Index, Count, Cell

(* What a call may read or write without wrapping.                         *)
LEMMA Samples ==
    ASSUME NEW in \in Index, NEW out \in Index
    PROVE  /\ Readable(in, out) \in 0..BufLen
           /\ out + Readable(in, out) <= BufLen
           /\ Readable(in, out) <= Count(in, out)
           /\ Writable(in, out) \in 0..BufLen
           /\ in + Writable(in, out) <= BufLen
           /\ Writable(in, out) + Count(in, out) < BufLen
  BY Sizes DEF Index, Count, Readable, Writable
-----------------------------------------------------------------------------
(* Lists of bytes.                                                         *)
LEMMA Appending ==
    ASSUME NEW s \in Seq(Nat), NEW b \in Nat
    PROVE  /\ Append(s, b) \in Seq(Nat) /\ Len(Append(s, b)) = Len(s) + 1
           /\ Append(s, b)[Len(s) + 1] = b
           /\ \A i \in 1..Len(s) : Append(s, b)[i] = s[i]
  OBVIOUS

LEMMA Heading ==
    ASSUME NEW s \in Seq(Nat), s # <<>>
    PROVE  /\ Len(s) \in Nat \ {0} /\ Head(s) = s[1] /\ Head(s) \in Nat
           /\ Tail(s) \in Seq(Nat) /\ Len(Tail(s)) = Len(s) - 1
           /\ \A i \in 1..(Len(s) - 1) : Tail(s)[i] = s[i + 1]
  OBVIOUS

LEMMA Joining ==
    ASSUME NEW s \in Seq(Nat), NEW t \in Seq(Nat)
    PROVE  /\ s \o t \in Seq(Nat) /\ Len(s \o t) = Len(s) + Len(t)
           /\ \A i \in 1..Len(s) : (s \o t)[i] = s[i]
           /\ \A i \in 1..Len(t) : (s \o t)[Len(s) + i] = t[i]
  OBVIOUS

LEMMA Listing ==
    ASSUME NEW n \in Nat, NEW f \in [1..n -> Nat]
    PROVE  f \in Seq(Nat) /\ Len(f) = n
  OBVIOUS
-----------------------------------------------------------------------------
(* The types.                                                              *)
LEMMA InitTypes == Init => JtagTypeOK
<1> SUFFICES ASSUME Init PROVE JtagTypeOK
  OBVIOUS
<1>1. 0 \in Index /\ [i \in Index |-> 0] \in [Index -> Nat] /\ 0 \in 0..BufLen
  BY Sizes DEF Index
<1>2. isr \in Isrs
  BY Sizes DEF Init, Off, Isrs
<1>3. call \in Calls
  BY <1>1 DEF Init, Idle, Calls
<1>4. result \in Results
  BY DEF Init, None, Results
<1>5. timeout \in 2..IntMax /\ 0 \in 0..(IntMax - 2)
  BY TimeAssumption DEF Init
<1> QED BY <1>1, <1>2, <1>3, <1>4, <1>5, Sizes DEF Init, JtagTypeOK

LEMMA HostTypes == JtagTypeOK /\ Host => JtagTypeOK'
<1> SUFFICES ASSUME JtagTypeOK, Host PROVE JtagTypeOK'
  OBVIOUS
<1>1. CASE HostSend
  <2>1. sent' \in Nat /\ rfifo' \in Seq(Nat) /\ Len(rfifo') <= Depth
    <3>1. sent \in Nat /\ rfifo \in Seq(Nat)
      BY DEF JtagTypeOK
    <3> QED BY <1>1, <3>1, Sizes, Appending DEF HostSend
  <2> QED BY <1>1, <2>1 DEF HostSend, JtagTypeOK, rx, tx, driver
<1>2. CASE HostPause
  BY <1>2 DEF HostPause, JtagTypeOK, rx, tx, driver, ends
<1>3. CASE HostReceive
  <2>1. shown' \in Seq(Nat) /\ wfifo' \in Seq(Nat) /\ Len(wfifo') <= Depth
    <3>1. shown \in Seq(Nat) /\ wfifo \in Seq(Nat) /\ Len(wfifo) <= Depth
      BY DEF JtagTypeOK
    <3> QED BY <1>3, <3>1, Sizes, Appending, Heading DEF HostReceive
  <2> QED BY <1>3, <2>1 DEF HostReceive, JtagTypeOK, rx, tx, driver
<1> QED BY <1>1, <1>2, <1>3 DEF Host

LEMMA IsrTypes == JtagTypeOK /\ Isr => JtagTypeOK'
<1> SUFFICES ASSUME JtagTypeOK, Isr PROVE JtagTypeOK'
  OBVIOUS
<1>1. CASE IsrEnter
  <2>1. isr' \in Isrs
    BY <1>1 DEF IsrEnter, JtagTypeOK, Isrs
  <2> QED BY <1>1, <2>1 DEF IsrEnter, JtagTypeOK, rx, tx, driver, device, ends
<1>2. CASE IsrControl
  <2>1. wspace \in 0..Depth
    BY Sizes DEF JtagTypeOK, wspace
  <2>2. isr' \in Isrs
    BY <1>2, <2>1, Sizes DEF IsrControl, Isrs, Off, WI
  <2> QED BY <1>2, <2>2 DEF IsrControl, JtagTypeOK, rx, tx, driver, device, ends
<1>3. CASE IsrReceive
  <2>1. isr' \in Isrs
    BY <1>3 DEF IsrReceive, JtagTypeOK, Isrs
  <2>2. rx_buf' \in [Index -> Nat] /\ rx_in' \in Index
    <3>1. /\ rx_buf \in [Index -> Nat] /\ rx_in \in Index /\ rx_out \in Index
          /\ rfifo \in Seq(Nat)
      BY DEF JtagTypeOK
    <3>2. CASE rfifo = <<>>
      BY <1>3, <3>1, <3>2 DEF IsrReceive
    <3>3. CASE rfifo # <<>>
      <4>1. /\ rx_buf' = [rx_buf EXCEPT ![rx_in] = Head(rfifo)]
            /\ rx_in' = Wrap(rx_in + 1)
        BY <1>3, <3>3 DEF IsrReceive
      <4>2. Head(rfifo) \in Nat /\ Wrap(rx_in + 1) \in Index
        BY <3>1, <3>3, Heading, Stepping
      <4> QED BY <3>1, <4>1, <4>2
    <3> QED BY <3>2, <3>3
  <2>3. rfifo' \in Seq(Nat) /\ Len(rfifo') <= Depth
    <3>1. rfifo \in Seq(Nat) /\ Len(rfifo) <= Depth
      BY DEF JtagTypeOK
    <3>2. CASE rfifo = <<>>
      BY <1>3, <3>1, <3>2 DEF IsrReceive
    <3>3. CASE rfifo # <<>>
      <4>1. rfifo' = Tail(rfifo)
        BY <1>3, <3>3 DEF IsrReceive
      <4> QED BY <3>1, <3>3, <4>1, Sizes, Heading
    <3> QED BY <3>2, <3>3
  <2> QED BY <1>3, <2>1, <2>2, <2>3 DEF IsrReceive, JtagTypeOK, tx, driver, ends
<1>4. CASE IsrReceiveFull
  <2>1. isr' \in Isrs
    BY <1>4 DEF IsrReceiveFull, JtagTypeOK, Isrs
  <2> QED BY <1>4, <2>1 DEF IsrReceiveFull, JtagTypeOK, rx, tx, device, ends
<1>5. CASE IsrTransmit
  <2>1. isr' \in Isrs
    <3>0. isr \in Isrs /\ isr.space \in 0..Depth
      BY DEF JtagTypeOK, Isrs
    <3>1. isr.space - 1 \in 0..Depth
      BY <1>5, <3>0, Sizes DEF IsrTransmit
    <3>2. isr' = [isr EXCEPT !.space = isr.space - 1]
      BY <1>5 DEF IsrTransmit
    <3> QED BY <1>5, <3>0, <3>1, <3>2 DEF Isrs
  <2>2. tx_out' \in Index
    <3>1. tx_out \in Index
      BY DEF JtagTypeOK
    <3> QED BY <1>5, <3>1, Stepping DEF IsrTransmit
  <2>3. wfifo' \in Seq(Nat) /\ Len(wfifo') <= Depth
    <3>1. wfifo \in Seq(Nat) /\ Len(wfifo) <= Depth /\ tx_buf[tx_out] \in Nat
      BY DEF JtagTypeOK
    <3> QED BY <1>5, <3>1, Sizes, Appending DEF IsrTransmit
  <2> QED BY <1>5, <2>1, <2>2, <2>3 DEF IsrTransmit, JtagTypeOK, rx, driver, ends
<1>6. CASE IsrTransmitDone
  <2>1. isr' \in Isrs
    BY <1>6 DEF IsrTransmitDone, JtagTypeOK, Isrs
  <2> QED BY <1>6, <2>1 DEF IsrTransmitDone, JtagTypeOK, rx, tx, device, ends
<1> QED BY <1>1, <1>2, <1>3, <1>4, <1>5, <1>6 DEF Isr

LEMMA TimerTypes ==
    JtagTypeOK /\ (Timeout \/ SetTimeout \/ GetConnected) => JtagTypeOK'
<1> SUFFICES ASSUME JtagTypeOK, Timeout \/ SetTimeout \/ GetConnected
             PROVE  JtagTypeOK'
  OBVIOUS
<1>1. CASE Timeout
  <2>1. host_inactive' \in 0..(IntMax - 2) /\ ac' \in BOOLEAN
    <3>1. host_inactive \in 0..(IntMax - 2) /\ ac \in BOOLEAN
      BY DEF JtagTypeOK
    <3>2. CASE ac
      <4>1. host_inactive' = 0 /\ ac' = FALSE
        BY <1>1, <3>2 DEF Timeout
      <4>2. 0 \in 0..(IntMax - 2)
        BY TimeAssumption
      <4> QED BY <4>1, <4>2
    <3>3. CASE ~ac
      <4>1. /\ host_inactive' = IF host_inactive < IntMax - 2
                               THEN host_inactive + 1 ELSE host_inactive
            /\ ac' = ac
        BY <1>1, <3>3 DEF Timeout
      <4>2. host_inactive' \in 0..(IntMax - 2)
        BY <3>1, <4>1, TimeAssumption
      <4> QED BY <3>1, <4>1, <4>2
    <3> QED BY <3>2, <3>3
  <2> QED BY <1>1, <2>1 DEF Timeout, JtagTypeOK, rx, tx, ends
<1>2. CASE SetTimeout
  <2>1. timeout' \in 2..IntMax
    <3>1. timeout \in 2..IntMax
      BY DEF JtagTypeOK
    <3> QED BY <1>2, <3>1, TimeAssumption DEF SetTimeout
  <2>2. result' \in Results
    BY <1>2 DEF SetTimeout, Results
  <2> QED BY <1>2, <2>1, <2>2 DEF SetTimeout, JtagTypeOK, rx, tx, device, ends
<1>3. CASE GetConnected
  <2>1. result' \in Results
    BY <1>3 DEF GetConnected, Results
  <2> QED BY <1>3, <2>1 DEF GetConnected, JtagTypeOK, rx, tx, driver, device, ends
<1> QED BY <1>1, <1>2, <1>3

(* What a call returns.                                                    *)
LEMMA Returning ==
    ASSUME JtagTypeOK, NEW s \in {"ok", "EIO", "EWOULDBLOCK"}, NEW n \in Nat,
           Return(s, n)
    PROVE  result' \in Results /\ call' \in Calls /\ call' = Idle
<1>1. call.op \in {"none", "read", "write", "close"} /\ call.nonblock \in BOOLEAN
  BY DEF JtagTypeOK, Calls
<1>2. result' = [op |-> call.op, status |-> s, n |-> n, nonblock |-> call.nonblock]
  BY DEF Return
<1>3. result' \in Results
  BY <1>1, <1>2 DEF Results
<1>4. Idle \in Calls
  BY Sizes DEF Idle, Calls, Index
<1> QED BY <1>3, <1>4 DEF Return

LEMMA BeginTypes == JtagTypeOK /\ Begin => JtagTypeOK'
<1> SUFFICES ASSUME JtagTypeOK, Begin PROVE JtagTypeOK'
  OBVIOUS
<1>1. call' \in Calls
  <2>1. PICK op \in {"read", "write", "close"}, n \in 0..MaxCall, nb \in BOOLEAN :
          call' = [Idle EXCEPT !.op = op, !.pc = "copy", !.left = n, !.nonblock = nb]
    BY DEF Begin
  <2>2. n \in Nat
    BY CallsAssumption
  <2>3. Idle \in Calls
    BY Sizes DEF Idle, Calls, Index
  <2> QED BY <2>1, <2>2, <2>3 DEF Calls
<1>2. result' \in Results
  BY DEF Begin, None, Results
<1> QED BY <1>1, <1>2 DEF Begin, JtagTypeOK, rx, tx, driver, device, ends

LEMMA ReadTypes ==
    /\ JtagTypeOK /\ ReadGrip
    /\ ReadSample \/ ReadCopy \/ ReadAdvance \/ ReadSpin \/ ReadLook \/ ReadFinish
    => JtagTypeOK'
<1> SUFFICES ASSUME JtagTypeOK, ReadGrip,
                    \/ ReadSample \/ ReadCopy \/ ReadAdvance
                    \/ ReadSpin \/ ReadLook \/ ReadFinish
             PROVE  JtagTypeOK'
  OBVIOUS
<1>0. /\ call \in Calls /\ rx_in \in Index /\ rx_out \in Index
      /\ rx_buf \in [Index -> Nat] /\ received \in Seq(Nat)
  BY DEF JtagTypeOK
<1>1. CASE ReadSample
  <2>1. Least(Readable(rx_in, rx_out), call.left) \in 0..BufLen
    <3>1. Readable(rx_in, rx_out) \in 0..BufLen /\ call.left \in Nat
      BY <1>0, Samples DEF Calls
    <3> QED BY <3>1, Sizes DEF Least
  <2>2. call' \in Calls
    BY <1>0, <1>1, <2>1 DEF ReadSample, Calls
  <2> QED BY <1>1, <2>2 DEF ReadSample, JtagTypeOK, rx, tx, driver, device, ends
<1>2. CASE ReadCopy
  <2>1. call.n \in 1..BufLen /\ call.left - call.n \in Nat
    BY <1>0, <1>2, Sizes DEF ReadCopy, At, ReadGrip, In, Calls
  <2>2. [j \in 1..call.n |-> rx_buf[call.out + j - 1]] \in Seq(Nat)
    <3>1. call.out \in Index /\ call.out + call.n <= BufLen
      BY <1>0, <1>2 DEF ReadCopy, At, ReadGrip, In, Calls
    <3>2. ASSUME NEW j \in 1..call.n PROVE rx_buf[call.out + j - 1] \in Nat
      <4>1. call.out + j - 1 \in Index
        BY <2>1, <3>1, Sizes DEF Index
      <4> QED BY <1>0, <4>1
    <3>3. call.n \in Nat
      BY <2>1, Sizes
    <3> QED BY <3>2, <3>3
  <2>3. call.data \o [j \in 1..call.n |-> rx_buf[call.out + j - 1]] \in Seq(Nat)
    <3>1. call.data \in Seq(Nat)
      BY <1>0 DEF Calls
    <3> QED BY <2>2, <3>1, Joining
  <2>4. call' \in Calls
    BY <1>0, <1>2, <2>1, <2>3 DEF ReadCopy, Calls
  <2> QED BY <1>2, <2>4 DEF ReadCopy, JtagTypeOK, rx, tx, driver, device, ends
<1>3. CASE ReadAdvance
  <2>1. call.n \in 1..BufLen /\ call.out \in Index
    BY <1>0, <1>3, Sizes DEF ReadAdvance, At, ReadGrip, In, Calls
  <2>2. rx_out' \in Index
    BY <1>3, <2>1, Wrapping DEF ReadAdvance
  <2>3. call' \in Calls
    BY <1>0, <1>3 DEF ReadAdvance, Calls
  <2> QED BY <1>3, <2>2, <2>3 DEF ReadAdvance, JtagTypeOK, tx, driver, device, ends
<1>4. CASE ReadSpin \/ ReadLook
  <2>1. call' \in Calls
    BY <1>0, <1>4 DEF ReadSpin, ReadLook, Calls
  <2> QED BY <1>4, <2>1
          DEF ReadSpin, ReadLook, JtagTypeOK, rx, tx, driver, device, ends
<1>5. CASE ReadFinish
  <2>1. call.data \in Seq(Nat) /\ Len(call.data) \in Nat
    BY <1>0 DEF Calls
  <2>2. Status(Len(call.data)) \in {"ok", "EIO", "EWOULDBLOCK"}
    BY DEF Status
  <2>3. result' \in Results /\ call' \in Calls
    BY <1>5, <2>1, <2>2, Returning DEF ReadFinish
  <2>4. received' \in Seq(Nat)
    BY <1>0, <1>5, <2>1, Joining DEF ReadFinish
  <2> QED BY <1>5, <2>3, <2>4 DEF ReadFinish, JtagTypeOK, rx, tx, device
<1> QED BY <1>1, <1>2, <1>3, <1>4, <1>5

LEMMA WriteTypes ==
    /\ JtagTypeOK /\ WriteGrip
    /\ \/ WriteSample \/ WriteCopy \/ WriteAdvance \/ WriteKick
       \/ WriteSpin \/ WriteLook \/ WriteFinish \/ Close
    => JtagTypeOK'
<1> SUFFICES ASSUME JtagTypeOK, WriteGrip,
                    \/ WriteSample \/ WriteCopy \/ WriteAdvance \/ WriteKick
                    \/ WriteSpin \/ WriteLook \/ WriteFinish \/ Close
             PROVE  JtagTypeOK'
  OBVIOUS
<1>0. /\ call \in Calls /\ tx_in \in Index /\ tx_out \in Index
      /\ tx_buf \in [Index -> Nat] /\ accepted \in Nat
  BY DEF JtagTypeOK
<1>1. CASE WriteSample
  <2>1. Least(Writable(tx_in, tx_out), call.left) \in 0..BufLen
    <3>1. Writable(tx_in, tx_out) \in 0..BufLen /\ call.left \in Nat
      BY <1>0, Samples DEF Calls
    <3> QED BY <3>1, Sizes DEF Least
  <2>2. call' \in Calls
    BY <1>0, <1>1, <2>1 DEF WriteSample, Calls
  <2> QED BY <1>1, <2>2 DEF WriteSample, JtagTypeOK, rx, tx, driver, device, ends
<1>2. CASE WriteCopy
  <2>1. /\ call.n \in 1..BufLen /\ call.left - call.n \in Nat
        /\ call.in \in Nat /\ call.done + call.n \in Nat
    <3>1. call.in \in Index /\ call.n \in 0..BufLen /\ call.left \in Nat /\ call.done \in Nat
      BY <1>0 DEF Calls
    <3>2. call.n >= 1 /\ call.n <= call.left
      BY <1>2 DEF WriteCopy, At, WriteGrip, In
    <3> QED BY <3>1, <3>2, Sizes DEF Index
  <2>2. tx_buf' \in [Index -> Nat]
    <3>1. \A i \in Index : i \in call.in..(call.in + call.n - 1)
                              => accepted + 1 + (i - call.in) \in Nat
      <4> SUFFICES ASSUME NEW i \in Index, i \in call.in..(call.in + call.n - 1)
                   PROVE  accepted + 1 + (i - call.in) \in Nat
        OBVIOUS
      <4>1. i \in Nat /\ accepted \in Nat /\ call.in \in Nat /\ i >= call.in
        BY <1>0, <2>1, Sizes DEF Index
      <4> QED BY <4>1
    <3>2. \A i \in Index : tx_buf'[i] \in Nat
      BY <1>0, <1>2, <3>1 DEF WriteCopy
    <3> QED BY <1>2, <3>2 DEF WriteCopy
  <2>3. call' \in Calls
    BY <1>0, <1>2, <2>1 DEF WriteCopy, Calls
  <2> QED BY <1>2, <2>2, <2>3 DEF WriteCopy, JtagTypeOK, rx, driver, device, ends
<1>3. CASE WriteAdvance
  <2>1. call.n \in 1..BufLen /\ call.in \in Index
    BY <1>0, <1>3, Sizes DEF WriteAdvance, At, WriteGrip, In, Calls
  <2>2. tx_in' \in Index /\ accepted' \in Nat
    BY <1>0, <1>3, <2>1, Wrapping DEF WriteAdvance
  <2>3. call' \in Calls
    BY <1>0, <1>3 DEF WriteAdvance, Calls
  <2> QED BY <1>3, <2>2, <2>3 DEF WriteAdvance, JtagTypeOK, rx, driver, device
<1>4. CASE WriteKick
  <2>1. call' \in Calls
    BY <1>0, <1>4 DEF WriteKick, Calls
  <2> QED BY <1>4, <2>1 DEF WriteKick, JtagTypeOK, rx, tx, device, ends
<1>5. CASE WriteSpin \/ WriteLook
  <2>1. call' \in Calls
    BY <1>0, <1>5 DEF WriteSpin, WriteLook, Calls
  <2> QED BY <1>5, <2>1
          DEF WriteSpin, WriteLook, JtagTypeOK, rx, tx, driver, device, ends
<1>6. CASE WriteFinish
  <2>1. Status(call.done) \in {"ok", "EIO", "EWOULDBLOCK"} /\ call.done \in Nat
    BY <1>0 DEF Status, Calls
  <2>2. result' \in Results /\ call' \in Calls
    BY <1>6, <2>1, Returning DEF WriteFinish
  <2> QED BY <1>6, <2>2 DEF WriteFinish, JtagTypeOK, rx, tx, driver, device, ends
<1>7. CASE Close
  <2>1. result' \in Results /\ call' \in Calls
    BY <1>7, Returning DEF Close
  <2> QED BY <1>7, <2>1 DEF Close, JtagTypeOK, rx, tx, driver, device, ends
<1> QED BY <1>1, <1>2, <1>3, <1>4, <1>5, <1>6, <1>7

-----------------------------------------------------------------------------
(* What a call that has sampled a ring may rely on.                        *)
LEMMA Counts ==
    ASSUME JtagTypeOK
    PROVE  Count(rx_in, rx_out) \in 0..(BufLen - 1) /\ Count(tx_in, tx_out) \in 0..(BufLen - 1)
  BY CountRange DEF JtagTypeOK

(* The handler only adds to what a reader may take and to the room that a  *)
(* writer may fill.                                                        *)
LEMMA GripsKept ==
    ASSUME JtagTypeOK, Grips, call' = call, rx_out' = rx_out, tx_in' = tx_in,
           \/ rx_in' = rx_in
           \/ Count(rx_in', rx_out) = Count(rx_in, rx_out) + 1,
           \/ tx_out' = tx_out
           \/ Count(tx_in, tx_out') = Count(tx_in, tx_out) - 1
    PROVE  Grips'
<1>1. ReadGrip'
  <2>1. CASE rx_in' = rx_in
    BY <2>1 DEF Grips, ReadGrip, In
  <2>2. CASE Count(rx_in', rx_out) = Count(rx_in, rx_out) + 1
    <3>1. call.n <= Count(rx_in, rx_out) => call.n <= Count(rx_in', rx_out)
      <4>1. call.n \in 0..BufLen
        BY DEF JtagTypeOK, Calls
      <4>2. Count(rx_in, rx_out) \in 0..(BufLen - 1)
        BY Counts
      <4> QED BY <2>2, <4>1, <4>2, Sizes
    <3> QED BY <3>1 DEF Grips, ReadGrip, In
  <2> QED BY <2>1, <2>2
<1>2. WriteGrip'
  <2>1. CASE tx_out' = tx_out
    BY <2>1 DEF Grips, WriteGrip, In
  <2>2. CASE Count(tx_in, tx_out') = Count(tx_in, tx_out) - 1
    <3>1. call.n + Count(tx_in, tx_out) < BufLen
             => call.n + Count(tx_in, tx_out') < BufLen
      <4>1. call.n \in 0..BufLen
        BY DEF JtagTypeOK, Calls
      <4>2. Count(tx_in, tx_out) \in 0..(BufLen - 1)
        BY Counts
      <4> QED BY <2>2, <4>1, <4>2, Sizes
    <3> QED BY <3>1 DEF Grips, WriteGrip, In
  <2> QED BY <2>1, <2>2
<1> QED BY <1>1, <1>2 DEF Grips

(* Once a byte has moved on, one is gone from the transmit ring.           *)
LEMMA TakeOne ==
    ASSUME NEW in \in Index, NEW out \in Index, in # out
    PROVE  /\ Wrap(out + 1) \in Index
           /\ Count(in, out) \in 1..(BufLen - 1)
           /\ Count(in, Wrap(out + 1)) = Count(in, out) - 1
           /\ Cell(out, 0) = out
           /\ \A k \in 0..(Count(in, out) - 2) :
                 Cell(Wrap(out + 1), k) = Cell(out, k + 1)
<1>1. 1 \in 1..BufLen /\ out + 1 <= BufLen /\ out + 0 = out /\ 0 \in 0..(1 - 1)
  BY Sizes DEF Index
<1>2. Count(in, out) \in 1..(BufLen - 1)
  BY CountRange, Sizes
<1>3. Count(in, out) - 1 - 1 = Count(in, out) - 2 /\ 1 <= Count(in, out)
  BY <1>2, Sizes
<1> QED BY <1>1, <1>2, <1>3, TakeSome

LEMMA GripsStep == JtagTypeOK /\ Grips /\ Next => Grips'
<1> SUFFICES ASSUME JtagTypeOK, Grips, Next PROVE Grips'
  OBVIOUS
<1>0. /\ call \in Calls /\ rx_in \in Index /\ rx_out \in Index
      /\ tx_in \in Index /\ tx_out \in Index
  BY DEF JtagTypeOK
<1>1. CASE \/ Host \/ IsrEnter \/ IsrControl \/ IsrReceiveFull
           \/ IsrTransmitDone \/ Timeout \/ SetTimeout \/ GetConnected
  <2>1. /\ call' = call /\ rx_in' = rx_in /\ rx_out' = rx_out
        /\ tx_in' = tx_in /\ tx_out' = tx_out
    BY <1>1 DEF Host, HostSend, HostPause, HostReceive, IsrEnter, IsrControl,
                IsrReceiveFull, IsrTransmitDone, Timeout, SetTimeout,
                GetConnected, rx, tx
  <2> QED BY <2>1, GripsKept
<1>2. CASE IsrReceive
  <2>1. call' = call /\ rx_out' = rx_out /\ tx_in' = tx_in /\ tx_out' = tx_out
    BY <1>2 DEF IsrReceive, tx
  <2>2. rx_in' = rx_in \/ Count(rx_in', rx_out) = Count(rx_in, rx_out) + 1
    BY <1>0, <1>2, PutOne DEF IsrReceive
  <2> QED BY <2>1, <2>2, GripsKept
<1>3. CASE IsrTransmit
  <2>1. call' = call /\ rx_out' = rx_out /\ rx_in' = rx_in /\ tx_in' = tx_in
    BY <1>3 DEF IsrTransmit, rx
  <2>2. Count(tx_in, tx_out') = Count(tx_in, tx_out) - 1
    BY <1>0, <1>3, TakeOne DEF IsrTransmit
  <2> QED BY <2>1, <2>2, GripsKept
<1>4. CASE ReadSample
  <2>1. ~In("write", {"take", "advance"})'
    BY <1>0, <1>4 DEF ReadSample, At, In, Calls
  <2>2. ASSUME In("read", {"take", "advance"})' PROVE ReadGrip'
    <3> DEFINE n == Readable(rx_in, rx_out)
    <3>1. n > 0 /\ call.left > 0 /\ call'.n = Least(n, call.left)
      BY <1>0, <1>4, <2>2 DEF ReadSample, In, Calls
    <3>2. call'.out = rx_out /\ call'.left = call.left /\ rx_in' = rx_in /\ rx_out' = rx_out
      BY <1>0, <1>4 DEF ReadSample, Calls, rx
    <3>3. /\ n \in 0..BufLen /\ rx_out + n <= BufLen /\ n <= Count(rx_in, rx_out)
          /\ rx_out \in Nat /\ call.left \in Nat /\ Count(rx_in, rx_out) \in Nat
      BY <1>0, Samples, Counts DEF Index, Calls
    <3> HIDE DEF n
    <3>4. /\ call'.n \in Nat /\ call'.n >= 1 /\ call'.n <= n /\ call'.n <= call.left
      BY <3>1, <3>3, Sizes DEF Least
    <3>5. call'.out + call'.n <= BufLen /\ call'.n <= Count(rx_in, rx_out)
      BY <3>2, <3>3, <3>4, Sizes
    <3> QED BY <3>2, <3>4, <3>5 DEF ReadGrip
  <2> QED BY <2>1, <2>2 DEF Grips, ReadGrip, WriteGrip
<1>5. CASE WriteSample
  <2>1. ~In("read", {"take", "advance"})'
    BY <1>0, <1>5 DEF WriteSample, At, In, Calls
  <2>2. ASSUME In("write", {"take", "advance"})' PROVE WriteGrip'
    <3> DEFINE n == Writable(tx_in, tx_out)
    <3>1. n > 0 /\ call.left > 0 /\ call'.n = Least(n, call.left)
      BY <1>0, <1>5, <2>2 DEF WriteSample, In, Calls
    <3>2. call'.in = tx_in /\ call'.left = call.left /\ tx_in' = tx_in /\ tx_out' = tx_out
      BY <1>0, <1>5, <3>1 DEF WriteSample, Calls, tx
    <3>3. /\ n \in 0..BufLen /\ tx_in + n <= BufLen
          /\ n + Count(tx_in, tx_out) < BufLen
          /\ tx_in \in Nat /\ call.left \in Nat /\ Count(tx_in, tx_out) \in Nat
      BY <1>0, Samples, Counts DEF Index, Calls
    <3> HIDE DEF n
    <3>4. /\ call'.n \in Nat /\ call'.n >= 1 /\ call'.n <= n /\ call'.n <= call.left
      BY <3>1, <3>3, Sizes DEF Least
    <3>5. call'.in + call'.n <= BufLen /\ call'.n + Count(tx_in, tx_out) < BufLen
      BY <3>2, <3>3, <3>4, Sizes
    <3> QED BY <3>2, <3>4, <3>5 DEF WriteGrip
  <2> QED BY <2>1, <2>2 DEF Grips, ReadGrip, WriteGrip
<1>6. CASE ReadCopy
  <2>1. /\ call'.op = "read" /\ call'.pc = "advance" /\ call'.out = call.out
        /\ call'.n = call.n /\ In("read", {"take", "advance"})
        /\ rx_in' = rx_in /\ rx_out' = rx_out
    BY <1>0, <1>6 DEF ReadCopy, At, In, Calls, rx
  <2> QED BY <2>1 DEF Grips, ReadGrip, WriteGrip, In
<1>7. CASE WriteCopy
  <2>1. /\ call'.op = "write" /\ call'.pc = "advance" /\ call'.in = call.in
        /\ call'.n = call.n /\ In("write", {"take", "advance"})
        /\ tx_in' = tx_in /\ tx_out' = tx_out
    BY <1>0, <1>7 DEF WriteCopy, At, In, Calls, tx
  <2> QED BY <2>1 DEF Grips, ReadGrip, WriteGrip, In
<1>8. CASE \/ Begin \/ ReadAdvance \/ ReadSpin \/ ReadLook \/ ReadFinish
           \/ WriteAdvance \/ WriteKick \/ WriteSpin \/ WriteLook \/ WriteFinish
           \/ Close
  <2>1. call'.pc \notin {"take", "advance"}
    <3>1. CASE Begin
      BY <3>1 DEF Begin, Idle
    <3>2. CASE ReadAdvance \/ ReadSpin \/ ReadLook
      BY <1>0, <3>2 DEF ReadAdvance, ReadSpin, ReadLook, Calls
    <3>3. CASE WriteAdvance \/ WriteKick \/ WriteSpin \/ WriteLook
      BY <1>0, <3>3 DEF WriteAdvance, WriteKick, WriteSpin, WriteLook, Calls
    <3>4. CASE ReadFinish \/ WriteFinish \/ Close
      BY <3>4 DEF ReadFinish, WriteFinish, Close, Return, Idle
    <3> QED BY <1>8, <3>1, <3>2, <3>3, <3>4
  <2> QED BY <2>1 DEF Grips, ReadGrip, WriteGrip, In
<1> QED BY <1>1, <1>2, <1>3, <1>4, <1>5, <1>6, <1>7, <1>8 DEF Next, Isr, InCall

-----------------------------------------------------------------------------
(* The room that the handler has seen in the FIFO is there until it fills  *)
(* it itself: the host only makes more.                                    *)
LEMMA SpaceStep == JtagTypeOK /\ SpaceInv /\ Next => SpaceInv'
<1> SUFFICES ASSUME JtagTypeOK, SpaceInv, Next PROVE SpaceInv'
  OBVIOUS
<1>0. isr \in Isrs /\ wfifo \in Seq(Nat) /\ Len(wfifo) \in Nat /\ isr.space \in Nat
  <2>1. isr \in Isrs /\ wfifo \in Seq(Nat)
    BY DEF JtagTypeOK
  <2> QED BY <2>1, Sizes DEF Isrs
<1>1. CASE HostReceive
  <2>1. isr' = isr /\ Len(wfifo') = Len(wfifo) - 1
    BY <1>0, <1>1, Heading DEF HostReceive
  <2>2. isr.space + Len(wfifo) <= Depth => isr'.space + Len(wfifo') <= Depth
    BY <1>0, <2>1, Sizes
  <2> QED BY <2>1, <2>2 DEF SpaceInv
<1>2. CASE IsrControl
  <2>1. wfifo' = wfifo
    BY <1>2 DEF IsrControl, device
  <2>2. isr'.pc \in {"receive", "transmit"} => isr'.space = Depth - Len(wfifo)
    BY <1>2 DEF IsrControl, Off, wspace
  <2>3. Depth - Len(wfifo) + Len(wfifo) <= Depth
    BY <1>0, Sizes
  <2> QED BY <2>1, <2>2, <2>3 DEF SpaceInv
<1>3. CASE IsrReceive \/ IsrReceiveFull
  <2>1. wfifo' = wfifo /\ isr'.space = isr.space /\ isr.pc = "receive"
    BY <1>0, <1>3 DEF IsrReceive, IsrReceiveFull, Isrs, device
  <2> QED BY <2>1 DEF SpaceInv
<1>4. CASE IsrTransmit
  <2>1. isr.space > 0 /\ isr.space + Len(wfifo) <= Depth /\ isr'.space = isr.space - 1
    BY <1>0, <1>4 DEF IsrTransmit, SpaceInv, Isrs
  <2>2. wfifo' = Append(wfifo, tx_buf[tx_out])
    BY <1>0, <1>4, <2>1, Sizes DEF IsrTransmit
  <2>3. Len(wfifo') = Len(wfifo) + 1
    BY <1>0, <2>2
  <2>4. isr'.space + Len(wfifo') <= Depth
    BY <1>0, <2>1, <2>3, Sizes
  <2> QED BY <2>4 DEF SpaceInv
<1>5. CASE IsrEnter \/ IsrTransmitDone
  <2>1. isr'.pc = "control"
    BY <1>0, <1>5 DEF IsrEnter, IsrTransmitDone, Isrs
  <2> QED BY <2>1 DEF SpaceInv
<1>6. CASE HostSend \/ HostPause \/ Timeout \/ Begin \/ InCall \/ SetTimeout \/ GetConnected
  <2>1. isr' = isr /\ wfifo' = wfifo
    BY <1>6 DEF HostSend, HostPause, Timeout, Begin, SetTimeout, GetConnected, InCall,
                ReadSample, ReadCopy, ReadAdvance, ReadSpin, ReadLook, ReadFinish,
                WriteSample, WriteCopy, WriteAdvance, WriteKick, WriteSpin, WriteLook,
                WriteFinish, Close, device
  <2> QED BY <2>1 DEF SpaceInv
<1> QED BY <1>1, <1>2, <1>3, <1>4, <1>5, <1>6 DEF Next, Host, Isr
-----------------------------------------------------------------------------
(* From the program to the host.  A step that moves no byte that way.      *)
LEMMA OutKept ==
    ASSUME OutInv, UNCHANGED <<accepted, shown, wfifo, tx_buf, tx_in, tx_out>>,
           In("write", {"advance"})' =>
              In("write", {"advance"}) /\ call'.in = call.in /\ call'.n = call.n
    PROVE  OutInv'
  BY DEF OutInv

LEMMA OutHostReceive == JtagTypeOK /\ OutInv /\ HostReceive => OutInv'
<1> SUFFICES ASSUME JtagTypeOK, OutInv, HostReceive PROVE OutInv'
  OBVIOUS
<1> DEFINE S == Len(shown)
           W == Len(wfifo)
           C == Count(tx_in, tx_out)
<1>1. /\ shown \in Seq(Nat) /\ wfifo \in Seq(Nat) /\ wfifo # <<>>
      /\ shown' = Append(shown, Head(wfifo)) /\ wfifo' = Tail(wfifo)
      /\ UNCHANGED <<accepted, call, tx_buf, tx_in, tx_out>>
  BY DEF JtagTypeOK, HostReceive, tx
<1>2. /\ S \in Nat /\ W \in Nat \ {0} /\ C \in Nat
      /\ Len(shown') = S + 1 /\ Len(wfifo') = W - 1
      /\ \A i \in 1..S : shown'[i] = shown[i]
      /\ shown'[S + 1] = wfifo[1]
      /\ \A i \in 1..(W - 1) : wfifo'[i] = wfifo[i + 1]
  BY <1>1, Appending, Heading, Counts
<1>3. /\ accepted = S + W + C
      /\ \A i \in 1..S : shown[i] = i
      /\ \A i \in 1..W : wfifo[i] = S + i
      /\ \A k \in 0..(C - 1) : tx_buf[Cell(tx_out, k)] = S + W + 1 + k
      /\ In("write", {"advance"}) =>
            \A k \in 0..(call.n - 1) : tx_buf[call.in + k] = accepted + 1 + k
  BY DEF OutInv
<1> HIDE DEF S, W, C
<1>4. \A i \in 1..Len(shown') : shown'[i] = i
  BY <1>2, <1>3
<1>5. \A i \in 1..Len(wfifo') : wfifo'[i] = Len(shown') + i
  BY <1>2, <1>3
<1>6. accepted = Len(shown') + Len(wfifo') + C
  BY <1>2, <1>3
<1>7. \A k \in 0..(C - 1) :
         tx_buf[Cell(tx_out, k)] = Len(shown') + Len(wfifo') + 1 + k
  BY <1>2, <1>3
<1> QED BY <1>1, <1>3, <1>4, <1>5, <1>6, <1>7 DEF OutInv, C, In

LEMMA OutIsrTransmit == JtagTypeOK /\ OutInv /\ SpaceInv /\ IsrTransmit => OutInv'
<1> SUFFICES ASSUME JtagTypeOK, OutInv, SpaceInv, IsrTransmit PROVE OutInv'
  OBVIOUS
<1> DEFINE S == Len(shown)
           W == Len(wfifo)
           C == Count(tx_in, tx_out)
           b == tx_buf[tx_out]
           out == Wrap(tx_out + 1)
<1>1. /\ shown \in Seq(Nat) /\ wfifo \in Seq(Nat)
      /\ tx_in \in Index /\ tx_out \in Index /\ tx_in # tx_out
      /\ tx_out' = out
      /\ UNCHANGED <<accepted, shown, call, tx_buf, tx_in>>
  BY DEF JtagTypeOK, IsrTransmit, ends
<1>2. wfifo' = Append(wfifo, b)
  <2>1. isr.space > 0 /\ isr.space + Len(wfifo) <= Depth /\ isr.space \in 0..Depth
    BY DEF IsrTransmit, SpaceInv, JtagTypeOK, Isrs
  <2>2. Len(wfifo) < Depth
    BY <1>1, <2>1, Sizes
  <2> QED BY <2>2 DEF IsrTransmit
<1>3. /\ S \in Nat /\ W \in Nat /\ C \in Nat \ {0}
      /\ b \in Nat /\ b = tx_buf[Cell(tx_out, 0)]
      /\ Count(tx_in, out) = C - 1
      /\ \A k \in 0..(C - 2) : Cell(out, k) = Cell(tx_out, k + 1)
  <2>1. tx_buf[tx_out] \in Nat
    BY <1>1 DEF JtagTypeOK
  <2>2. /\ C \in 1..(BufLen - 1) /\ Count(tx_in, out) = C - 1
        /\ Cell(tx_out, 0) = tx_out
        /\ \A k \in 0..(C - 2) : Cell(out, k) = Cell(tx_out, k + 1)
    BY <1>1, TakeOne
  <2>3. C \in Nat \ {0}
    BY <2>2, Sizes
  <2>4. S \in Nat /\ W \in Nat
    BY <1>1
  <2> QED BY <2>1, <2>2, <2>3, <2>4
<1>4. /\ Len(wfifo') = W + 1 /\ wfifo'[W + 1] = b
      /\ \A i \in 1..W : wfifo'[i] = wfifo[i]
  BY <1>1, <1>2, <1>3, Appending
<1>5. /\ accepted = S + W + C
      /\ \A i \in 1..S : shown[i] = i
      /\ \A i \in 1..W : wfifo[i] = S + i
      /\ \A k \in 0..(C - 1) : tx_buf[Cell(tx_out, k)] = S + W + 1 + k
      /\ In("write", {"advance"}) =>
            \A k \in 0..(call.n - 1) : tx_buf[call.in + k] = accepted + 1 + k
  BY DEF OutInv
<1> HIDE DEF S, W, C, b, out
<1>6. b = S + W + 1
  BY <1>3, <1>5
<1>7. \A i \in 1..Len(wfifo') : wfifo'[i] = S + i
  BY <1>3, <1>4, <1>5, <1>6
<1>8. accepted = S + Len(wfifo') + Count(tx_in, out)
  BY <1>3, <1>4, <1>5
<1>9. ASSUME NEW k \in 0..(Count(tx_in, out) - 1)
      PROVE  tx_buf[Cell(out, k)] = S + Len(wfifo') + 1 + k
  <2>1. k + 1 \in 0..(C - 1) /\ k \in 0..(C - 2)
    BY <1>3
  <2>2. tx_buf[Cell(tx_out, k + 1)] = S + W + 1 + (k + 1)
    BY <1>5, <2>1
  <2> QED BY <1>3, <1>4, <2>1, <2>2
<1> QED BY <1>1, <1>5, <1>7, <1>8, <1>9 DEF OutInv, S, In

LEMMA OutWriteCopy == JtagTypeOK /\ WriteGrip /\ OutInv /\ WriteCopy => OutInv'
<1> SUFFICES ASSUME JtagTypeOK, WriteGrip, OutInv, WriteCopy PROVE OutInv'
  OBVIOUS
<1>1. /\ call \in Calls /\ tx_in \in Index /\ tx_out \in Index
      /\ call.in = tx_in /\ call.n \in 1..BufLen /\ call.in + call.n <= BufLen
      /\ call.n + Count(tx_in, tx_out) < BufLen
      /\ call'.op = "write" /\ call'.pc = "advance"
      /\ call'.in = call.in /\ call'.n = call.n
      /\ UNCHANGED <<accepted, shown, wfifo, tx_in, tx_out>>
  BY Sizes DEF JtagTypeOK, WriteGrip, In, WriteCopy, At, Calls, device, ends
<1>2. /\ \A i \in Index : i \in call.in..(call.in + call.n - 1)
                             => tx_buf'[i] = accepted + 1 + (i - call.in)
      /\ \A i \in Index : i \notin call.in..(call.in + call.n - 1)
                             => tx_buf'[i] = tx_buf[i]
  BY DEF WriteCopy
<1>3. ASSUME NEW k \in 0..(call.n - 1) PROVE tx_buf'[call.in + k] = accepted + 1 + k
  <2>1. call.in + k \in Index /\ call.in \in Nat
    BY <1>1, Sizes DEF Index
  <2>2. PICK i \in Index : i = call.in + k
    BY <2>1
  <2>3. i \in call.in..(call.in + call.n - 1) /\ i - call.in = k
    BY <1>1, <2>1, <2>2, Sizes
  <2>4. tx_buf'[i] = accepted + 1 + k
    BY <1>2, <2>3
  <2> QED BY <2>2, <2>4
<1>4. ASSUME NEW k \in 0..(Count(tx_in, tx_out) - 1)
      PROVE  tx_buf'[Cell(tx_out, k)] = tx_buf[Cell(tx_out, k)]
  <2>1. Count(tx_in, tx_out) \in 0..(BufLen - 1)
    BY Counts
  <2>2. k \in 0..(BufLen - 1)
    BY <2>1, Sizes
  <2>3. Cell(tx_out, k) \in Index
    BY <1>1, <2>2, CountRange
  <2>4. Cell(tx_out, k) \notin call.in..(call.in + call.n - 1)
    BY <1>1, PutSome
  <2> QED BY <1>2, <2>3, <2>4
<1> QED BY <1>1, <1>3, <1>4 DEF OutInv

LEMMA OutWriteAdvance == JtagTypeOK /\ WriteGrip /\ OutInv /\ WriteAdvance => OutInv'
<1> SUFFICES ASSUME JtagTypeOK, WriteGrip, OutInv, WriteAdvance PROVE OutInv'
  OBVIOUS
<1> DEFINE S == Len(shown)
           W == Len(wfifo)
           C == Count(tx_in, tx_out)
           n == call.n
           in == Wrap(tx_in + n)
<1>1. /\ call \in Calls /\ tx_in \in Index /\ tx_out \in Index
      /\ call.in = tx_in /\ n \in 1..BufLen /\ tx_in + n <= BufLen
      /\ n + Count(tx_in, tx_out) < BufLen
      /\ ~In("write", {"advance"})'
      /\ tx_in' = in /\ accepted' = accepted + n
      /\ UNCHANGED <<shown, wfifo, tx_buf, tx_out>>
  BY Sizes DEF JtagTypeOK, WriteGrip, In, WriteAdvance, At, Calls, device
<1>2. /\ S \in Nat /\ W \in Nat /\ C \in Nat
  <2>1. shown \in Seq(Nat) /\ wfifo \in Seq(Nat) /\ C \in 0..(BufLen - 1)
    BY Counts DEF JtagTypeOK
  <2> QED BY <2>1, Sizes
<1>3. /\ Count(in, tx_out) = C + n
      /\ \A k \in 0..(n - 1) : Cell(tx_out, C + k) = tx_in + k
  BY <1>1, PutSome
<1>4. /\ accepted = S + W + C
      /\ \A i \in 1..S : shown[i] = i
      /\ \A i \in 1..W : wfifo[i] = S + i
      /\ \A k \in 0..(C - 1) : tx_buf[Cell(tx_out, k)] = S + W + 1 + k
      /\ \A k \in 0..(n - 1) : tx_buf[tx_in + k] = accepted + 1 + k
  BY <1>1 DEF OutInv, In, WriteAdvance, At
<1>5. n \in Nat
  BY <1>1, Sizes
<1> HIDE DEF S, W, C, n, in
<1>6. accepted + n = S + W + Count(in, tx_out)
  BY <1>2, <1>3, <1>4, <1>5
<1>7. ASSUME NEW k \in 0..(Count(in, tx_out) - 1)
      PROVE  tx_buf[Cell(tx_out, k)] = S + W + 1 + k
  <2>1. CASE k < C
    BY <1>2, <1>4, <2>1
  <2>2. CASE k >= C
    <3>1. k - C \in 0..(n - 1) /\ C + (k - C) = k
      BY <1>2, <1>3, <1>5, <2>2
    <3>2. Cell(tx_out, k) = tx_in + (k - C)
      BY <1>3, <3>1
    <3>3. tx_buf[Cell(tx_out, k)] = accepted + 1 + (k - C)
      BY <1>4, <3>1, <3>2
    <3> QED BY <1>2, <1>4, <3>3
  <2> QED BY <1>2, <2>1, <2>2
<1> QED BY <1>1, <1>4, <1>6, <1>7 DEF OutInv, S, W


LEMMA OutStep == JtagTypeOK /\ Grips /\ SpaceInv /\ OutInv /\ Next => OutInv'
<1> SUFFICES ASSUME JtagTypeOK, Grips, SpaceInv, OutInv, Next PROVE OutInv'
  OBVIOUS
<1>0. call \in Calls
  BY DEF JtagTypeOK
<1>1. CASE HostReceive
  BY <1>1, OutHostReceive
<1>2. CASE IsrTransmit
  BY <1>2, OutIsrTransmit
<1>3. CASE WriteCopy
  BY <1>3, OutWriteCopy DEF Grips
<1>4. CASE WriteAdvance
  BY <1>4, OutWriteAdvance DEF Grips
<1>5. CASE \/ HostSend \/ HostPause \/ IsrEnter \/ IsrControl \/ IsrReceive
           \/ IsrReceiveFull \/ IsrTransmitDone \/ Timeout \/ SetTimeout
           \/ GetConnected
  <2>1. /\ call' = call
        /\ UNCHANGED <<accepted, shown, wfifo, tx_buf, tx_in, tx_out>>
    BY <1>5 DEF HostSend, HostPause, IsrEnter, IsrControl, IsrReceive,
                IsrReceiveFull, IsrTransmitDone, Timeout, SetTimeout,
                GetConnected, tx, device, ends
  <2> QED BY <2>1, OutKept DEF In
<1>6. CASE \/ Begin \/ ReadSample \/ ReadCopy \/ ReadAdvance \/ ReadSpin
           \/ ReadLook \/ ReadFinish \/ WriteSample \/ WriteKick \/ WriteSpin
           \/ WriteLook \/ WriteFinish \/ Close
  <2>1. UNCHANGED <<accepted, shown, wfifo, tx_buf, tx_in, tx_out>>
    BY <1>6 DEF Begin, ReadSample, ReadCopy, ReadAdvance, ReadSpin, ReadLook,
                ReadFinish, WriteSample, WriteKick, WriteSpin, WriteLook,
                WriteFinish, Close, tx, device, ends
  <2>2. ~In("write", {"advance"})'
    <3>1. CASE Begin
      BY <3>1 DEF Begin, Idle, In
    <3>2. CASE \/ ReadSample \/ ReadCopy \/ ReadAdvance \/ ReadSpin \/ ReadLook
      <4>1. call'.op = "read"
        BY <1>0, <3>2 DEF ReadSample, ReadCopy, ReadAdvance, ReadSpin, ReadLook,
                          At, Calls
      <4> QED BY <4>1 DEF In
    <3>3. CASE WriteSample \/ WriteKick \/ WriteSpin \/ WriteLook
      <4>1. call'.pc # "advance"
        BY <1>0, <3>3 DEF WriteSample, WriteKick, WriteSpin, WriteLook, Calls
      <4> QED BY <4>1 DEF In
    <3>4. CASE ReadFinish \/ WriteFinish \/ Close
      BY <3>4 DEF ReadFinish, WriteFinish, Close, Return, Idle, In
    <3> QED BY <1>6, <3>1, <3>2, <3>3, <3>4
  <2> QED BY <2>1, <2>2, OutKept
<1> QED BY <1>1, <1>2, <1>3, <1>4, <1>5, <1>6 DEF Next, Host, Isr, InCall
-----------------------------------------------------------------------------
(* From the host to the program.                                           *)
LEMMA TakenNat ==
    ASSUME JtagTypeOK
    PROVE  /\ Taken \in Int /\ Copied \in Nat
           /\ Len(received) \in Nat /\ Len(call.data) \in Nat /\ Len(rfifo) \in Nat
           /\ call.data \in Seq(Nat) /\ received \in Seq(Nat) /\ rfifo \in Seq(Nat)
           /\ Count(rx_in, rx_out) \in Nat
<1>1. /\ call.data \in Seq(Nat) /\ received \in Seq(Nat) /\ rfifo \in Seq(Nat)
      /\ call.n \in 0..BufLen /\ Count(rx_in, rx_out) \in 0..(BufLen - 1)
  BY Counts DEF JtagTypeOK, Calls
<1>2. Copied \in Nat
  BY <1>1, Sizes DEF Copied
<1> QED BY <1>1, <1>2, Sizes DEF Taken

(* A step that moves no byte that way.                                     *)
LEMMA InKept ==
    ASSUME InInv, UNCHANGED <<sent, received, rfifo, rx_buf, rx_in, rx_out>>,
           call'.data = call.data, Copied' = Copied,
           call'.op # "read" => call'.data = <<>>
    PROVE  InInv'
<1>1. Taken' = Taken
  BY DEF Taken
<1> QED BY <1>1 DEF InInv

LEMMA InHostSend == JtagTypeOK /\ InInv /\ HostSend => InInv'
<1> SUFFICES ASSUME JtagTypeOK, InInv, HostSend PROVE InInv'
  OBVIOUS
<1> DEFINE T == Taken
           C == Count(rx_in, rx_out)
           R == Len(rfifo)
<1>1. /\ sent \in Nat /\ rfifo \in Seq(Nat) /\ sent' = sent + 1
      /\ rfifo' = Append(rfifo, sent + 1)
      /\ UNCHANGED <<call, received, rx_buf, rx_in, rx_out>>
  BY DEF JtagTypeOK, HostSend, rx
<1>2. /\ Len(rfifo') = R + 1 /\ rfifo'[R + 1] = sent + 1
      /\ \A i \in 1..R : rfifo'[i] = rfifo[i]
  BY <1>1, Appending
<1>3. T \in Int /\ C \in Nat /\ R \in Nat
  BY TakenNat
<1>4. sent = T + C + R /\ \A i \in 1..R : rfifo[i] = T + C + i
  BY DEF InInv
<1>5. Taken' = T
  BY <1>1 DEF Taken, Copied, In
<1> HIDE DEF T, C, R
<1>6. \A i \in 1..Len(rfifo') : rfifo'[i] = T + C + i
  BY <1>1, <1>2, <1>3, <1>4
<1>7. sent' = T + C + Len(rfifo')
  BY <1>1, <1>2, <1>3, <1>4
<1> QED BY <1>1, <1>5, <1>6, <1>7 DEF InInv, T, C

LEMMA InIsrReceive == JtagTypeOK /\ InInv /\ IsrReceive => InInv'
<1> SUFFICES ASSUME JtagTypeOK, InInv, IsrReceive PROVE InInv'
  OBVIOUS
<1> DEFINE T == Taken
           C == Count(rx_in, rx_out)
           R == Len(rfifo)
           in == Wrap(rx_in + 1)
<1>1. CASE rfifo = <<>>
  <2>1. UNCHANGED <<sent, received, rfifo, rx_buf, rx_in, rx_out, call>>
    BY <1>1 DEF IsrReceive, ends
  <2> QED BY <2>1, InKept DEF Copied, In, InInv
<1>2. CASE rfifo # <<>>
  <2>1. /\ rx_in \in Index /\ rx_out \in Index /\ ~Full(rx_in, rx_out)
        /\ rx_buf \in [Index -> Nat] /\ rfifo \in Seq(Nat)
        /\ rx_buf' = [rx_buf EXCEPT ![rx_in] = Head(rfifo)]
        /\ rx_in' = in /\ rfifo' = Tail(rfifo)
        /\ UNCHANGED <<sent, received, call, rx_out>>
    BY <1>2 DEF JtagTypeOK, IsrReceive, ends
  <2>2. /\ Head(rfifo) = rfifo[1] /\ Len(rfifo') = R - 1
        /\ \A i \in 1..(R - 1) : rfifo'[i] = rfifo[i + 1]
    BY <1>2, <2>1, Heading
  <2>3. /\ Count(in, rx_out) = C + 1 /\ Cell(rx_out, C) = rx_in
        /\ \A k \in 0..(C - 1) : Cell(rx_out, k) # rx_in
    BY <2>1, PutOne
  <2>4. T \in Int /\ C \in 0..(BufLen - 1) /\ C \in Nat /\ R \in Nat \ {0}
    BY <1>2, <2>1, TakenNat, Counts, Heading
  <2>5. /\ sent = T + C + R
        /\ \A k \in 0..(C - 1) : rx_buf[Cell(rx_out, k)] = T + 1 + k
        /\ \A i \in 1..R : rfifo[i] = T + C + i
    BY DEF InInv
  <2>6. Taken' = T
    BY <2>1 DEF Taken, Copied, In
  <2>7. \A k \in 0..(C - 1) : Cell(rx_out, k) \in Index
    <3>1. \A k \in 0..(C - 1) : k \in 0..(BufLen - 1)
      BY <2>4, Sizes
    <3> QED BY <2>1, <3>1, CountRange
  <2> HIDE DEF T, C, R, in
  <2>8. rfifo[1] = T + C + 1
    BY <2>4, <2>5
  <2>9. \A i \in 1..Len(rfifo') : rfifo'[i] = T + (C + 1) + i
    BY <2>2, <2>4, <2>5
  <2>10. sent = T + (C + 1) + Len(rfifo')
    BY <2>2, <2>4, <2>5
  <2>11. ASSUME NEW k \in 0..(Count(in, rx_out) - 1)
         PROVE  rx_buf'[Cell(rx_out, k)] = T + 1 + k
    <3>1. CASE k < C
      <4>1. k \in 0..(C - 1)
        BY <2>4, <3>1
      <4>2. Cell(rx_out, k) \in Index /\ Cell(rx_out, k) # rx_in
        BY <2>3, <2>7, <4>1
      <4>3. rx_buf'[Cell(rx_out, k)] = rx_buf[Cell(rx_out, k)]
        BY <2>1, <4>2
      <4> QED BY <2>5, <4>1, <4>3
    <3>2. CASE k >= C
      <4>1. k = C
        BY <2>3, <2>4, <3>2
      <4>2. rx_buf'[rx_in] = rfifo[1]
        BY <2>1, <2>2
      <4>3. T + C + 1 = T + 1 + k
        BY <2>4, <4>1
      <4> QED BY <2>3, <2>8, <4>1, <4>2, <4>3
    <3> QED BY <2>4, <3>1, <3>2
  <2>12. InInv'
    BY <2>1, <2>3, <2>6, <2>9, <2>10, <2>11 DEF InInv
  <2> QED BY <2>12
<1> QED BY <1>1, <1>2


LEMMA InReadCopy == JtagTypeOK /\ ReadGrip /\ InInv /\ ReadCopy => InInv'
<1> SUFFICES ASSUME JtagTypeOK, ReadGrip, InInv, ReadCopy PROVE InInv'
  OBVIOUS
<1> DEFINE t == [j \in 1..call.n |-> rx_buf[call.out + j - 1]]
           P == Len(received)
           D == Len(call.data)
<1>1. /\ call \in Calls /\ rx_in \in Index /\ rx_out \in Index
      /\ rx_buf \in [Index -> Nat]
      /\ call.out = rx_out /\ call.n \in 1..BufLen /\ call.n \in Nat
      /\ call.out + call.n <= BufLen /\ call.n <= Count(rx_in, rx_out)
      /\ call.op = "read" /\ call'.op = "read" /\ call'.pc = "advance"
      /\ call'.n = call.n /\ call'.data = call.data \o t
      /\ UNCHANGED <<sent, received, rfifo, rx_buf, rx_in, rx_out>>
  <2>1. /\ call \in Calls /\ rx_in \in Index /\ rx_out \in Index
        /\ rx_buf \in [Index -> Nat] /\ call.n \in 0..BufLen
    BY DEF JtagTypeOK, Calls
  <2>2. /\ call.op = "read" /\ call.pc = "take"
        /\ call' = [call EXCEPT !.data = call.data \o t,
                               !.left = call.left - call.n, !.pc = "advance"]
        /\ UNCHANGED <<sent, received, rfifo, rx_buf, rx_in, rx_out>>
    BY DEF ReadCopy, At, rx, device, ends
  <2>3. /\ call.out = rx_out /\ call.n >= 1 /\ call.out + call.n <= BufLen
        /\ call.n <= Count(rx_in, rx_out)
    BY <2>2 DEF ReadGrip, In
  <2>4. call.n \in 1..BufLen /\ call.n \in Nat
    BY <2>1, <2>3, Sizes
  <2>5. /\ call'.op = "read" /\ call'.pc = "advance" /\ call'.n = call.n
        /\ call'.data = call.data \o t
    BY <2>1, <2>2 DEF Calls
  <2> QED BY <2>1, <2>2, <2>3, <2>4, <2>5
<1>2. Copied = 0 /\ Copied' = call.n
  BY <1>1 DEF Copied, In, ReadCopy, At
<1>3. P \in Nat /\ D \in Nat /\ call.data \in Seq(Nat)
  BY TakenNat
<1>4. \A j \in 1..call.n : call.out + j - 1 \in Index
  BY <1>1, Sizes DEF Index
<1>5. t \in Seq(Nat) /\ Len(t) = call.n
  <2>1. call.n \in Nat /\ t \in [1..call.n -> Nat]
    BY <1>1, <1>4
  <2> HIDE DEF t
  <2> QED BY <2>1, Listing
<1>6. /\ Len(call'.data) = D + call.n
      /\ \A i \in 1..D : call'.data[i] = call.data[i]
      /\ \A j \in 1..call.n : call'.data[D + j] = t[j]
  <2>1. call'.data = call.data \o t
    BY <1>1
  <2> HIDE DEF t
  <2>2. /\ Len(call.data \o t) = Len(call.data) + Len(t)
        /\ \A i \in 1..Len(call.data) : (call.data \o t)[i] = call.data[i]
        /\ \A j \in 1..Len(t) : (call.data \o t)[Len(call.data) + j] = t[j]
    BY <1>3, <1>5, Joining, Zenon
  <2>3. Len(t) = call.n
    BY <1>5
  <2> QED BY <2>1, <2>2, <2>3, Zenon
<1>7. Taken = P + D /\ Taken' = P + D
  <2>1. P + D - 0 = P + D /\ P + (D + call.n) - call.n = P + D
    BY <1>1, <1>3
  <2> QED BY <1>1, <1>2, <1>6, <2>1 DEF Taken
<1>8. /\ \A i \in 1..D : call.data[i] = P + i
      /\ \A k \in 0..(Count(rx_in, rx_out) - 1) :
            rx_buf[Cell(rx_out, k)] = P + D + 1 + k
  BY <1>7 DEF InInv
<1>9. ASSUME NEW i \in 1..(D + call.n) PROVE call'.data[i] = P + i
  <2>1. CASE i <= D
    BY <1>3, <1>6, <1>8, <2>1
  <2>2. CASE i > D
    <3>1. PICK k \in 0..(call.n - 1) : i = D + (k + 1)
      <4>1. i - D - 1 \in 0..(call.n - 1) /\ i = D + ((i - D - 1) + 1)
        BY <1>1, <1>3, <2>2
      <4> QED BY <4>1
    <3>2. k + 1 \in 1..call.n /\ call.out + (k + 1) - 1 = rx_out + k
      BY <1>1, <3>1 DEF Index
    <3>3. call'.data[i] = rx_buf[rx_out + k]
      BY <1>6, <3>1, <3>2
    <3>4. Cell(rx_out, k) = rx_out + k
      BY <1>1, TakeSome
    <3>5. k \in 0..(Count(rx_in, rx_out) - 1)
      <4>1. Count(rx_in, rx_out) \in 0..(BufLen - 1)
        BY Counts
      <4> QED BY <1>1, <4>1, Sizes
    <3>6. rx_buf[rx_out + k] = P + D + 1 + k
      BY <1>8, <3>4, <3>5
    <3>7. P + D + 1 + k = P + i
      <4> HIDE DEF P, D
      <4> QED BY <1>3, <3>1
    <3> QED BY <3>3, <3>6, <3>7
  <2> QED BY <1>1, <1>3, <2>1, <2>2
<1> HIDE DEF t
<1>10. \A i \in 1..Len(call'.data) : call'.data[i] = Len(received) + i
  BY <1>6, <1>9
<1> QED BY <1>1, <1>7, <1>10 DEF InInv

LEMMA InReadAdvance == JtagTypeOK /\ ReadGrip /\ InInv /\ ReadAdvance => InInv'
<1> SUFFICES ASSUME JtagTypeOK, ReadGrip, InInv, ReadAdvance PROVE InInv'
  OBVIOUS
<1> DEFINE T == Taken
           C == Count(rx_in, rx_out)
           R == Len(rfifo)
           n == call.n
           out == Wrap(rx_out + n)
<1>1. /\ call \in Calls /\ rx_in \in Index /\ rx_out \in Index
      /\ call.out = rx_out /\ n \in 1..BufLen /\ n \in Nat
      /\ rx_out + n <= BufLen /\ n <= C
      /\ rx_out' = out /\ call'.data = call.data
      /\ call.op = "read" /\ call'.op = "read" /\ call'.pc # "advance"
      /\ UNCHANGED <<sent, received, rfifo, rx_buf, rx_in>>
  BY Sizes DEF JtagTypeOK, ReadGrip, In, ReadAdvance, At, Calls, device, ends
<1>2. Copied = n /\ Copied' = 0
  BY <1>1 DEF Copied, In, ReadAdvance, At
<1>3. T \in Int /\ C \in Nat /\ R \in Nat
  BY TakenNat
<1>4. Taken' = T + n
  <2>1. Len(received) \in Nat /\ Len(call.data) \in Nat
    BY TakenNat
  <2>2. Len(received) + Len(call.data) - 0
          = Len(received) + Len(call.data) - n + n
    BY <1>1, <2>1
  <2> QED BY <1>1, <1>2, <2>2 DEF Taken
<1>5. /\ Count(rx_in, out) = C - n
      /\ \A k \in 0..(C - n - 1) : Cell(out, k) = Cell(rx_out, k + n)
  BY <1>1, TakeSome
<1>6. /\ sent = T + C + R
      /\ \A k \in 0..(C - 1) : rx_buf[Cell(rx_out, k)] = T + 1 + k
      /\ \A i \in 1..R : rfifo[i] = T + C + i
  BY DEF InInv
<1> HIDE DEF T, C, n, out
<1>7. sent = (T + n) + (C - n) + R
  BY <1>1, <1>3, <1>6
<1>8. ASSUME NEW k \in 0..((C - n) - 1)
      PROVE  rx_buf[Cell(out, k)] = (T + n) + 1 + k
  <2>1. k + n \in 0..(C - 1) /\ T + 1 + (k + n) = (T + n) + 1 + k
    BY <1>1, <1>3
  <2>2. Cell(out, k) = Cell(rx_out, k + n)
    BY <1>5
  <2> QED BY <1>6, <2>1, <2>2
<1>9. \A i \in 1..R : rfifo[i] = (T + n) + (C - n) + i
  BY <1>1, <1>3, <1>6
<1>10. InInv'
  BY <1>1, <1>4, <1>5, <1>7, <1>8, <1>9 DEF InInv
<1> QED BY <1>10

LEMMA InReadFinish == JtagTypeOK /\ InInv /\ ReadFinish => InInv'
<1> SUFFICES ASSUME JtagTypeOK, InInv, ReadFinish PROVE InInv'
  OBVIOUS
<1> DEFINE P == Len(received)
           D == Len(call.data)
<1>1. /\ received \in Seq(Nat) /\ call.data \in Seq(Nat) /\ P \in Nat /\ D \in Nat
      /\ received' = received \o call.data
      /\ call'.op = "none" /\ call'.data = <<>> /\ call'.pc = "idle"
      /\ call.pc = "finish"
      /\ UNCHANGED <<sent, rfifo, rx_buf, rx_in, rx_out>>
  BY TakenNat DEF ReadFinish, At, Return, Idle, rx, device
<1>2. /\ Len(received') = P + D
      /\ \A i \in 1..P : received'[i] = received[i]
      /\ \A i \in 1..D : received'[P + i] = call.data[i]
  BY <1>1, Joining
<1>3. Taken = P + D /\ Taken' = P + D
  <2>1. Copied = 0 /\ Copied' = 0 /\ Len(call'.data) = 0
    BY <1>1 DEF Copied, In
  <2>2. P + D - 0 = P + D /\ (P + D) + 0 - 0 = P + D
    BY <1>1
  <2> QED BY <1>2, <2>1, <2>2 DEF Taken
<1>4. /\ \A i \in 1..P : received[i] = i
      /\ \A i \in 1..D : call.data[i] = P + i
  BY DEF InInv
<1>5. ASSUME NEW i \in 1..(P + D) PROVE received'[i] = i
  <2>1. CASE i <= P
    BY <1>1, <1>2, <1>4, <2>1
  <2>2. CASE i > P
    <3>1. i - P \in 1..D /\ P + (i - P) = i
      BY <1>1, <2>2
    <3> QED BY <1>2, <1>4, <3>1
  <2> QED BY <1>1, <2>1, <2>2
<1>6. \A i \in 1..Len(call'.data) : call'.data[i] = Len(received') + i
  BY <1>1
<1> QED BY <1>1, <1>2, <1>3, <1>5, <1>6 DEF InInv

LEMMA InStep == JtagTypeOK /\ Grips /\ InInv /\ Next => InInv'
<1> SUFFICES ASSUME JtagTypeOK, Grips, InInv, Next PROVE InInv'
  OBVIOUS
<1>0. call \in Calls /\ (call.op # "read" => call.data = <<>>)
  BY DEF JtagTypeOK, InInv
<1>1. CASE HostSend
  BY <1>1, InHostSend
<1>2. CASE IsrReceive
  BY <1>2, InIsrReceive
<1>3. CASE ReadCopy
  BY <1>3, InReadCopy DEF Grips
<1>4. CASE ReadAdvance
  BY <1>4, InReadAdvance DEF Grips
<1>5. CASE ReadFinish
  BY <1>5, InReadFinish
<1>6. CASE \/ HostPause \/ HostReceive \/ IsrEnter \/ IsrControl
           \/ IsrReceiveFull \/ IsrTransmit \/ IsrTransmitDone \/ Timeout
           \/ SetTimeout \/ GetConnected
  <2>1. /\ call' = call
        /\ UNCHANGED <<sent, received, rfifo, rx_buf, rx_in, rx_out>>
    BY <1>6 DEF HostPause, HostReceive, IsrEnter, IsrControl, IsrReceiveFull,
                IsrTransmit, IsrTransmitDone, Timeout, SetTimeout,
                GetConnected, rx, device, ends
  <2> QED BY <1>0, <2>1, InKept DEF Copied, In
<1>7. CASE \/ Begin \/ ReadSample \/ ReadSpin \/ ReadLook \/ WriteSample
           \/ WriteCopy \/ WriteAdvance \/ WriteKick \/ WriteSpin \/ WriteLook
           \/ WriteFinish \/ Close
  <2>1. UNCHANGED <<sent, received, rfifo, rx_buf, rx_in, rx_out>>
    BY <1>7 DEF Begin, ReadSample, ReadSpin, ReadLook, WriteSample, WriteCopy,
                WriteAdvance, WriteKick, WriteSpin, WriteLook, WriteFinish,
                Close, rx, device, ends
  <2>2. Copied = 0 /\ Copied' = 0 /\ call'.data = call.data
        /\ (call'.op # "read" => call'.data = <<>>)
    <3>1. CASE Begin
      <4>1. call'.data = <<>> /\ call'.pc = "copy"
        BY <3>1 DEF Begin, Idle
      <4>2. call.op = "none" /\ call.data = <<>>
        BY <1>0, <3>1 DEF Begin, At
      <4> QED BY <4>1, <4>2 DEF Copied, In
    <3>2. CASE ReadSample \/ ReadSpin \/ ReadLook
      <4>1. /\ call'.data = call.data /\ call'.pc # "advance"
            /\ call.pc # "advance" /\ call'.op = "read"
        BY <1>0, <3>2 DEF ReadSample, ReadSpin, ReadLook, At, Calls
      <4> QED BY <4>1 DEF Copied, In
    <3>3. CASE \/ WriteSample \/ WriteCopy \/ WriteAdvance \/ WriteKick
               \/ WriteSpin \/ WriteLook
      <4>1. /\ call'.data = call.data /\ call'.op = "write" /\ call.op = "write"
        BY <1>0, <3>3 DEF WriteSample, WriteCopy, WriteAdvance, WriteKick,
                          WriteSpin, WriteLook, At, Calls
      <4> QED BY <1>0, <4>1 DEF Copied, In
    <3>4. CASE WriteFinish \/ Close
      <4>1. /\ call'.data = <<>> /\ call'.op = "none" /\ call.op # "read"
        BY <3>4 DEF WriteFinish, Close, Return, Idle, At
      <4> QED BY <1>0, <4>1 DEF Copied, In
    <3> QED BY <1>7, <3>1, <3>2, <3>3, <3>4
  <2> QED BY <2>1, <2>2, InKept
<1> QED BY <1>1, <1>2, <1>3, <1>4, <1>5, <1>6, <1>7 DEF Next, Host, Isr, InCall

-----------------------------------------------------------------------------
(* The invariant.                                                          *)
LEMMA StreamInit == Init => StreamInv
<1> SUFFICES ASSUME Init PROVE StreamInv
  OBVIOUS
<1>1. /\ rx_in = 0 /\ rx_out = 0 /\ tx_in = 0 /\ tx_out = 0
      /\ rfifo = <<>> /\ wfifo = <<>> /\ sent = 0 /\ accepted = 0
      /\ received = <<>> /\ shown = <<>> /\ isr.pc = "off"
      /\ call.op = "none" /\ call.pc = "idle" /\ call.data = <<>>
  BY DEF Init, Off, Idle
<1>2. JtagTypeOK
  BY InitTypes
<1>3. Grips /\ SpaceInv
  BY <1>1 DEF Grips, ReadGrip, WriteGrip, SpaceInv, In
<1>4. Count(0, 0) = 0
  BY DEF Count
<1>5. OutInv
  BY <1>1, <1>4 DEF OutInv, In
<1>6. InInv
  BY <1>1, <1>4 DEF InInv, Taken, Copied, In
<1> QED BY <1>2, <1>3, <1>5, <1>6 DEF StreamInv

LEMMA StreamStep == StreamInv /\ [Next]_vars => StreamInv'
<1> SUFFICES ASSUME StreamInv, [Next]_vars PROVE StreamInv'
  OBVIOUS
<1>1. CASE Next
  <2>1. JtagTypeOK'
    BY <1>1, HostTypes, IsrTypes, TimerTypes, BeginTypes, ReadTypes, WriteTypes
       DEF Next, InCall, StreamInv, Grips
  <2> QED BY <1>1, <2>1, GripsStep, SpaceStep, OutStep, InStep DEF StreamInv
<1>2. CASE UNCHANGED vars
  <2>1. /\ UNCHANGED <<rx_buf, rx_in, rx_out, tx_buf, tx_in, tx_out>>
        /\ UNCHANGED <<irq_enable, timeout, host_inactive, rfifo, wfifo>>
        /\ UNCHANGED <<pause_irq, ac, isr, call, result>>
        /\ UNCHANGED <<sent, received, accepted, shown>>
    BY <1>2 DEF vars, rx, tx, driver, device, ends
  <2>2. JtagTypeOK'
    BY <2>1 DEF StreamInv, JtagTypeOK
  <2>3. Grips' /\ SpaceInv'
    BY <2>1 DEF StreamInv, Grips, ReadGrip, WriteGrip, SpaceInv, In
  <2>4. OutInv'
    BY <2>1, OutKept DEF StreamInv, In
  <2>5. InInv'
    BY <2>1, InKept DEF StreamInv, Copied, In, InInv
  <2> QED BY <2>2, <2>3, <2>4, <2>5 DEF StreamInv
<1> QED BY <1>1, <1>2

(* Every variable of the driver and of its hardware keeps its type, for    *)
(* rings and FIFOs of every size: no index leaves altera_avalon_jtag_uart_ *)
(* state's buffers.                                                        *)
THEOREM JtagTypes == Spec => []JtagTypeOK
<1>1. StreamInv => JtagTypeOK
  BY DEF StreamInv
<1> QED BY <1>1, StreamInit, StreamStep, PTL DEF Spec
-----------------------------------------------------------------------------
(* The refinement.                                                         *)
LEMMA InOrder ==
    ASSUME NEW s \in Seq(Nat), \A i \in 1..Len(s) : s[i] = i
    PROVE  s = [i \in 1..Len(s) |-> 0 + i]
<1>1. \A i \in 1..Len(s) : 0 + i = i
  OBVIOUS
<1> QED BY <1>1

LEMMA OutwardStep == StreamInv /\ [Next]_vars => [Outward!Next]_(Outward!vars)
<1> SUFFICES ASSUME StreamInv, [Next]_vars PROVE [Outward!Next]_(Outward!vars)
  OBVIOUS
<1>0. JtagTypeOK /\ StreamInv'
  BY StreamStep DEF StreamInv
<1>1. CASE HostReceive
  <2> DEFINE n == Len(shown) + 1
  <2>1. /\ shown \in Seq(Nat) /\ wfifo \in Seq(Nat) /\ wfifo # <<>>
        /\ shown' = Append(shown, Head(wfifo)) /\ accepted' = accepted
    BY <1>0, <1>1 DEF JtagTypeOK, HostReceive
  <2>2. /\ Len(shown) \in Nat /\ Len(wfifo) \in Nat \ {0} /\ Head(wfifo) \in Nat
    BY <2>1, Heading
  <2>3. shown' \in Seq(Nat) /\ Len(shown') = n
    BY <2>1, <2>2, Appending
  <2>4. n \in (Len(shown) + 1)..accepted
    <3>1. Count(tx_in, tx_out) \in 0..(BufLen - 1) /\ accepted \in Nat
      BY <1>0, Counts DEF JtagTypeOK
    <3>2. accepted = Len(shown) + Len(wfifo) + Count(tx_in, tx_out)
      BY DEF StreamInv, OutInv
    <3> QED BY <2>2, <3>1, <3>2, Sizes
  <2>5. \A i \in 1..Len(shown') : shown'[i] = i
    BY <1>0 DEF StreamInv, OutInv
  <2>6. shown' = [i \in 1..n |-> 0 + i]
    BY <2>3, <2>5, InOrder
  <2>7. n - 0 = n
    BY <2>2
  <2> HIDE DEF n
  <2>8. shown' = Outward!Stream(0, n)
    BY <2>6, <2>7 DEF Outward!Stream
  <2> QED BY <2>1, <2>4, <2>8 DEF Outward!Next, Outward!Get
<1>2. CASE WriteAdvance
  <2>1. /\ accepted' = accepted + call.n /\ shown' = shown
        /\ accepted \in Nat /\ call.n \in Nat /\ call.n >= 1
    <3>1. call.n \in 0..BufLen /\ accepted \in Nat
      BY <1>0 DEF JtagTypeOK, Calls
    <3>2. call.n >= 1
      BY <1>2 DEF StreamInv, Grips, WriteGrip, In, WriteAdvance, At
    <3> QED BY <1>2, <3>1, <3>2, Sizes DEF WriteAdvance
  <2> QED BY <2>1 DEF Outward!Next, Outward!Put
<1>3. CASE ~HostReceive /\ ~WriteAdvance
  <2>1. UNCHANGED <<accepted, shown>>
    BY <1>3 DEF Next, Host, HostSend, HostPause, Isr, IsrEnter, IsrControl,
                IsrReceive, IsrReceiveFull, IsrTransmit, IsrTransmitDone,
                Timeout, Begin, InCall, ReadSample, ReadCopy, ReadAdvance,
                ReadSpin, ReadLook, ReadFinish, WriteSample, WriteCopy,
                WriteKick, WriteSpin, WriteLook, WriteFinish, Close,
                SetTimeout, GetConnected, vars, ends
  <2> QED BY <2>1 DEF Outward!vars
<1> QED BY <1>1, <1>2, <1>3

LEMMA InwardStep == StreamInv /\ [Next]_vars => [Inward!Next]_(Inward!vars)
<1> SUFFICES ASSUME StreamInv, [Next]_vars PROVE [Inward!Next]_(Inward!vars)
  OBVIOUS
<1>0. JtagTypeOK /\ StreamInv'
  BY StreamStep DEF StreamInv
<1>1. CASE HostSend
  <2>1. sent \in Nat /\ sent' = sent + 1 /\ received' = received
    BY <1>0, <1>1 DEF JtagTypeOK, HostSend
  <2> QED BY <2>1 DEF Inward!Next, Inward!Put
<1>2. CASE ReadFinish /\ call.data = <<>>
  <2>1. sent' = sent /\ received' = received
    <3>1. received \in Seq(Nat)
      BY <1>0 DEF JtagTypeOK
    <3> QED BY <1>2, <3>1 DEF ReadFinish
  <2> QED BY <2>1 DEF Inward!vars
<1>3. CASE ReadFinish /\ call.data # <<>>
  <2> DEFINE n == Len(received')
  <2>1. /\ received \in Seq(Nat) /\ call.data \in Seq(Nat)
        /\ received' = received \o call.data /\ sent' = sent
        /\ call.pc = "finish" /\ call.data # <<>>
    BY <1>0, <1>3, TakenNat DEF ReadFinish, At
  <2>2. /\ Len(received) \in Nat /\ Len(call.data) \in Nat \ {0}
        /\ received' \in Seq(Nat) /\ n = Len(received) + Len(call.data)
    BY <2>1, Heading, Joining
  <2>3. n \in (Len(received) + 1)..sent
    <3>1. /\ Count(rx_in, rx_out) \in Nat /\ Len(rfifo) \in Nat /\ sent \in Nat
      BY <1>0, TakenNat DEF JtagTypeOK
    <3>2. sent = Len(received) + Len(call.data) - 0
                   + Count(rx_in, rx_out) + Len(rfifo)
      BY <2>1 DEF StreamInv, InInv, Taken, Copied, In
    <3>3. n \in Nat /\ n >= Len(received) + 1 /\ n <= sent
      <4> DEFINE a == Len(received)
                 b == Len(call.data)
                 c == Count(rx_in, rx_out)
                 d == Len(rfifo)
      <4>1. a \in Nat /\ b \in Nat /\ b >= 1 /\ c \in Nat /\ d \in Nat
        BY <2>2, <3>1
      <4>2. n = a + b /\ sent = a + b - 0 + c + d
        BY <2>2, <3>2
      <4> HIDE DEF a, b, c, d, n
      <4>3. n \in Nat /\ n >= a + 1 /\ n <= sent
        BY <4>1, <4>2
      <4> QED BY <4>3 DEF a
    <3> HIDE DEF n
    <3> QED BY <2>2, <3>1, <3>3
  <2>4. \A i \in 1..n : received'[i] = i
    BY <1>0 DEF StreamInv, InInv
  <2>5. received' = [i \in 1..n |-> 0 + i]
    BY <2>2, <2>4, InOrder
  <2>6. n - 0 = n
    BY <2>2
  <2> HIDE DEF n
  <2>7. received' = Inward!Stream(0, n)
    BY <2>5, <2>6 DEF Inward!Stream
  <2> QED BY <2>1, <2>3, <2>7 DEF Inward!Next, Inward!Get
<1>4. CASE ~HostSend /\ ~ReadFinish
  <2>1. UNCHANGED <<sent, received>>
    BY <1>4 DEF Next, Host, HostPause, HostReceive, Isr, IsrEnter, IsrControl,
                IsrReceive, IsrReceiveFull, IsrTransmit, IsrTransmitDone,
                Timeout, Begin, InCall, ReadSample, ReadCopy, ReadAdvance,
                ReadSpin, ReadLook, WriteSample, WriteCopy, WriteAdvance,
                WriteKick, WriteSpin, WriteLook, WriteFinish, Close,
                SetTimeout, GetConnected, vars, ends
  <2> QED BY <2>1 DEF Inward!vars
<1> QED BY <1>1, <1>2, <1>3, <1>4

(* Both directions of the JTAG UART are byte streams: whatever sizes the   *)
(* rings and the FIFOs have, and however reads, writes, the handler and    *)
(* the host interleave, no byte is lost, doubled or overtaken between      *)
(* altera_avalon_jtag_uart_write and the host, nor between the host and    *)
(* altera_avalon_jtag_uart_read.                                           *)
THEOREM JtagStreams == Spec => Streams
<1>1. Init => Outward!Init /\ Inward!Init
  BY DEF Init, Outward!Init, Inward!Init
<1>2. Spec => []StreamInv
  BY StreamInit, StreamStep, PTL DEF Spec
<1>3. Spec => OutStream
  BY <1>1, <1>2, OutwardStep, PTL DEF Spec, OutStream, Outward!Spec
<1>4. Spec => InStream
  BY <1>1, <1>2, InwardStep, PTL DEF Spec, InStream, Inward!Spec
<1> QED BY <1>3, <1>4 DEF Streams
=============================================================================
