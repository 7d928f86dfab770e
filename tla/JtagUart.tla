------------------------------ MODULE JtagUart ------------------------------
(***************************************************************************)
(* The interrupt driven JTAG UART driver (altera_avalon_jtag_uart_*.c) on  *)
(* its hardware (soc_jtag_uart_0.v), between the program, which reads,     *)
(* writes, closes and sets timeouts, and the host at the end of the cable. *)
(*                                                                         *)
(* The program's calls are taken apart where an interrupt can come in      *)
(* between; the interrupt handler is taken apart at each access to the     *)
(* device, where the host can come in between.  Interrupts do not nest,    *)
(* and the program does not move while the handler runs.  Bytes are        *)
(* numbered in the order in which they enter a direction.                  *)
(***************************************************************************)
EXTENDS Naturals, Sequences, FiniteSets

CONSTANTS BufLen,          (* ALTERA_AVALON_JTAG_UART_BUF_LEN                *)
          Depth,           (* entries of each hardware FIFO                  *)
          Almost,          (* entries at which a FIFO is almost empty, full  *)
          IntMax,          (* INT_MAX                                        *)
          DefaultTimeout,  (* ALTERA_AVALON_JTAG_UART_DEFAULT_TIMEOUT        *)
          MaxCall,         (* bound: bytes asked for in one call             *)
          Bounds           (* bound: bytes the host, the program ever sends, *)
                           (* with a periodic timer and without              *)

ASSUME SizesAssumption ==
    /\ BufLen \in Nat \ {0, 1}
    /\ Depth \in Nat \ {0}
    /\ Almost \in 0..(Depth - 1)
ASSUME CallsAssumption ==
    /\ MaxCall \in Nat
    /\ Bounds \subseteq [clock : BOOLEAN, in : Nat, out : Nat]
ASSUME TimeAssumption ==
    /\ IntMax \in Nat \ 0..3
    /\ DefaultTimeout \in 2..(IntMax - 1)

VARIABLES
    rx_buf, rx_in, rx_out,       (* the receive ring                       *)
    tx_buf, tx_in, tx_out,       (* the transmit ring                      *)
    irq_enable,                  (* sp->irq_enable and the control bits    *)
    timeout, host_inactive,      (* the check for the host's presence      *)
    rfifo, wfifo,                (* the hardware FIFOs, read and write     *)
    pause_irq, ac,               (* hardware: host paused; host was active *)
    isr,                         (* where the interrupt handler is         *)
    call,                        (* the call the program is in             *)
    result,                      (* what the last call returned, between   *)
                                 (* calls                                  *)
    sent, received,              (* by the host; by the program            *)
    accepted, shown              (* from the program; by the host          *)

rx     == <<rx_buf, rx_in, rx_out>>
tx     == <<tx_buf, tx_in, tx_out>>
driver == <<irq_enable, timeout, host_inactive>>
device == <<rfifo, wfifo, pause_irq, ac>>
ends   == <<sent, received, accepted, shown>>
vars   == <<rx, tx, driver, device, isr, call, result, ends>>

Index == 0..(BufLen - 1)
Wrap(i) == i % BufLen

Least(a, b) == IF a < b THEN a ELSE b

(* Without a timer the alarm cannot be started, and timeout stays INT_MAX. *)
Clock == timeout # IntMax

Within(in, out) ==
    \E b \in Bounds : b.clock = Clock /\ in <= b.in /\ out <= b.out
-----------------------------------------------------------------------------
(* One slot stays free, so that a full ring differs from an empty one.     *)
Full(in, out) == Wrap(in + 1) = out

(* How many bytes a read may copy, a write may add, without wrapping.      *)
Readable(in, out) == IF in >= out THEN in - out ELSE BufLen - out
Writable(in, out) == IF in < out THEN out - 1 - in
                     ELSE IF out > 0 THEN BufLen - in
                     ELSE BufLen - 1 - in
-----------------------------------------------------------------------------
(* The hardware.  The bits RI and WI of the control register are already   *)
(* masked by the enable bits.                                              *)
RI     == "RE" \in irq_enable /\ (pause_irq \/ Depth - Len(rfifo) <= Almost)
WI     == "WE" \in irq_enable /\ Len(wfifo) <= Almost
wspace == Depth - Len(wfifo)

Off == [pc |-> "off", wi |-> FALSE, more |-> FALSE, space |-> 0]

Idle == [op |-> "none", pc |-> "idle", left |-> 0, data |-> <<>>, done |-> 0,
         in |-> 0, out |-> 0, n |-> 0, nonblock |-> FALSE]

None == [op |-> "none", status |-> "ok", n |-> 0, nonblock |-> FALSE]

(* altera_avalon_jtag_uart_init, and the device after reset.               *)
Init ==
    /\ rx_buf = [i \in Index |-> 0] /\ rx_in = 0 /\ rx_out = 0
    /\ tx_buf = [i \in Index |-> 0] /\ tx_in = 0 /\ tx_out = 0
    /\ irq_enable = {"RE"}
    /\ host_inactive = 0
    /\ timeout \in {DefaultTimeout, IntMax}
    /\ rfifo = <<>> /\ wfifo = <<>> /\ pause_irq = FALSE /\ ac = FALSE
    /\ isr = Off /\ call = Idle
    /\ result = None
    /\ sent = 0 /\ received = <<>> /\ accepted = 0 /\ shown = <<>>

-----------------------------------------------------------------------------
(* The host.                                                               *)
HostSend ==
    /\ Within(sent + 1, accepted) /\ Len(rfifo) < Depth
    /\ sent' = sent + 1
    /\ rfifo' = Append(rfifo, sent + 1)
    /\ ac' = TRUE
    /\ UNCHANGED <<rx, tx, driver, wfifo, pause_irq, isr, call, result,
                   received, accepted, shown>>

(* t_pause: the host leaves the bytes it has sent to be collected.         *)
HostPause ==
    /\ ac' = TRUE
    /\ pause_irq' = (pause_irq \/ rfifo # <<>>)
    /\ UNCHANGED <<rx, tx, driver, rfifo, wfifo, isr, call, result, ends>>

HostReceive ==
    /\ wfifo # <<>>
    /\ shown' = Append(shown, Head(wfifo))
    /\ wfifo' = Tail(wfifo)
    /\ UNCHANGED <<rx, tx, driver, rfifo, pause_irq, ac, isr, call, result,
                   sent, received, accepted>>

-----------------------------------------------------------------------------
(* altera_avalon_jtag_uart_irq: an endless loop that reads the control     *)
(* register and ends once neither condition is there.                      *)
IsrEnter ==
    /\ isr.pc = "off" /\ (RI \/ WI)
    /\ isr' = [isr EXCEPT !.pc = "control"]
    /\ UNCHANGED <<rx, tx, driver, device, call, result, ends>>

IsrControl ==
    /\ isr.pc = "control"
    /\ isr' = IF RI \/ WI
              THEN [pc |-> IF RI THEN "receive" ELSE "transmit",
                    wi |-> WI, more |-> TRUE, space |-> wspace]
              ELSE Off
    /\ UNCHANGED <<rx, tx, driver, device, call, result, ends>>

(* One turn of the inner receive loop: take a byte from the FIFO if the    *)
(* ring has room for it.  Reading the data register ends the pause         *)
(* condition; isr.more is RAVAIL of the value read.                        *)
IsrReceive ==
    /\ isr.pc = "receive"
    /\ ~Full(rx_in, rx_out)
    /\ pause_irq' = FALSE
    /\ \/ /\ rfifo # <<>>
          /\ rx_buf' = [rx_buf EXCEPT ![rx_in] = Head(rfifo)]
          /\ rx_in' = Wrap(rx_in + 1)
          /\ rfifo' = Tail(rfifo)
          /\ isr' = [isr EXCEPT !.more = (Tail(rfifo) # <<>>)]
       \/ /\ rfifo = <<>>
          /\ isr' = [isr EXCEPT !.more = FALSE,
                                !.pc = IF isr.wi THEN "transmit" ELSE "control"]
          /\ UNCHANGED <<rx_buf, rx_in, rfifo>>
    /\ UNCHANGED <<rx_out, tx, driver, wfifo, ac, call, result, ends>>

(* The ring is full: listen no more if the FIFO still holds bytes.         *)
IsrReceiveFull ==
    /\ isr.pc = "receive"
    /\ Full(rx_in, rx_out)
    /\ irq_enable' = IF isr.more THEN irq_enable \ {"RE"} ELSE irq_enable
    /\ isr' = [isr EXCEPT !.pc = IF isr.wi THEN "transmit" ELSE "control"]
    /\ UNCHANGED <<rx, tx, timeout, host_inactive, device, call, result, ends>>

(* One turn of the transmit loop; a full FIFO would drop the byte.         *)
IsrTransmit ==
    /\ isr.pc = "transmit" /\ isr.space > 0 /\ tx_out # tx_in
    /\ wfifo' = IF Len(wfifo) < Depth THEN Append(wfifo, tx_buf[tx_out]) ELSE wfifo
    /\ tx_out' = Wrap(tx_out + 1)
    /\ isr' = [isr EXCEPT !.space = @ - 1]
    /\ UNCHANGED <<rx, tx_buf, tx_in, driver, rfifo, pause_irq, ac, call,
                   result, ends>>

(* Space left over means that the ring is empty: stop asking for space.    *)
IsrTransmitDone ==
    /\ isr.pc = "transmit" /\ (isr.space = 0 \/ tx_out = tx_in)
    /\ irq_enable' = IF isr.space > 0 THEN irq_enable \ {"WE"} ELSE irq_enable
    /\ isr' = [isr EXCEPT !.pc = "control"]
    /\ UNCHANGED <<rx, tx, timeout, host_inactive, device, call, result, ends>>

(* altera_avalon_jtag_uart_timeout, the alarm that goes off every second.  *)
Timeout ==
    /\ Clock /\ isr.pc = "off"
    /\ \/ /\ ac
          /\ ac' = FALSE /\ host_inactive' = 0
       \/ /\ ~ac
          /\ host_inactive' = IF host_inactive < IntMax - 2
                              THEN host_inactive + 1 ELSE host_inactive
          /\ UNCHANGED ac
    /\ UNCHANGED <<rx, tx, irq_enable, timeout, rfifo, wfifo, pause_irq, isr,
                   call, result, ends>>

-----------------------------------------------------------------------------
(* The program, which runs while the handler does not.                     *)
At(op, pc) == call.op = op /\ call.pc = pc /\ isr.pc = "off"

(* The end of a call: what it returns, and back to the program.            *)
Return(status, n) ==
    /\ result' = [op |-> call.op, status |-> status, n |-> n,
                  nonblock |-> call.nonblock]
    /\ call' = Idle

(* The host counts as present while it has not been idle for long enough.  *)
Present == host_inactive < timeout

(* The status of a transfer of n bytes.                                    *)
Status(n) == IF n > 0 THEN "ok"
             ELSE IF call.nonblock THEN "EWOULDBLOCK" ELSE "EIO"

Begin ==
    /\ At("none", "idle")
    /\ \E op \in {"read", "write", "close"}, n \in 0..MaxCall, nb \in BOOLEAN :
          /\ op = "write" => Within(sent, accepted + n)
          /\ op = "close" => n = 0
          /\ call' = [Idle EXCEPT !.op = op, !.pc = "copy", !.left = n,
                                  !.nonblock = nb]
    /\ result' = None
    /\ UNCHANGED <<rx, tx, driver, device, isr, ends>>

(* altera_avalon_jtag_uart_read: how much to copy, the copy, the release   *)
(* of the bytes copied.                                                    *)
ReadSample ==
    /\ At("read", "copy")
    /\ LET n == Readable(rx_in, rx_out) IN
       call' = [call EXCEPT
                  !.in = rx_in, !.out = rx_out, !.n = Least(n, call.left),
                  !.pc = IF n > 0 /\ call.left > 0 THEN "take"
                         ELSE IF call.left = 0 \/ call.data # <<>> \/ call.nonblock
                         THEN "finish" ELSE "spin"]
    /\ UNCHANGED <<rx, tx, driver, device, isr, result, ends>>

ReadCopy ==
    /\ At("read", "take")
    /\ call' = [call EXCEPT
                  !.data = @ \o [j \in 1..call.n |-> rx_buf[call.out + j - 1]],
                  !.left = @ - call.n, !.pc = "advance"]
    /\ UNCHANGED <<rx, tx, driver, device, isr, result, ends>>

(* Mutated: everything seen is released, not only what was copied. *)
ReadAdvanceAll ==
    /\ At("read", "advance")
    /\ rx_out' = call.in
    /\ call' = [call EXCEPT !.pc = IF call.left > 0 THEN "copy" ELSE "finish"]
    /\ UNCHANGED <<rx_buf, rx_in, tx, driver, device, isr, result, ends>>

ReadAdvance ==
    /\ At("read", "advance")
    /\ rx_out' = Wrap(call.out + call.n)
    /\ call' = [call EXCEPT !.pc = IF call.left > 0 THEN "copy" ELSE "finish"]
    /\ UNCHANGED <<rx_buf, rx_in, tx, driver, device, isr, result, ends>>

(* Mutated: the wait of a read ends with a byte only. *)
ReadSpinForever ==
    /\ At("read", "spin")
    /\ call.in # rx_in
    /\ call' = [call EXCEPT !.pc = "look"]
    /\ UNCHANGED <<rx, tx, driver, device, isr, result, ends>>

(* No data: wait for a byte, or for the host to count as absent; and look  *)
(* again whether it was a byte.                                            *)
ReadSpin ==
    /\ At("read", "spin")
    /\ call.in # rx_in \/ ~Present
    /\ call' = [call EXCEPT !.pc = "look"]
    /\ UNCHANGED <<rx, tx, driver, device, isr, result, ends>>

ReadLook ==
    /\ At("read", "look")
    /\ call' = [call EXCEPT !.pc = IF call.in = rx_in THEN "finish" ELSE "copy"]
    /\ UNCHANGED <<rx, tx, driver, device, isr, result, ends>>

(* Mutated: only a read that got all it asked for listens again. *)
ReadFinishFull ==
    /\ At("read", "finish")
    /\ irq_enable' = IF call.left = 0 THEN irq_enable \cup {"RE"} ELSE irq_enable
    /\ received' = received \o call.data
    /\ Return(Status(Len(call.data)), Len(call.data))
    /\ UNCHANGED <<rx, tx, timeout, host_inactive, device, isr, sent, accepted,
                   shown>>

(* Listen again if the call made room, and return what was read.           *)
ReadFinish ==
    /\ At("read", "finish")
    /\ irq_enable' = IF call.data # <<>> THEN irq_enable \cup {"RE"} ELSE irq_enable
    /\ received' = received \o call.data
    /\ Return(Status(Len(call.data)), Len(call.data))
    /\ UNCHANGED <<rx, tx, timeout, host_inactive, device, isr, sent, accepted,
                   shown>>

(* altera_avalon_jtag_uart_write: how much fits, the copy, the release of  *)
(* the bytes to the handler.                                               *)
WriteSample ==
    /\ At("write", "copy")
    /\ LET n == Writable(tx_in, tx_out)
       IN  call' = IF call.left > 0
                   THEN [call EXCEPT !.in = tx_in, !.out = tx_out,
                                     !.n = Least(n, call.left),
                                     !.pc = IF n > 0 THEN "take" ELSE "kick"]
                   ELSE [call EXCEPT !.pc = "kick"]
    /\ UNCHANGED <<rx, tx, driver, device, isr, result, ends>>

WriteCopy ==
    /\ At("write", "take")
    /\ tx_buf' = [i \in Index |->
                    IF i \in call.in..(call.in + call.n - 1)
                    THEN accepted + 1 + (i - call.in) ELSE tx_buf[i]]
    /\ call' = [call EXCEPT !.left = @ - call.n, !.done = @ + call.n,
                            !.pc = "advance"]
    /\ UNCHANGED <<rx, tx_in, tx_out, driver, device, isr, result, ends>>

WriteAdvance ==
    /\ At("write", "advance")
    /\ tx_in' = Wrap(call.in + call.n)
    /\ accepted' = accepted + call.n
    /\ call' = [call EXCEPT !.pc = "copy"]
    /\ UNCHANGED <<rx, tx_buf, tx_out, driver, device, isr, result, sent,
                   received, shown>>

(* Mutated: the interrupt is turned on only when the ring was too small. *)
WriteKickIfFull ==
    /\ At("write", "kick")
    /\ irq_enable' = IF call.left > 0 THEN irq_enable \cup {"WE"} ELSE irq_enable
    /\ call' = [call EXCEPT !.pc = IF call.left > 0 /\ ~call.nonblock
                                   THEN "spin" ELSE "finish"]
    /\ UNCHANGED <<rx, tx, timeout, host_inactive, device, isr, result, ends>>

(* Have the handler called whenever there is space.                        *)
WriteKick ==
    /\ At("write", "kick")
    /\ irq_enable' = irq_enable \cup {"WE"}
    /\ call' = [call EXCEPT !.pc = IF call.left > 0 /\ ~call.nonblock
                                   THEN "spin" ELSE "finish"]
    /\ UNCHANGED <<rx, tx, timeout, host_inactive, device, isr, result, ends>>

(* Wait for the handler to take a byte, or for the host to count as        *)
(* absent; the call goes on only if the host was seen in the last second.  *)
WriteSpin ==
    /\ At("write", "spin")
    /\ call.out # tx_out \/ ~Present
    /\ call' = [call EXCEPT !.pc = "look"]
    /\ UNCHANGED <<rx, tx, driver, device, isr, result, ends>>

WriteLook ==
    /\ At("write", "look")
    /\ call' = [call EXCEPT !.pc = IF host_inactive > 0 THEN "finish" ELSE "copy"]
    /\ UNCHANGED <<rx, tx, driver, device, isr, result, ends>>

WriteFinish ==
    /\ At("write", "finish")
    /\ Return(Status(call.done), call.done)
    /\ UNCHANGED <<rx, tx, driver, device, isr, ends>>

(* altera_avalon_jtag_uart_close: wait until the ring is empty.            *)
Close ==
    /\ At("close", "copy")
    /\ \/ (tx_out = tx_in \/ ~Present) /\ Return("ok", 0)
       \/ tx_out # tx_in /\ Present /\ call.nonblock /\ Return("EWOULDBLOCK", 0)
    /\ UNCHANGED <<rx, tx, driver, device, isr, ends>>

(* altera_avalon_jtag_uart_ioctl.                                          *)
SetTimeout ==
    /\ At("none", "idle")
    /\ \E t \in 0..IntMax :
          timeout' = IF timeout = IntMax THEN timeout
                     ELSE IF t \in 2..(IntMax - 1) THEN t ELSE IntMax - 1
    /\ result' = [op |-> "settimeout", n |-> 0, nonblock |-> FALSE,
                  status |-> IF timeout = IntMax THEN "ENOTTY" ELSE "ok"]
    /\ UNCHANGED <<rx, tx, irq_enable, host_inactive, device, isr, call, ends>>

GetConnected ==
    /\ At("none", "idle")
    /\ result' = [op |-> "connected", nonblock |-> FALSE,
                  status |-> IF timeout = IntMax THEN "ENOTTY" ELSE "ok",
                  n |-> IF timeout # IntMax /\ Present THEN 1 ELSE 0]
    /\ UNCHANGED <<rx, tx, driver, device, isr, call, ends>>

-----------------------------------------------------------------------------
Host == HostSend \/ HostPause \/ HostReceive

Isr == \/ IsrEnter \/ IsrControl \/ IsrReceive \/ IsrReceiveFull
       \/ IsrTransmit \/ IsrTransmitDone

InCall == \/ ReadSample \/ ReadCopy \/ ReadAdvance \/ ReadSpin \/ ReadLook
          \/ ReadFinish \/ WriteSample \/ WriteCopy \/ WriteAdvance
          \/ WriteKick \/ WriteSpin \/ WriteLook \/ WriteFinish \/ Close

Next == Host \/ Isr \/ Timeout \/ Begin \/ InCall \/ SetTimeout \/ GetConnected

Spec == Init /\ [][Next]_vars

(* The processor runs the handler and the program's call, and a timer goes *)
(* on counting.                                                            *)
LiveSpec == Spec /\ WF_vars(Isr) /\ WF_vars(InCall) /\ WF_vars(Timeout)

(* A host at the other end collects what is there and pauses from time to  *)
(* time.                                                                   *)
Attached == WF_vars(HostReceive) /\ WF_vars(HostPause)
-----------------------------------------------------------------------------
Isrs == [pc : {"off", "control", "receive", "transmit"}, wi : BOOLEAN,
         more : BOOLEAN, space : 0..Depth]
Calls == [op : {"none", "read", "write", "close"},
          pc : {"idle", "copy", "take", "advance", "spin", "look", "kick",
                "finish"},
          left : Nat, data : Seq(Nat), done : Nat,
          in : Index, out : Index, n : 0..BufLen, nonblock : BOOLEAN]
Results == [op : {"none", "read", "write", "close", "settimeout", "connected"},
            status : {"ok", "EIO", "EWOULDBLOCK", "ENOTTY"},
            n : Nat, nonblock : BOOLEAN]

(* Every variable keeps its type.                                          *)
JtagTypeOK ==
    /\ rx_buf \in [Index -> Nat] /\ rx_in \in Index /\ rx_out \in Index
    /\ tx_buf \in [Index -> Nat] /\ tx_in \in Index /\ tx_out \in Index
    /\ irq_enable \subseteq {"RE", "WE"}
    /\ timeout \in 2..IntMax /\ host_inactive \in 0..(IntMax - 2)
    /\ rfifo \in Seq(Nat) /\ Len(rfifo) <= Depth
    /\ wfifo \in Seq(Nat) /\ Len(wfifo) <= Depth
    /\ pause_irq \in BOOLEAN /\ ac \in BOOLEAN
    /\ isr \in Isrs /\ call \in Calls /\ result \in Results
    /\ sent \in Nat /\ accepted \in Nat
    /\ received \in Seq(Nat) /\ shown \in Seq(Nat)

(* No wakeup for a filled transmit ring is lost: either the device will    *)
(* interrupt when it has space, or the write that filled the ring has yet  *)
(* to turn the interrupt on.                                               *)
Filling == call.op = "write" /\ call.pc \in {"copy", "take", "advance", "kick"}
NoLostWakeup == tx_in # tx_out /\ ~Filling => "WE" \in irq_enable

(* A write that fails with EIO found no host ("-EIO; Host not connected"). *)
EioMeansNoHost ==
    [][result' # result /\ result'.op = "write" /\ result'.status = "EIO"
         => ~Present]_vars

(* Both directions are byte streams.                                       *)
Inward  == INSTANCE ByteStream WITH put <- sent, got <- received
Outward == INSTANCE ByteStream WITH put <- accepted, got <- shown
InStream  == Inward!Spec
OutStream == Outward!Spec
Streams   == InStream /\ OutStream

-----------------------------------------------------------------------------

(* Every byte the program has handed over reaches a host that collects.    *)
BytesAreShown ==
    Attached => \A k \in UNION {1..b.out : b \in Bounds} :
                    accepted >= k ~> Len(shown) >= k

(* A read that waits gets the bytes of a host that pauses after them.      *)
ReadersServed ==
    Attached => (call.op = "read" /\ sent > Len(received) ~> call.op = "none")

(* With a timer and a timeout that can be reached, a call ends even though *)
(* the host has gone for good.                                             *)
HostGone == <>[][~Host]_vars /\ <>[](timeout < IntMax - 1)
CallsGiveUp == HostGone => (call.op # "none" ~> call.op = "none")
=============================================================================
