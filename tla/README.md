# A verification project for the wire-frame GPU

The repository is a wire-frame renderer for the DE2-115 board: a Nios II program reads a `cube.obj`
and writes up to twelve triangles into registers; SystemVerilog hardware rotates them by one step
of an angle per frame, projects them, rasterizes their 36 edges into 36 FIFOs, and draws those into
one of two frame buffers while a VGA controller shows the other.  The program runs on a board
support package whose drivers and HAL are part of the tree.  This directory models hardware,
program and the parts of the HAL that keep state in TLA+, checks them with TLC, and proves with
TLAPS, for all sizes, every safety property and every refinement that TLC checks on small instances
(three of them under a condition that section 4 names):
of the edge rasterizer, the polygon rasterizer, the renderer as a whole, the projection and its
arithmetic, the program, the JTAG UART driver, the descriptors and the calls on them, the alarms, the
time of day and the interrupts.

All paths below are relative to `src/src/`; `BSP` is `software/finalproject_app_bsp`.  Only the
files the build uses are modelled; `rasterizeline.sv`, `projection.sv`, `test_toplevel.sv` and
`testbench.sv` are older versions that stay in the tree.

## 1. The system

| part | state it keeps | operations | hard part |
|---|---|---|---|
| edge rasterizer, `linerasterize.sv` (x 36) | endpoints' min/max, slope flags, Bresenham `x, y, p`, `size`, `is_done`, `is_calculating` | start, one setup or loop state per cycle, pop | error term in every octant, 9-bit wrap-around, stale flags, FIFO without over/underflow checks |
| line FIFO, `lineoutput.v` (x 36) | 512 words of 18 bits, output register | write, read | checking is OFF |
| polygon rasterizer, `polygonRaster.sv` 1-290 | FSM, `counter`, `muxselect`, `rasterDone`, `bufferEmpty`, `ANGLE_ADDRESS` | startRaster, readCoord | one counter with two meanings, unordered completions, latency of the angle tables, registers left over from the last frame |
| triangle projection, `polygonRaster.sv` 322-402 (x 12) | FSM, `DONE` | START | `DONE` of the last frame |
| vertex projection, `polygonRaster.sv` 414-839 (x 36) | FSM, `tempx..z`, flip flags, `newx..z`, `DONE` | START | samples the rotated vertex in several states, signed fixed point |
| divider, multiplier, `polygonRaster.sv` 844-998 | working registers, `reg_count`, `reg_done` | start | termination, last bit, sign, overflow |
| tables `sin.v`, `cos.v`, `neg_sin.v` | address and output register | read | latency 2 |
| render loop, `top.sv` 156-319 | `State`, `memCounter` | one state per cycle | no handshake with polygonRaster except `rasterDone` and `bufferEmpty`, levels used as events |
| frame buffers, `GBUFFER1.v`, `GBUFFER2.v` | 76800 words of 3 bits | write (CLOCK_50), read (VGA_CLK) | two clocks |
| display, `output_files/output_screen.sv` | `select`, `frame_switched` | vertical sync | samples `DRAW_DONE` across clocks |
| `VGA_controller.sv`, `vga_clk.v` | pixel counters, sync pulses | count | vertical sync every 840,000 cycles of CLOCK_50 |
| `registerfile.sv`, `arrayPacker` | 128 registers | Avalon write, wires to the renderer | writes during a frame |
| `main.cpp` | `tracker`, `size`, vectors | parse, write, start | more than 12 triangles, bad files |
| JTAG UART driver, `BSP/drivers/src/altera_avalon_jtag_uart_*.c` | two rings, `irq_enable`, `timeout`, `host_inactive` | read, write, close, ioctl, interrupt handler, alarm | the handler and the calls share the rings without a lock; wakeups; an absent host |
| file descriptors, `BSP/HAL/src/alt_open.c`, `alt_close.c`, `alt_get_fd.c`, ... | `alt_fd_list`, `alt_max_fd` | open, close, lock, unlock, fcntl, redirection | opens that fail half way, handles left behind, the high water mark |
| calls on descriptors, `alt_read.c`, ..., `BSP/drivers/src/altera_hostfs.c` | the host's files and the place of each handle in its file | read, write, lseek, fstat, isatty | requests served in part, errors beside bytes that moved, handles given out again |
| alarms, `BSP/HAL/src/alt_tick.c`, `alt_alarm_start.c` | a list in memory, `_alt_nticks` | start, stop, tick, callback | callbacks change the list being walked, the counter wraps |
| time of day, `alt_gettod.c`, `alt_settod.c` | `alt_resettime` | set, get | borrow, carry, products that overflow, rates that do not divide a second |
| interrupts, `alt_irq_handler.c`, `alt_iic.c`, `alt_legacy_irq.h` | handler table, `alt_irq_active`, `alt_priority_mask`, `ienable`, `status` | register, enable, disable, dispatch, nest | anything in between two accesses |
| rest of the BSP, Nios II system, `HexDriver.sv` | | | not modelled (section 9) |

How they interact.  `main.cpp` stores vertices and sets register 126; the render loop leaves
`WAIT2` and never returns to it.  For each frame it raises `startRaster` for one cycle, clears the
back buffer (two cycles per word) while polygonRaster works, waits for `rasterDone`, and then
repeats a three-cycle beat: `readCoord` (polygonRaster in S5 pops a FIFO), write the pixel on the
`coord` bus (polygonRaster in S6), look at `bufferEmpty`.  It then holds `DRAW_DONE` until
`frame_switched`.  Everything but the display runs on CLOCK_50; the display looks at `DRAW_DONE` at
each falling edge of VGA_VS.  Inside polygonRaster the FSM starts all triangle projections at once
and waits until each `DONE` is high, starts all lines at once, waits for them in order, and drains
the FIFOs in order.

The program reaches its file through the host: `ifstream` opens `/mnt/host/...` in the descriptor
table, whose file system asks the debugger at the other end of the JTAG cable for every byte.  The
standard streams are redirected to `/dev/jtag_uart_0` before `main` runs.  The UART driver registers
its handler with the interrupt tables and its idle timer with the alarms; the alarms are driven by
`alt_tick` in the interrupt of a system clock.  This build has no system clock (`ALT_SYS_CLK none`,
`BSP/system.h:196`): the alarms cannot be started, and the driver then never gives up on a host.  The models
cover both systems.  The HAL runs one thread; concurrency is between it, the interrupts, the devices
and the host.

What makes each part correct: the line is the right line and the FIFOs hold what the flags say;
frames are whole and of one angle; projection yields the nearest pixel; the arithmetic is exact up to
its documented bits; the hardware draws what the file says; the UART is a byte stream each way that
never stalls; descriptors refer to what was opened; alarms go off at their tick; interrupts see no
half update.

## 2. The modules

| module | models | its state and actions |
|---|---|---|
| `LineContract` | what polygonRaster may expect of an edge rasterizer | an edge, `ready`, `fifoSize`, the pixels left; Start, Finish, Read |
| `LineRasterizer` | `linerasterize.sv` with its FIFO | one action per state of the FSM (S1 is Plot and Finish), Start, Read; registers modulo `M` |
| `RasterContract` | what polygonRaster promises to top.sv | `angle`, `rasterDone`, `bufferEmpty`, the pixels left, `coord`; StartFrame, FinishFrame, ReadPixel, TakePixel |
| `PolygonRaster` | `polygonRaster` with triangles, vertices and lines, in lockstep | `RasterCycle`: one cycle of all parts; one operator per FSM state; `startRaster`, `readCoord` are parameters |
| `RenderLoop` | the FSM of `top.sv` and the frame buffers | one action per pair of states (the code for buffer2 and for buffer1 is the same); inputs are parameters |
| `OutputScreen` | the switch of `output_screen.sv` | VSync |
| `Gpu` | the composition | Tick (PolygonRaster and RenderLoop in the same cycle), VSync, Host |
| `FixedPoint` | the words of the arithmetic: width `N`, `Q` bits after the point, sign and magnitude | |
| `Divider`, `Multiplier` | the units in `polygonRaster.sv` | Start, Step; one bit per step |
| `Projection` | rotation and `projection` of one vertex | one action per state S00..DONESTATE1, Start, the answers of the units |
| `NiosProgram` | `main.cpp`, the registers, `arrayPacker` and the hardware that reads them | Clear, ReadLine, WriteFace, WriteSize, WriteStart; RunAgain; HwStart, HwTake, HwNextFrame |
| `ByteStream` | what either direction of the UART promises | Put, Get |
| `JtagUart` | the driver on `soc_jtag_uart_0.v`, program and host | the handler in six actions, each call in two to six, the alarm, three actions of the host |
| `Descriptors` | what the descriptor table promises | Open, Close, Hold (if at most one other descriptor refers to the device), Release, Redirect |
| `FileTable` | the descriptor table and the host's open files | OpenWorks, OpenFails, Redirect, Close, Exclude, Include, SetFlags |
| `FileIO` | the calls on the descriptors of `FileTable`, the host's file and the place of each handle in it | read, write, lseek; `FilesFollow`, what opens and closes do to the files; fstat and isatty, which change nothing, are operators |
| `Countdown` | what a timer promises | Tick, Start, Stop, Call |
| `Alarms` | the list of alarms and the walk of `alt_tick` | alt_alarm_start, alt_alarm_stop, alt_tick, Visit, Return, TickEnd |
| `TimeOfDay` | `settimeofday`, `gettimeofday` | alt_sysclk_init, `alt_tick_counts` (the counter of alt_tick), settimeofday; gettimeofday is an operator |
| `Interrupts` | tables, masks, status, and the stack of what interrupted what | a call is taken apart at each access; Take, Look, LookAgain; the routine's Serve and returns |
| `LineRasterizer_proofs`, `JtagUart_proofs` | | theorems about the module of that name |
| `Gpu_proofs` | | theorems about `PolygonRaster` and `Gpu` |
| `Arithmetic_proofs` | | theorems about `Divider` and `Multiplier` |
| `Vertex_proofs` | | theorems about `NiosProgram` and `Projection` |
| `FileTable_proofs` | | theorems about `FileTable` and `FileIO` |
| `Kernel_proofs` | | theorems about `Interrupts`, `Alarms` and `TimeOfDay` |
| `NumberFacts` | | facts they share: div and mod, least numbers, induction over sets of numbers |
| `MC*` | constants for TLC, and three compositions (section 3) | |

Correspondence.  States keep the names of the enum constants, registers and variables the names of
the code (`rasterState`, `renderState`, `state` stand for the three variables called `State`).  Where a
state's work spans an `always_comb` and an `always_ff`, the action does both: `Registers` in
`PolygonRaster` is the `startRaster` branch that overrides what a state computes.  Combinational
outputs (`startRaster`, `readCoord`, `DRAW_DONE`, `startProj`, `start`, `coord`) are operators on the
state before the step, as the hardware sees them.

Abstractions.  A pixel is known by its frame buffer address; a frame buffer is the set of its white
addresses.  A vertex's result is the set of angles its inputs had while it was computed, so that a
vertex that mixes two angles is visible as a set of two.  The time a vertex spends in S1..S19 and
a line in T1..DONE is any number of cycles: `LineRasterizer` shows what a line does then, and
`LineContract` is what the two levels agree on (`is_done | !is_calculating` means finished, pops
deliver the line in order, start needs an idle line with an empty FIFO; `StartsIdleLines` shows that
polygonRaster gives it one).  The angle of a line is that of its vertices; which pixels an edge has
at an angle is the constant `LineOf`.

The divider and the multiplier are started by any operands, one calculation after another, and their
ports hold still meanwhile, as the registers of `projection` do.  `reg_working_quotient[reg_count] <= 1`
is an addition of `Pow2[count]`, since the invariant of the proofs (`DividingInv`) says that the bit was 0.  The multiplier counts from
0 to N and so reads `reg_multiplicand_temp[N]`, which does not exist: `Selected` lets that read yield 0
(what a simulator makes of x in an `if`) or bit 0 (what is left of the index when it is cut to the bits
it needs).  Only an odd multiplicand could tell them apart, so `EvenProductExact` is stated for even ones;
those of the screen coordinates are even, because quotients are.

The lines `LineContract` allows are measured by the edge function of `rasterizeline.sv:32`, whose
value is zero exactly on the ideal line.

In `Projection` registers are the integers that 32-bit words stand for, and `Wrap`, `Magnitude`,
`SignedWord` and the unsigned `Shifted` are what the operators of the code do to the words.  The units
answer after any number of cycles, with `Product` and `Quotient`, which are the results proved of
`Multiplier` and `Divider`.  The path of z is left out: nothing reads `newz`.

In `NiosProgram` a line of the file is what the program finds in it: a vertex, a face, something
else, or something too long for `getline`'s buffer.  What the file says (`Wanted`) is found by counting
its lines (`Nth`), not by reading it the way the program does.  Registers not in use keep what they held; the
start bit is bit 0 of its register.

In `JtagUart` bytes are numbered in the order in which they enter a direction.  The program does
not move while the handler runs; the host moves at any time.  `IsrTransmit` and `IsrReceive` are one turn
of a loop, so that the host may empty or fill the FIFO between two bytes.  The calls are cut where the
handler can change what they have read.  `atomicity` of the single words (`rx_in`, `tx_out`) is that of the
processor.

In `FileTable` a call is one step, because one thread makes them and no interrupt touches the
table; what the host answers, and whether it fails, is a choice.  `FileIO` tells bytes apart by their place
in the file, and extends the table: its handles are those that the table opens and closes.  The host answers a
request with two words, a result and an error number; how many bytes it has moved and whether it reports an
error are two choices, and the driver drops the result when there is an error.  `counted` is what the program
works out from the values its calls return, `doubt` what those that failed asked for.  In `TimeOfDay`, `wanted` is the
last time set, at which tick, and whether the counter has gone round since.  In `Interrupts` a frame of the stack is the program, an exception before its dispatch, or a
service routine; priorities are the bit numbers.

## 3. What is checked

| run | instance | properties |
|---|---|---|
| `line_rasterizer` | registers of 8 values, FIFO depth 7, endpoints from {0,1,3,4} squared | `PixelsNearLine`, `ReadyMeansComplete`, `IndInv`, refinement of `LineContract`, `LineFinishes` |
| `polygon_raster` | 2 triangles, 3 angles, edges of 1 to 3 pixels | `VerticesOfThisFrame`, `StartsIdleLines`, `PopsFinishedLines`, refinement of `RasterContract`, `FrameRasterized` |
| `gpu` | 1 triangle, 3 angles, 12 addresses | `FrameComplete`, `PixelTakenInTime`, `DrivesRaster`, `SwitchShowsWholeFrame`, `FramesKeepComing` |
| `gpu_tearing` | as `gpu` | `DrawsHiddenBuffer` is violated (section 6) |
| `arithmetic` | all five-bit words, two bits after the point | `QuotientWithinTwo`, `DivisionEnds`, `PartialProduct`, `EvenProductExact`, `MultiplicationEnds` |
| `divider_last_bit` | as `arithmetic` | `DividesExactly` is violated (section 6) |
| `projection` | words of 24 bits, the corners of the cube and six vertices written in part, 24 angles | `Projected`, `OnScreen`, `OperandsInRange`, `VertexProjected` |
| `projection_turns` | as `projection` | `RotatesAboutX` is violated (section 6) |
| `nios_program` | hardware for 2 triangles; six files; the program run twice | `StartsComplete`, `FrameShowsFile`, `FileIsShown` |
| `jtag` | rings of 3 bytes, FIFOs of 2; 4 bytes in, 5 out, one each way, and one out with a timer | `NoLostWakeup`, `Streams`, `BytesAreShown`, `ReadersServed`, `CallsGiveUp` |
| `files` | 5 descriptors, 2 devices, 3 handles, 6 names; for the calls, two of the descriptors on a file of up to 2 bytes | `HandlesLive`, refinement of `Descriptors`, `PlaceKnown` |
| `kernel` | 3 interrupts, 2 routines; 3 alarms, a counter of 6 ticks; 32-valued words, seconds of 10 parts, rates 1, 2, 3 and 5 | `UpdatesAtomic`, `OnlyHigherNests`, `WalksTheList`, refinement of `Countdown` (`OnTime`), `Elapsed` |

What they say:

- lines: every pixel lies within half a pixel of the ideal line; a line that looks finished is; every
  line ends; a polygon rasterizer may see it as `LineContract`.
- frames: no vertex mixes angles or frames, lines are started only when idle with an empty FIFO and
  popped only when finished, every frame gets ready; a buffer that is done holds the picture of its angle
  and nothing else; a pixel is taken in the one cycle it is on the bus; what a switch reveals is whole;
  frames keep coming.
- projection: `Projected` is the closed form, the perspective picture rounded to the nearest pixel up
  to the bits the quotient lacks, which does not mention any of the states; `OnScreen` and
  `OperandsInRange` justify what the line rasterizer and the units assume.
- program: on the first run the hardware does not start before every vertex is in place;
  a frame during which the program was done shows its file; a good file is shown.
- UART: what goes in comes out, once, in order, both ways; a ring with bytes has a wakeup coming;
  reads and writes are served by a host that is there; calls give up on one that is not, if there is a
  clock.
- files: no handle is used after its close or by two descriptors; a descriptor in use is not handed
  out; while a device is held nobody opens it; the program knows its place in each file, exactly as long as no call
  failed and otherwise to within what the failed ones asked for.
- kernel: an interrupt sees whole table entries and no switch is lost; only higher priorities nest;
  the alarm list stays one ring and the walk on it, unless a callback stops the alarm that comes next;
  every alarm is called at its tick; the time read is the time set plus the time elapsed, until the counter goes
  round: exactly if a tick is a whole number of microseconds and their product fitted a word when the time
  was set, to less than a second if it overflowed, and to less than two at any rate.

`arithmetic`, `files` and `kernel` each check parts that share no state.  `MCArithmetic`,
`MCFiles` and `MCKernel` choose one part in the initial state and let only that one move, so the
reachable states are the sum of the parts' and not their product.  What this leaves out is nothing:
`projection` never has both units busy; in the second part of `MCFiles` everything happens that changes a file,
and the first has what else changes the table; `alt_tick` runs in a service routine, which
`Interrupts` has.

Bounds, and why they are enough.

- `M = 8`, coordinates 0, 1, 3, 4: differences 0 to 4 in both directions give every octant, ties
  of the rounding, points, and steps of `p` on both sides of zero.  `Depth = M - 1` is the least
  depth the theorem allows, so an overflow would show.  The theorems cover all other widths.
- Two triangles give six lines and two `DONE`s that may come in any order; three angles make the
  address wrap and let FIFO lengths change from frame to frame.
- Twelve addresses make the clear 24 cycles long: the rasterizer may be done before and after it.
  On the board the clear (153,600 cycles) is always the later one.  `SYNC_GAP = 1`: at least one cycle
  between two vertical syncs, where the board has 840,000; a smaller gap allows more behaviours.
- `N = 5, Q = 2`: every pair of operands, so quotients that overflow, divisions by zero, both signs
  and remainders at each boundary occur.  The theorems cover all other widths.
- `Projection` has words of 24 bits because TLC's integers have 32; the angles are every 18th of
  the tables' 315 and those on both sides of each change of sign.  The theorems cover all precisions and
  tables.
- Six files: empty, fewer, as many and more triangles than the hardware draws, vertices between
  faces, a line too long; two runs make every pair of files follow each other.
- Rings of three bytes wrap after two, FIFOs of two are full and empty within a call of three; four
  and five bytes fill both and leave one over.  The four pairs of bounds (`MCBounds`) keep the directions
  from multiplying.
- Five descriptors are the standard streams and two more: one can be closed and reopened with the
  other in use.  Three handles, so that a stale one differs from a new one.  A file of two bytes and an error
  number: a request can be served not at all, in part and whole, each with an error and without.
- Words of 32 values and seconds of ten parts: the product of `settimeofday` overflows from the fourth second on
  (at rate 1, from tick 4 of 31), the counter goes round, rates 1, 2 and 5 divide a second and 3 does not.
- A counter of 6 ticks wraps within one delay; periods 1 and 5 are the shortest and the
  longest.  Three alarms are the least with which a callback can change the list before, at and
  after the next entry.  Three interrupts nest to depth three.

What is unbounded in the code and bounded here: the runs of the program (`MaxRuns`), the bytes of
either direction (`Bounds`) and of a call (`MaxCall`), the file (`MaxSize`), and the seconds that are set (`Seconds`).

Fairness.  `LineRasterizer` assumes that the clock does not stop while a line is calculated;
`PolygonRaster`, `Gpu`, `Projection` and `NiosProgram`'s hardware that clocks and the vertical sync never
stop, because nothing gates them.  `ArithmeticEnds` in `PolygonRaster` says that a vertex and a line
do not calculate for ever: for lines that is `LineFinishes`, for vertices `VertexProjected`, which in
turn assumes that the units answer: `DivisionEnds` and `MultiplicationEnds`.  The program of
`NiosProgram` goes on; that it is run again is never assumed.  In `JtagUart` the processor executes the handler
and the call it is in, and a timer counts; nothing is assumed of the host, except in
`BytesAreShown` and `ReadersServed`, which are implications from a host that collects and pauses
(`Attached`), and in `CallsGiveUp`, from one that is gone.

## 4. What is proved

`LineRasterizer_proofs` proves, for every `M > 1`, every FIFO depth of at least `M - 1`, and any set
of endpoints with coordinates below `M - 1`:

- `LineInvariant`: `Spec => []IndInv`;
- `LineTypeOK`, `LinePixelsNearLine`, `LineReadyMeansComplete`: the safety properties of the run;
- `LineImplementsContract`: `Spec => Contract!Spec`, that is, every step of the rasterizer is a step
  of `LineContract` or leaves its variables unchanged.

Argument.  `PixelsNearLine` is not inductive: it says nothing of `p`, and with another `p` the next
pixel would be off.  `IndInv` adds (`SetupInv`) what each of T1..T4 has computed; (`LoopInv`) that
`p` is exactly `2 * MinorLen * k - MajorLen * (2 * j + 1)`, the rounding error after `k` steps along the major
and `j` along the minor axis, and that `x` and `size` move with the FIFO; (`FifoInv`) that each pixel
in the FIFO is the rounded one for its column and that columns are consecutive; (`FlagInv`) which flags
go with which state.  `Rounded(k, j)` with `p` in its bounds gives `Rounded` for the next step in
either branch of S2, and `Rounded` bounds the edge function by half the longer side.  Depth and the
absence of wrap-around follow from `x <= MajorHi + 1 <= M - 1`.

`Arithmetic_proofs` proves of the divider, for every width `N > 1`, every `Q < N` and every pair of operands:

- `DividerInvariant`: `Spec => []IndInv`, where `IndInv` is `TypeOK /\ DividingInv /\ QuotientWithinTwo`;
- `DividerTypeOK`, `DividerQuotientWithinTwo`.

`QuotientWithinTwo` speaks of finished divisions only, so it is not inductive.  `DividingInv` follows a
division: `working_quotient * Divisor + working_dividend` is the dividend, the rest is less than twice
the shifted divisor, and the bits from `count` down are still 0.  When `count` is 0 the rest is below
twice the divisor and the quotient is even, and that even number is what `Finish` copies.  `Pow2` is a
constant with the laws of powers of two (`Pow2Assumption`), which TLC evaluates for `2^i`.

It proves of the multiplier, for every width and binary point and every pair of operands:

- `MultiplierInvariant`: `MulSpec => []MulInv`;
- `MultiplierPartialProduct`, `MultiplierEvenProductExact`.

Neither property is inductive alone: `EvenProductExact` speaks of finished products, `PartialProduct` of
those under way, and the additions of the code drop carries modulo 2^(2N-1).  `MulInv` adds the ranges
and that the multiplicand is below 2^(N-1), from which the sum of the bits seen stays within the
register.  `BitSplit` is the lemma about `w % 2^i` when one more bit is seen (`AddInv`); the last cycle, which reads past
the end, has a lemma of its own (`LastInv`): it adds nothing, or the multiplier shifted by N if bit 0 is set, which
it is not when the multiplicand is even.

`JtagUart_proofs` proves `JtagNoLostWakeup`: `Spec => []NoLostWakeup`, for every size of the rings
and the FIFOs, every threshold and every bound of the calls.  The property is inductive once it is known
that a call has an operation and a place in it (`WakeupInv`): the handler turns the interrupt off only
when it has found the ring empty (`IsrInv`), and a write that is not `Filling` any more has passed
`WriteKick` (`WriteInv`).

It also proves, under the same assumptions:

- `JtagTypes`: `Spec => []JtagTypeOK`;
- `JtagStreams`: `Spec => Streams`, that is, every step of driver, hardware, program and host is a
  step of `ByteStream` in either direction or leaves its variables unchanged.

Argument.  Bytes are numbered as they enter a direction, so that a stream is right when what leaves it
are the next numbers.  `StreamInv` says where each number is: `OutInv`, that what the host was shown, the
transmit FIFO, the ring from `tx_out` to `tx_in`, and what the call has just copied are consecutive; `InInv`, the same
from the call's buffer back through ring and FIFO to the host.  That survives the handler because of
`Grips`: a read that has looked at the ring holds on to bytes that nobody else takes out, and a write that
has looked holds on to room that nobody else fills, although both use indices sampled earlier.
`SpaceInv` says that the handler never writes to a full FIFO: the space it read can only have grown.
What happens to the entries of a ring when an index moves is in four lemmas (`CountRange`, `PutOne`, `TakeSome`,
`PutSome`).

`Gpu_proofs` proves of `PolygonRaster`, for any number of triangles and angles, any screen and any lines that are
not empty:

- `RasterInvariant`: `RasterSpec => []RasterInv`;
- `RasterVerticesOfThisFrame`, `RasterStartsIdleLines`, `RasterPopsFinishedLines`;
- `RasterImplementsContract`: `RasterSpec => ImplementsRasterContract`, the refinement of `RasterContract`.

None of the three is inductive.  `RasterInv` adds (`AngleInv`) that the two register stages of the
tables have caught up with the angle in `test1`, the state that starts the triangles; (`ProjectionInv`) that each triangle is at
rest, under way or done, that the `DONE`s of the last frame are cleared before they are looked at, and
that a vertex under way has seen the present angle only; (`LinesInv`) that lines before `counter` are
finished while they are waited for, that FIFOs before `muxselect` are empty and those after it complete while they are
drained, and that `counter` and what is left in the selected FIFO add up to its size.  Each part has
a lemma per group of states (`LinesPrepare`, `LinesWait`, `LinesDrain`).

The refinement needs to know what a frame will deliver before it is delivered: the concatenation of the
FIFOs, a recursive function; what it computes is shown by induction, with the set of the numbers of lines
for which it does (`Induction` of `NumberFacts`).  `DeliveryInv` adds to `RasterInv` that the two flags
follow the state machine (`FlagsInv`) and that the FIFO of a line that has finished holds its pixels at the angle
of this frame (`LinesHold`), which is what `FinishFrame` of the contract promises.

It proves of `Gpu`, for any screen, any distance of the vertical syncs and under the same assumptions:

- `GpuInvariant`: `Spec => []GpuInv`;
- `GpuFrameComplete`, `GpuPixelTakenInTime`, `GpuDrivesRaster`, `GpuSwitchShowsWholeFrame`.

Argument.  `InStep` says which states of the two machines meet: they share no handshake but two levels, and
that a pixel is asked for and taken in the right cycle is a fact about both.  `ClearInv` says how far clearing
has come, and that the rasterizer may be ready before or after; `PixelsInv`, that the pixels drawn, the one on the
bus and those left make up the picture of the frame's angle; `OtherInv`, that the buffer not being drawn holds the
picture before.  `GpuDrivesRaster` is what lets the theorems about `RasterSpec` be used in the
composition.

`Vertex_proofs` proves of `Projection`, for every precision, screen, set of vertices and table of sine and
cosine that `TablesAssumption` describes (section 5):

- `ProjectionInvariant`: `Spec => []ProjectionInv`;
- `ProjectionProjected`, `ProjectionOnScreen`, `ProjectionOperandsInRange`.

Argument.  The three properties speak of single states.  `ProjectionInv` says of every state what the registers
hold, as closed forms of the vertex and the angle (`AC`, `QX`, `PX`, `WX`, `NX`), so that nothing of an
earlier vertex is among them although no register but the few of S00 is reset.  The rest is arithmetic
about those forms: `RotationFacts`, that a y which the unsigned shift has moved by 4 still is not greater than
its distance; `CutFacts`, what a quotient lacks; `ScaleFacts` and `PixelFacts`, that the product loses less than one
and the rounding finds the nearest pixel; `ScreenFacts` puts them together.

It proves of `NiosProgram`, for any files, any number of triangles and runs:

- `NiosInvariant`: `NiosSpec => []NiosInv`;
- `NiosStartsComplete`, `NiosFrameShowsFile`;
- `NiosCoordinates`: the vertices the hardware takes are those `Projection` assumes.

Argument.  `ReadSoFar` ties `vals`, `size` and `tracker` to the lines read, by the number of vertices and faces
among them; `Written`, that the coordinates before `tracker` and `axis` are in their registers, which
survives the next write because no two have the same (`TurnsDiffer`); `StartBit`, that the start bit is set
only by a program that is done, or was done before it is run again, because a vertex that runs over the start
register has an even value; `Frames`, what the hardware may have taken.

`FileTable_proofs` proves, for every number of descriptors above 3 and any devices, file systems, names
and handles:

- `TableInvariant`: `Spec => []TableInv`;
- `TableHandlesLive`, `TableHighWater`, `TableStandardStreams`;
- `TableImplementsDescriptors`: `Spec => Promise!Spec`.

`HandlesLive` is not inductive: a close removes a handle from the host's files, so it needs that no other
descriptor has it, and the redirection copies descriptors, so it needs that the streams refer to
devices (`StreamsOnDevices`).  The refinement needs that a search up to `alt_max_fd` sees every holder,
which is `HighWater` with `HeldInUse`.  That `FirstFree` exists is well-foundedness of the naturals
(`WellFoundedInduction`).

It proves of `FileIO`, for files of any length and any table, `CallsPlaceKnown`: `CallsSpec => []PlaceKnown`.
The invariant is `TableInv` with `PlaceInv`.  A call moves the place of one handle and the count of
one descriptor, so the proof needs that no two descriptors share a handle (`OwnHandle`, from `HandlesLive`); an open
starts both at nothing, so it needs that a new handle was not open and its descriptor not in use
(`FileHandles`).  `Told` says what a return value tells of the bytes moved: their number, or nothing.

`Kernel_proofs` proves, for any number of interrupts, routines and alarms, any width of the words and any depth
of the stack:

- `InterruptsInvariant`, `InterruptsUpdatesAtomic`, and `InterruptsOnlyHigherNests` if nested routines do not
  switch interrupts (`~CallsNested`), the condition under which it is true (section 7);
- `AlarmsWalkTheList`, only if no callback stops the alarm that comes next (`~StopNext`, section 7);
- `AlarmsOnTime`: `AlarmSpec => OnTime`, the refinement of `Countdown`, for delays of at
  most `Width - 2`, one less than the longest, which does fail (section 7);
- `TimeOfDayElapsed`: `TimeSpec => []Elapsed`, for words, rates and times of any size, without a condition.

Argument.  `UpdatesAtomic` is about what an interrupt would see; `IrqInv` says of each frame of the stack at which
access it is and what it has loaded, that only a frame that can be interrupted has one above it, and so that what
a frame has loaded is still there when it stores.  `PriorityInv` adds that the masks of the nested
frames are those saved below them, each narrower than the one before.  For the alarms, `RingInv` says that the
pointers of the ring undo each other and that only the whole ring holds the head and is closed under `next`;
insertion and removal keep that, and `PlaceInv` keeps the walk on the ring.  `WalksTheList` asks for more,
that `Cardinality(Ring)` steps reach each entry: before the first that comes to an entry again all are different,
and it can only come to the head, when all have been reached (`RingReached`).  `TimesInv` says that the
alarms whose turn in this tick is outstanding lie ahead of the walk; the ticks an alarm has left, the refinement
mapping, come from its time, its rollover flag, the counter and that.  `TimeInv` is the
equation between the counter, the offset and the time set, in seconds and microseconds, with the product that may have
overflowed.  How far a count of seconds and microseconds is from the ticks it stands for is `Drift`, less than a
second either way (`DriftUnderSecond`) and nothing when a tick is a whole number of microseconds
(`NoDrift`); the time read is off by the difference of two, one of now and one of when the time was set.  When the
borrow in `gettimeofday` would go below zero it stops at zero, which is nearer to the time set (`Stopped`).

Only model-checked: liveness (`LineFinishes`, `FrameRasterized`, `FramesKeepComing`, `DivisionEnds`,
`MultiplicationEnds`, `VertexProjected`, `FileIsShown`, `BytesAreShown`, `ReadersServed`, `CallsGiveUp`),
which is out of the prover's reach with fairness and ENABLED.  The library's induction theorems, which take
an operator, are out of reach too; where induction is needed it is over the set of numbers for which
something holds (`LeastNumber`, `Induction`).

## 5. Assumptions worth knowing

- `CoordsAssumption`: no endpoint coordinate is the largest register value.  With 511, `x <= maxX` is
  true of every 9-bit `x`, and the line never ends.  `OnScreen` shows that the corners of the cube stay
  within 320 by 240.
- A start of a line needs the endpoints to hold still until the line is read; they do, since vertices
  are recomputed only after the next `startRaster`.
- Vertices have coordinates 1, -1 or, in unused registers, 0: those are the only values `main.cpp`
  writes, whatever the file says (`NiosCoordinates`).
- `TablesAssumption` of `Projection`: the magnitudes of sine and cosine add up to at least 1, and
  `neg_sin` is the negative of `sin` up to its last bit.  All 315 entries of the three `.mif` files
  satisfy it; TLC evaluates it for the angles of the run.  Without it a negative y, which the shift moves up by
  4, could leave the screen.  `WIDTH` and `HEIGHT` are less than `One`, as 319 and 239 are less than
  32768; a larger screen would overflow the multipliers.
- `FilesAssumption` of `NiosProgram`: faces name vertices that come before them (the code indexes without
  a check) and are so few that the registers do not end.
- A result of the host that comes without an error number is the number of bytes it moved, or the place it moved to;
  with one, any number of the bytes asked for may have been moved, and a seek may have led anywhere.
- `PlaceKnown` is about one program: what else writes to the host's file is not modelled.
- Times set are not negative, and their microseconds are less than a second; seconds do not overflow.  The rate of the
  system clock is any number but 0, as `alt_sysclk_init` takes it.  `Elapsed` says nothing of the time after the
  counter has gone round, 2^32 ticks after the start: the time then read starts over.
- Calls on descriptors are made with descriptors in use or -1; the code follows the pointer of others.
- The HAL runs one thread, as this build does.
- Metastability of `DRAW_DONE` and `frame_switched` between clock domains is not modelled beyond the
  choice of either value around an edge.

## 6. Disagreements between documentation and code

`top.sv:249` leaves S1 "Once VGA is done reading buffer1", `top.sv:283` leaves S3 "Once VGA is done
reading buffer2", `top.sv:253`: "otherwise, keep waiting till previous frame is done".  The code waits
for `frame_switched`, a level that `output_screen.sv` changes only at vertical syncs.  A frame takes
about 210,000 cycles, a refresh 840,000: after one switch the next finished frame finds the level still
high, does not wait, and the frame after it is cleared and drawn in the buffer on display.
`gpu_tearing` prints the trace.  The buffer that appears at a switch is nevertheless always whole when
it appears (`SwitchShowsWholeFrame`): DRAW_DONE is up only while neither buffer is being written.

`polygonRaster.sv:406` promises "division (a / b) - left shift a first by 15 bits, then divide by b".
The divider sets the last bit of `reg_working_quotient` (910) and copies that register into
`reg_quotient` (917) in the same cycle; both assignments are nonblocking, so the copy is taken before the
bit is there, and every odd quotient comes out one too small.  `divider_last_bit` prints a trace,
`QuotientWithinTwo` bounds the harm: 2^-15 of a unit, less than a hundredth of a pixel.

`README.md:10` of the repository lists "Rotation over X-Axis using fixed point math".  The wires of
`polygonRaster.sv:77-79` are that rotation, but `>> 15` is a logical shift of words that are not
declared signed: a negative sum becomes a large positive one, 4 units off.  `projection_turns` prints a
vertex and an angle.  `Projected` and `OnScreen` are about the wires as they are, and hold: the picture
stays on the screen, with the lower half of the model elsewhere.

## 7. Departures found on the way

These are properties a comment of the BSP states and TLC refutes, kept as definitions of the modules
without a run of their own.  To see one, put it in place of the INVARIANTs or PROPERTYs of the cfg named, with the
constant changed as said.

| definition, cfg | says | what happens |
|---|---|---|
| `LockedAlone`, `Files.cfg` | `alt_fd_lock.c`: the lock is granted "If there are no other open file descriptors which reference the same device" | the loop stops before `alt_max_fd`, so the highest descriptor is not looked at |
| `TerminalsOnly`, `Files.cfg` | `alt_isatty.c`: "If it is a terminal device then the return value is one, otherwise it is zero" | the answer of `fstat` is ignored, and the uninitialised `struct stat` decides when the host refuses |
| `EioMeansNoHost`, `JtagUart.cfg` | `altera_avalon_jtag_uart_write.c:214`: "-EIO; Host not connected" | a blocking write of no bytes is answered with it |
| `SetThenGet`, `Kernel.cfg` | `alt_settod.c`: "an immediate call to gettimeofday() would return the value specified" | the 32-bit product overflows; the time read is off by less than a second |
| `OnTime`, `Kernel.cfg`, `Delays = {0, 2, 5}` | an alarm is called at its tick | the longest delay comes round to the present tick and is called at once |
| `WalksTheList`, `Kernel.cfg`, `StopNext = TRUE` | the walk is on the list | a callback that stops the alarm that is next leaves the walk on a removed entry |
| `OnlyHigherNests`, `Kernel.cfg`, `CallsNested = TRUE` | `alt_legacy_irq.h`: only higher priorities interrupt an interruptible routine | `alt_irq_enable` writes `alt_irq_active` to `ienable` without `alt_priority_mask` |
| `EndsOnZero`, `Kernel.cfg` | `alt_irq_handler.c`: the loop ends when `alt_irq_pending` returns zero | a request withdrawn between entry and dispatch leaves the inner loop without a bit to find |

The first five come from the legal use of a call; the last three need a routine or a device to do what
this program and its one device do not.

At a rate that does not divide a second `gettimeofday` is off besides, without a comment that says otherwise: at
1024 ticks a second it reads 1.999424 s after 1024 ticks and 1.000400 s after 1025, because the seconds come from
the ticks and the microseconds from a tick rounded down.  `Elapsed` bounds that too.

## 8. Hazards

They are listed with their lines in `PROJECT.json`, each with the properties that would catch it
going wrong.  Notes say where a property holds only under a condition.

## 9. Not modelled

- The rest of the BSP: heap and cache (`alt_sbrk`; `alt_dcache_flush` and `alt_remap_*`, which have nothing
  to do, because the processor has no data cache: `ALT_CPU_DCACHE_SIZE 0`, `BSP/system.h:74`), start-up and
  exception entry (`crt0.S`, `alt_load`, `alt_main`, `alt_exception_*`), profiling (`alt_gmon`), stubs
  that return `ENOSYS` (`alt_fork`, `alt_kill`, ...), device lists that are empty in this system (DMA, flash),
  logging and formatting (`alt_log_printf`, `alt_printf`).  They are straight-line code, assembly, text
  or compiled out, without interaction a model could get wrong in an interesting way.
- `system.h`, `linker.h`, register macros (`nios2.h`, `*_regs.h`), which are constants, and the licence
  text that fills the first 30 to 50 lines of every file of the BSP.  This is most of what the map does
  not cover; SystemVerilog lines are mapped as well.
- The Nios II processor, SDRAM controller and interconnect (`soc/synthesis`), vendor code that is
  generated, except for the FIFOs of `soc_jtag_uart_0.v` and `registerfile.sv`; the PLL; `HexDriver.sv`, a decoder.
- The path of z in `projection`, the contents of the tables between the angles used, the read ports of the
  frame buffers and the pixel counters of `VGA_controller.sv`: nothing interacts with them but
  through what is modelled.

## 10. Plan

Done: all modules of section 2 and the theorems of section 4.

Left, in this order:

1. `VgaController`: one fall of VGA_VS per 525 lines, which justifies `SYNC_GAP`.
2. The heap (`alt_sbrk`) and the exception entry, the parts of the BSP that keep state and are not modelled.
