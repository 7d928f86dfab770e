---------------------------- MODULE PolygonRaster ----------------------------
(***************************************************************************)
(* polygonRaster.sv: on startRaster the rotation angle advances, every     *)
(* triangle is projected, every edge is rasterized into the FIFO of its    *)
(* own line module, and the FIFOs are then popped one after the other, one *)
(* pixel per readCoord.                                                    *)
(*                                                                         *)
(* Everything runs on CLOCK_50: a step of this module is one clock cycle,  *)
(* in which the state machine, the angle register and its lookup table,    *)
(* the triangle and vertex projections and the lines all move at once,     *)
(* each on what the others' registers held before.  The inputs startRaster *)
(* and readCoord are parameters of the step.                               *)
(*                                                                         *)
(* Data: a vertex is known by the angles its coordinates were computed     *)
(* from, and a pixel by its frame buffer address.  The arithmetic of a     *)
(* projection and of a line takes any number of cycles; LineRasterizer     *)
(* shows what a line does with them.                                       *)
(***************************************************************************)
EXTENDS Integers, Sequences, FiniteSets

CONSTANTS NUM_TRIANGLES,
          NUM_ANGLES,    \* entries of the sine table in use (314)
          Screen,        \* frame buffer addresses
          LineOf         \* LineOf[a][l]: the pixels of edge l at angle a

NUM_LINES == 3 * NUM_TRIANGLES
Triangles == 0..(NUM_TRIANGLES - 1)
Vertices == Triangles \X (0..2)
Lines == 0..(NUM_LINES - 1)
Angles == 0..(NUM_ANGLES - 1)

ASSUME RasterAssumption ==
    /\ NUM_TRIANGLES \in Nat \ {0}
    /\ NUM_ANGLES \in Nat \ {0}
    /\ Screen \subseteq Nat
    /\ LineOf \in [Angles -> [Lines -> Seq(Screen)]]
    /\ \A a \in Angles, l \in Lines : LineOf[a][l] # <<>>

VARIABLES rasterState, counter, muxselect, rasterDone, bufferEmpty,
          ANGLE_ADDRESS,
          romAddress, romOut,     \* the two register stages of the sin/cos tables
          triState, projDone,     \* triangleProjection, per triangle
          projState, sampled,     \* projection, per vertex: its state, the angles
          newx, vertexDone,       \*   it has used, its result and its DONE
          lineState, is_done, is_calculating, fifoSize, fifo, q   \* the lines

fsm == <<rasterState, counter, muxselect, rasterDone, bufferEmpty>>
angle == <<ANGLE_ADDRESS, romAddress, romOut>>
triangles == <<triState, projDone>>
projections == <<projState, sampled, newx, vertexDone>>
lines == <<lineState, is_done, is_calculating, fifoSize, fifo, q>>
rasterVars == <<fsm, angle, triangles, projections, lines>>

RasterInit ==
    /\ rasterState = "INITIAL" /\ counter = 0 /\ muxselect = 0
    /\ rasterDone = FALSE /\ bufferEmpty = FALSE
    /\ ANGLE_ADDRESS = 0 /\ romAddress = 0 /\ romOut = 0
    /\ triState = [t \in Triangles |-> "WAIT"]
    /\ projDone = [t \in Triangles |-> FALSE]
    /\ projState = [v \in Vertices |-> "WAIT"]
    /\ sampled = [v \in Vertices |-> {}]
    /\ newx = [v \in Vertices |-> {}]
    /\ vertexDone = [v \in Vertices |-> FALSE]
    /\ lineState = [l \in Lines |-> "INITIAL"]
    /\ is_done = [l \in Lines |-> FALSE]
    /\ is_calculating = [l \in Lines |-> FALSE]
    /\ fifoSize = [l \in Lines |-> 0]
    /\ fifo = [l \in Lines |-> <<>>]
    /\ q \in [Lines -> {CHOOSE a \in Screen : TRUE}]
-----------------------------------------------------------------------------
(* Combinational outputs of the state machine.                             *)
startProj == rasterState = "test1"
start == rasterState = "STARTRAST"
readFIFO(readCoord, l) == rasterState = "S5" /\ readCoord /\ l = muxselect

(* The registered part of a state's outputs: startRaster overrides it.     *)
Registers(startRaster, c, m, done, empty) ==
    /\ counter' = IF startRaster THEN 0 ELSE c
    /\ muxselect' = IF startRaster THEN 0 ELSE m
    /\ rasterDone' = (~startRaster /\ done)
    /\ bufferEmpty' = (~startRaster /\ empty)

Hold(startRaster) == Registers(startRaster, counter, muxselect, rasterDone, bufferEmpty)

-----------------------------------------------------------------------------
(* Mutated forms of operators below, with which the properties at the end  *)
(* of this module do not hold.                                             *)

(* START watches the wrong line. *)
STARTFirstLine(startRaster) ==
    /\ rasterState = "START"
    /\ rasterState' = IF is_done[0] \/ ~is_calculating[0] THEN "S3" ELSE "START"
    /\ Hold(startRaster)

(* S6 stops one FIFO early. *)
S6OneFifoShort(startRaster) ==
    /\ rasterState = "S6"
    /\ \/ /\ counter = fifoSize[muxselect] /\ muxselect = NUM_LINES - 2
          /\ rasterState' = "INITIAL"
          /\ Registers(startRaster, counter, muxselect, rasterDone, TRUE)
       \/ /\ counter = fifoSize[muxselect] /\ muxselect # NUM_LINES - 2
          /\ rasterState' = "S5"
          /\ Registers(startRaster, 0, muxselect + 1, rasterDone, bufferEmpty)
       \/ /\ counter # fifoSize[muxselect]
          /\ rasterState' = "S5"
          /\ Hold(startRaster)

(* S6 takes the first pixel of the last FIFO for the last one. *)
S6LastFifo(startRaster) ==
    /\ rasterState = "S6"
    /\ \/ /\ muxselect = NUM_LINES - 1
          /\ rasterState' = "INITIAL"
          /\ Registers(startRaster, counter, muxselect, rasterDone, TRUE)
       \/ /\ counter = fifoSize[muxselect] /\ muxselect # NUM_LINES - 1
          /\ rasterState' = "S5"
          /\ Registers(startRaster, 0, muxselect + 1, rasterDone, bufferEmpty)
       \/ /\ counter # fifoSize[muxselect] /\ muxselect # NUM_LINES - 1
          /\ rasterState' = "S5"
          /\ Hold(startRaster)
-----------------------------------------------------------------------------
Idle(startRaster) ==
    /\ rasterState = "INITIAL"
    /\ rasterState' = IF startRaster THEN "test4" ELSE "INITIAL"
    /\ Hold(startRaster)

(* test4 .. test1 cover the latency of the angle tables.                   *)
Delay(startRaster) ==
    /\ \/ rasterState = "test4" /\ rasterState' = "test3"
       \/ rasterState = "test3" /\ rasterState' = "test2"
       \/ rasterState = "test2" /\ rasterState' = "test1"
       \/ rasterState = "test1" /\ rasterState' = "STARTPROJ"
    /\ Hold(startRaster)

STARTPROJ(startRaster) ==
    /\ rasterState = "STARTPROJ"
    /\ rasterState' = IF \A t \in Triangles : projDone[t] THEN "STARTRAST" ELSE "STARTPROJ"
    /\ Hold(startRaster)

STARTRAST(startRaster) ==
    /\ rasterState = "STARTRAST"
    /\ rasterState' = "START"
    /\ Hold(startRaster)

(* Wait for the line the counter points at.                                *)
START(startRaster) ==
    /\ rasterState = "START"
    /\ rasterState' = IF is_done[counter] \/ ~is_calculating[counter] THEN "S3" ELSE "START"
    /\ Hold(startRaster)

S3(startRaster) ==
    /\ rasterState = "S3"
    /\ rasterState' = "S1"
    /\ Registers(startRaster, counter + 1, muxselect, rasterDone, bufferEmpty)

S1(startRaster) ==
    /\ rasterState = "S1"
    /\ \/ /\ counter = NUM_LINES
          /\ rasterState' = "S4"
          /\ Registers(startRaster, 0, muxselect, rasterDone, bufferEmpty)
       \/ /\ counter # NUM_LINES
          /\ rasterState' = "START"
          /\ Hold(startRaster)

S4(startRaster) ==
    /\ rasterState = "S4"
    /\ rasterState' = "S5"
    /\ Registers(startRaster, counter, muxselect, TRUE, bufferEmpty)

S5(startRaster, readCoord) ==
    /\ rasterState = "S5"
    /\ \/ /\ readCoord
          /\ rasterState' = "S6"
          /\ Registers(startRaster, counter + 1, muxselect, rasterDone, bufferEmpty)
       \/ /\ ~readCoord
          /\ rasterState' = "S5"
          /\ Hold(startRaster)

S6(startRaster) ==
    /\ rasterState = "S6"
    /\ \/ /\ counter = fifoSize[muxselect] /\ muxselect = NUM_LINES - 1
          /\ rasterState' = "INITIAL"
          /\ Registers(startRaster, counter, muxselect, rasterDone, TRUE)
       \/ /\ counter = fifoSize[muxselect] /\ muxselect # NUM_LINES - 1
          /\ rasterState' = "S5"
          /\ Registers(startRaster, 0, muxselect + 1, rasterDone, bufferEmpty)
       \/ /\ counter # fifoSize[muxselect]
          /\ rasterState' = "S5"
          /\ Hold(startRaster)

StateMachine(startRaster, readCoord) ==
    \/ Idle(startRaster) \/ Delay(startRaster)
    \/ STARTPROJ(startRaster) \/ STARTRAST(startRaster)
    \/ START(startRaster) \/ S3(startRaster) \/ S1(startRaster)
    \/ S4(startRaster) \/ S5(startRaster, readCoord) \/ S6(startRaster)

(* The angle advances with startRaster and wraps one cycle later; the      *)
(* tables register their address and then their output.                    *)
RotateAngle(startRaster) ==
    /\ ANGLE_ADDRESS' = IF ANGLE_ADDRESS > NUM_ANGLES - 1 THEN 0
                        ELSE IF startRaster THEN ANGLE_ADDRESS + 1 ELSE ANGLE_ADDRESS
    /\ romAddress' = ANGLE_ADDRESS
    /\ romOut' = romAddress
-----------------------------------------------------------------------------
(* triangleProjection: starts its three vertices and waits for them.       *)
projStart(t) == triState[t] = "S1"

(* A mutated form of TriangleStep: DONE of the last frame is kept. *)
TriangleKeepsDone(t) ==
    CASE triState[t] = "WAIT"      -> <<IF startProj THEN "S1" ELSE "WAIT", FALSE>>
      [] triState[t] = "S1"        -> <<"S2", projDone[t]>>
      [] triState[t] = "S2"        -> <<IF \A i \in 0..2 : vertexDone[<<t, i>>]
                                        THEN "DONESTATE" ELSE "S2", projDone[t]>>
      [] triState[t] = "DONESTATE" -> <<IF startProj THEN "S1" ELSE "DONESTATE", TRUE>>

TriangleStep(t) ==
    CASE triState[t] = "WAIT"      -> <<IF startProj THEN "S1" ELSE "WAIT", FALSE>>
      [] triState[t] = "S1"        -> <<"S2", projDone[t]>>
      [] triState[t] = "S2"        -> <<IF \A i \in 0..2 : vertexDone[<<t, i>>]
                                        THEN "DONESTATE" ELSE "S2", projDone[t]>>
      [] triState[t] = "DONESTATE" -> <<IF startProj THEN "S1" ELSE "DONESTATE", ~startProj>>

TriangleProjections ==
    /\ triState' = [t \in Triangles |-> TriangleStep(t)[1]]
    /\ projDone' = [t \in Triangles |-> TriangleStep(t)[2]]

(* projection, from state S1 (which samples Z) to DONESTATE1: `calc' may   *)
(* last any number of cycles, and reads the rotated coordinates in S4 and  *)
(* S7..S9, here in every one of them.  Vertices of `finished' end now.     *)
Calculating == {v \in Vertices : projState[v] = "calc"}

VertexStates(v, finished) ==
    CASE projState[v] \in {"WAIT", "DONESTATE2"} -> IF projStart(v[1]) THEN "S0" ELSE projState[v]
      [] projState[v] = "S0"   -> "S1"
      [] projState[v] = "S1"   -> "calc"
      [] projState[v] = "calc" -> IF v \in finished THEN "DONESTATE2" ELSE "calc"

(* A mutated form of VertexProjections: DONE lasts a single cycle. *)
VertexDonePulses(finished) ==
    /\ projState' = [v \in Vertices |-> VertexStates(v, finished)]
    /\ sampled' = [v \in Vertices |-> IF projState[v] = "S0" THEN {}
                                      ELSE IF projState[v] \in {"S1", "calc"}
                                           THEN sampled[v] \cup {romOut} ELSE sampled[v]]
    /\ newx' = [v \in Vertices |-> IF projState[v] \in {"WAIT", "S0"} THEN {}
                                   ELSE IF v \in finished THEN sampled[v] \cup {romOut}
                                        ELSE newx[v]]
    /\ vertexDone' = [v \in Vertices |-> v \in finished]

VertexProjections(finished) ==
    /\ projState' = [v \in Vertices |-> VertexStates(v, finished)]
    /\ sampled' = [v \in Vertices |-> IF projState[v] = "S0" THEN {}
                                      ELSE IF projState[v] \in {"S1", "calc"}
                                           THEN sampled[v] \cup {romOut} ELSE sampled[v]]
    /\ newx' = [v \in Vertices |-> IF projState[v] \in {"WAIT", "S0"} THEN {}
                                   ELSE IF v \in finished THEN sampled[v] \cup {romOut}
                                        ELSE newx[v]]
    /\ vertexDone' = [v \in Vertices |-> \/ v \in finished
                                         \/ vertexDone[v] /\ ~(/\ projState[v] = "DONESTATE2"
                                                               /\ projStart(v[1]))]
-----------------------------------------------------------------------------
(* Edge l joins vertices i and i+1 mod 3 of triangle l \div 3.             *)
Ends(l) == {<<l \div 3, l % 3>>, <<l \div 3, (l + 1) % 3>>}

(* The angles the vertices of edges ls were computed from: one angle, when *)
(* all is well.                                                            *)
EdgeAngles(ls) == UNION {newx[v] : v \in UNION {Ends(l) : l \in ls}}

(* Pop of a line's FIFO; underflow_checking is OFF, so popping an empty    *)
(* one yields any word.                                                    *)
Popped(f) == IF f # <<>> THEN {<<Head(f), Tail(f)>>} ELSE {<<a, <<>>>> : a \in Screen}

Drawing == {l \in Lines : lineState[l] = "calc"}

(* The lines, as LineContract describes them: those in `complete' finish   *)
(* in this cycle (state DONE) with the pixels of angle a in their FIFOs;   *)
(* `pop' is what readFIFO yields.                                          *)
LineSteps(readCoord, complete, a, pop) ==
    /\ lineState' = [l \in Lines |->
         CASE lineState[l] = "INITIAL"    -> IF start THEN "calc" ELSE "INITIAL"
           [] lineState[l] = "calc"       -> IF l \in complete THEN "clear_calc" ELSE "calc"
           [] lineState[l] = "clear_calc" -> "INITIAL"]
    /\ is_done' = [l \in Lines |-> ~start /\ (is_done[l] \/ l \in complete)]
    /\ is_calculating' = [l \in Lines |->
         start \/ (is_calculating[l] /\ lineState[l] # "clear_calc")]
    /\ fifoSize' = [l \in Lines |-> IF l \in complete THEN Len(LineOf[a][l]) ELSE fifoSize[l]]
    /\ fifo' = [l \in Lines |-> IF l \in complete THEN fifo[l] \o LineOf[a][l]
                                ELSE IF readFIFO(readCoord, l) THEN pop[2] ELSE fifo[l]]
    /\ q' = [l \in Lines |-> IF readFIFO(readCoord, l) THEN pop[1] ELSE q[l]]

LineModules(readCoord, complete) ==
    \E a \in IF complete = {} THEN {0} ELSE EdgeAngles(complete) \cap Angles,
       pop \in IF rasterState = "S5" /\ readCoord THEN Popped(fifo[muxselect])
              ELSE {<<q[muxselect], fifo[muxselect]>>} :
          LineSteps(readCoord, complete, a, pop)

(* The pixel on the coord bus: the output register of the selected FIFO.   *)
coord == q[muxselect]
-----------------------------------------------------------------------------
(* One clock cycle.                                                        *)
RasterCycle(startRaster, readCoord, finished, complete) ==
    /\ StateMachine(startRaster, readCoord)
    /\ RotateAngle(startRaster)
    /\ TriangleProjections
    /\ VertexProjections(finished)
    /\ LineModules(readCoord, complete)

RasterTick(startRaster, readCoord) ==
    \E finished \in SUBSET Calculating, complete \in SUBSET Drawing :
        RasterCycle(startRaster, readCoord, finished, complete)

(* On its own, the module is driven by the inputs top.sv gives it: a new   *)
(* frame only when the previous one has been read, reads at any time.      *)
RasterNext == \E startRaster, readCoord \in BOOLEAN :
                 /\ startRaster => rasterState = "INITIAL"
                 /\ RasterTick(startRaster, readCoord)

(* The arithmetic of a vertex and of a line ends: the divider and the      *)
(* multiplier count down, and a line finishes by LineFinishes of           *)
(* LineRasterizer.                                                         *)
ArithmeticEnds == /\ \A v \in Vertices : []<>(projState[v] # "calc")
                  /\ \A l \in Lines : []<>(lineState[l] # "calc")

(* CLOCK_50 never stops.                                                   *)
RasterSpec == RasterInit /\ [][RasterNext]_rasterVars /\ WF_rasterVars(RasterNext) /\ ArithmeticEnds
-----------------------------------------------------------------------------
(* Every vertex the lines use was projected entirely at the angle of this  *)
(* frame: no DONE of the previous frame ends STARTPROJ early, and the      *)
(* states test4..test1 outlast the latency of the angle tables, also when  *)
(* the address wraps (polygonRaster.sv:50-57, 189-207).                    *)
VerticesOfThisFrame ==
    rasterState \in {"STARTRAST", "START", "S3", "S1", "S4", "S5", "S6"} =>
        \A v \in Vertices : newx[v] = {ANGLE_ADDRESS}

(* The lines are started only when each is idle, with its FIFO drained by  *)
(* the previous frame: the guard LineRasterizer assumes of its start.      *)
StartsIdleLines ==
    start => \A l \in Lines : lineState[l] = "INITIAL" /\ fifo[l] = <<>>

(* Whenever a read would pop, the selected FIFO holds a pixel of a line    *)
(* that is finished: counter and fifoSize never let S5 underflow a FIFO    *)
(* whose underflow checking is off.                                        *)
PopsFinishedLines ==
    rasterState = "S5" => /\ lineState[muxselect] = "INITIAL"
                          /\ fifo[muxselect] # <<>>

(* The pixels of a frame, in the order S5 and S6 read the FIFOs.           *)
Concat(f) == LET upto[n \in 0..NUM_LINES] == IF n = 0 THEN <<>> ELSE upto[n - 1] \o f[n - 1]
             IN  upto[NUM_LINES]

Contract == INSTANCE RasterContract
            WITH FramePixels <- [a \in Angles |-> Concat(LineOf[a])],
                 NoPixel <- -1,
                 angle <- ANGLE_ADDRESS % NUM_ANGLES,
                 pending <- IF rasterDone THEN Concat(fifo) ELSE <<>>,
                 coord <- IF rasterState = "S6" THEN coord ELSE -1

(* polygonRaster keeps its promise to top.sv: each frame delivers every    *)
(* pixel of its own angle exactly once and in order, rasterDone is never   *)
(* early and bufferEmpty neither early nor late.                           *)
ImplementsRasterContract == Contract!Spec

(* Every frame that is started becomes ready to be read.                   *)
FrameRasterized == rasterState = "test4" ~> rasterDone
=============================================================================
