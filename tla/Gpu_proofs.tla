----------------------------- MODULE Gpu_proofs -----------------------------
(***************************************************************************)
(* Proofs about PolygonRaster and Gpu, for any number of triangles and     *)
(* angles, any screen, any lines and any distance of the vertical syncs.   *)
(***************************************************************************)
EXTENDS Gpu, NumberFacts, SequenceTheorems, TLAPS

(***************************************************************************)
(* PolygonRaster: no vertex mixes two frames, the FIFOs, whose checks are  *)
(* off, are filled when empty and popped when not, and what comes out of   *)
(* them is what RasterContract promises.                                   *)
(***************************************************************************)
RasterStates == {"INITIAL", "test4", "test3", "test2", "test1", "STARTPROJ",
                 "STARTRAST", "START", "S3", "S1", "S4", "S5", "S6"}

RasterTypeOK ==
    /\ rasterState \in RasterStates
    /\ counter \in Nat /\ muxselect \in Lines
    /\ triState \in [Triangles -> {"WAIT", "S1", "S2", "DONESTATE"}]
    /\ projDone \in [Triangles -> BOOLEAN]
    /\ projState \in [Vertices -> {"WAIT", "S0", "S1", "calc", "DONESTATE2"}]
    /\ vertexDone \in [Vertices -> BOOLEAN]
    /\ lineState \in [Lines -> {"INITIAL", "calc", "clear_calc"}]
    /\ is_done \in [Lines -> BOOLEAN] /\ is_calculating \in [Lines -> BOOLEAN]
    /\ fifoSize \in [Lines -> Nat] /\ fifo \in [Lines -> Seq(Screen)]

(* The angle is in range but in the cycle in which it wraps, and the       *)
(* tables have caught up with it when the triangles are started.           *)
Turning   == {"test4", "test3", "test2"}
Projected == {"STARTRAST", "START", "S3", "S1", "S4", "S5", "S6"}
AngleInv ==
    /\ ANGLE_ADDRESS \in 0..NUM_ANGLES
    /\ rasterState # "test4" => ANGLE_ADDRESS # NUM_ANGLES
    /\ rasterState = "test2" => romAddress = ANGLE_ADDRESS
    /\ rasterState \in {"test1", "STARTPROJ"} \cup Projected =>
          romAddress = ANGLE_ADDRESS /\ romOut = ANGLE_ADDRESS

(* A triangle and its vertices: at rest until they are started, each new   *)
(* result of the present angle, and a DONE never that of the last frame.   *)
AtRest(t) ==
    /\ triState[t] \in {"WAIT", "DONESTATE"}
    /\ \A i \in 0..2 : projState[<<t, i>>] \in {"WAIT", "DONESTATE2"}
Done(t) ==
    /\ triState[t] = "DONESTATE"
    /\ \A i \in 0..2 : /\ projState[<<t, i>>] = "DONESTATE2"
                       /\ newx[<<t, i>>] = {ANGLE_ADDRESS}
UnderWay(t) ==
    \/ /\ triState[t] = "S1" /\ ~projDone[t]
       /\ \A i \in 0..2 : projState[<<t, i>>] \in {"WAIT", "DONESTATE2"}
    \/ /\ triState[t] = "S2" /\ ~projDone[t]
       /\ \A i \in 0..2 :
             \/ projState[<<t, i>>] = "S0"
             \/ projState[<<t, i>>] = "S1" /\ sampled[<<t, i>>] = {}
             \/ projState[<<t, i>>] = "calc" /\ sampled[<<t, i>>] = {ANGLE_ADDRESS}
             \/ projState[<<t, i>>] = "DONESTATE2" /\ newx[<<t, i>>] = {ANGLE_ADDRESS}

Resting == {"INITIAL", "test1"} \cup Turning
ProjectionInv ==
    /\ \A v \in Vertices : vertexDone[v] => projState[v] = "DONESTATE2"
    /\ rasterState \in Resting => \A t \in Triangles : AtRest(t)
    /\ rasterState = "STARTPROJ" => \A t \in Triangles : UnderWay(t) \/ Done(t)
    /\ rasterState \in Projected => \A t \in Triangles : Done(t)

(* The lines: idle and drained until they are started; counted off while   *)
(* they are waited for; drained one after the other.                       *)
Started(l) ==
    /\ lineState[l] = "calc" => ~is_done[l] /\ is_calculating[l] /\ fifo[l] = <<>>
    /\ lineState[l] # "calc" => fifoSize[l] = Len(fifo[l]) /\ fifoSize[l] >= 1
Waited(n) == n <= NUM_LINES /\ \A l \in Lines : l < n => lineState[l] = "INITIAL"
Drained ==
    /\ \A l \in Lines : lineState[l] = "INITIAL" /\ fifoSize[l] >= 1
    /\ \A l \in Lines : l < muxselect => fifo[l] = <<>>
    /\ \A l \in Lines : l > muxselect => fifoSize[l] = Len(fifo[l])
    /\ counter + Len(fifo[muxselect]) = fifoSize[muxselect]

Preparing == Turning \cup {"test1", "STARTPROJ", "STARTRAST"}
Waiting   == {"START", "S3", "S1"}
LinesInv ==
    /\ rasterState \in {"INITIAL"} \cup Preparing =>
          \A l \in Lines : lineState[l] = "INITIAL" /\ fifo[l] = <<>>
    /\ rasterState \in Preparing \cup {"S4"} => counter = 0 /\ muxselect = 0
    /\ rasterState \in Waiting => muxselect = 0 /\ \A l \in Lines : Started(l)
    /\ rasterState = "START" => Waited(counter) /\ counter < NUM_LINES
    /\ rasterState = "S3" => Waited(counter + 1)
    /\ rasterState = "S1" => Waited(counter)
    /\ rasterState \in {"S4", "S5", "S6"} => Drained
    /\ rasterState = "S5" => fifo[muxselect] # <<>>

RasterInv == RasterTypeOK /\ AngleInv /\ ProjectionInv /\ LinesInv

-----------------------------------------------------------------------------
(* Numbers.                                                                *)
LEMMA Numbers ==
    /\ NUM_TRIANGLES \in Nat /\ NUM_TRIANGLES >= 1 /\ NUM_ANGLES \in Nat /\ NUM_ANGLES >= 1
    /\ NUM_LINES \in Nat /\ NUM_LINES >= 3 /\ 0 \in Lines
    /\ \A l \in Lines : l \in Nat /\ l <= NUM_LINES - 1
  BY RasterAssumption DEF NUM_LINES, Lines

(* What a cycle is given: top.sv starts a frame when the last one is read, *)
(* and only what calculates can finish.                                    *)
Cycle(startRaster, readCoord, finished, complete) ==
    /\ startRaster \in BOOLEAN /\ readCoord \in BOOLEAN
    /\ finished \in SUBSET Calculating /\ complete \in SUBSET Drawing
    /\ startRaster => rasterState = "INITIAL"
    /\ RasterCycle(startRaster, readCoord, finished, complete)

(* The state machine: where it goes, and what becomes of the counters.     *)
LEMMA Moves ==
    ASSUME NEW startRaster, NEW readCoord, NEW finished, NEW complete,
           Cycle(startRaster, readCoord, finished, complete)
    PROVE  /\ rasterState \in RasterStates /\ rasterState' \in RasterStates
           /\ rasterState = "INITIAL" =>
                 \/ rasterState' = "INITIAL" /\ ~startRaster
                 \/ rasterState' = "test4" /\ counter' = 0 /\ muxselect' = 0
           /\ rasterState = "test4" => rasterState' = "test3"
           /\ rasterState = "test3" => rasterState' = "test2"
           /\ rasterState = "test2" => rasterState' = "test1"
           /\ rasterState = "test1" => rasterState' = "STARTPROJ"
           /\ rasterState = "STARTPROJ" =>
                 \/ rasterState' = "STARTPROJ"
                 \/ rasterState' = "STARTRAST" /\ \A t \in Triangles : projDone[t]
           /\ rasterState = "STARTRAST" => rasterState' = "START"
           /\ rasterState = "START" =>
                 \/ rasterState' = "START"
                 \/ /\ rasterState' = "S3"
                    /\ is_done[counter] \/ ~is_calculating[counter]
           /\ rasterState = "S3" => rasterState' = "S1" /\ counter' = counter + 1
           /\ rasterState = "S1" =>
                 \/ rasterState' = "S4" /\ counter = NUM_LINES /\ counter' = 0
                 \/ rasterState' = "START" /\ counter # NUM_LINES /\ counter' = counter
           /\ rasterState = "S4" => rasterState' = "S5"
           /\ rasterState = "S5" =>
                 \/ rasterState' = "S6" /\ readCoord /\ counter' = counter + 1
                 \/ rasterState' = "S5" /\ ~readCoord /\ counter' = counter
           /\ rasterState = "S6" =>
                 \/ /\ rasterState' = "INITIAL"
                    /\ counter = fifoSize[muxselect] /\ muxselect = NUM_LINES - 1
                    /\ muxselect' = muxselect /\ counter' = counter
                 \/ /\ rasterState' = "S5"
                    /\ counter = fifoSize[muxselect] /\ muxselect # NUM_LINES - 1
                    /\ muxselect' = muxselect + 1 /\ counter' = 0
                 \/ /\ rasterState' = "S5" /\ counter # fifoSize[muxselect]
                    /\ muxselect' = muxselect /\ counter' = counter
           /\ rasterState \notin {"INITIAL", "S6"} => muxselect' = muxselect
           /\ rasterState \in {"test4", "test3", "test2", "test1", "STARTPROJ",
                               "STARTRAST", "START", "S4"} => counter' = counter
           /\ rasterState = "INITIAL" /\ rasterState' = "INITIAL" =>
                 counter' = counter /\ muxselect' = muxselect
<1>1. /\ startRaster \in BOOLEAN /\ startRaster => rasterState = "INITIAL"
      /\ StateMachine(startRaster, readCoord)
  BY DEF Cycle, RasterCycle
<1>2. CASE Idle(startRaster)
  BY <1>1, <1>2 DEF Idle, Hold, Registers, RasterStates
<1>3. CASE Delay(startRaster)
  BY <1>1, <1>3 DEF Delay, Hold, Registers, RasterStates
<1>4. CASE STARTPROJ(startRaster)
  BY <1>1, <1>4 DEF STARTPROJ, Hold, Registers, RasterStates
<1>5. CASE STARTRAST(startRaster)
  BY <1>1, <1>5 DEF STARTRAST, Hold, Registers, RasterStates
<1>6. CASE START(startRaster)
  BY <1>1, <1>6 DEF START, Hold, Registers, RasterStates
<1>7. CASE S3(startRaster)
  BY <1>1, <1>7 DEF S3, Registers, RasterStates
<1>8. CASE S1(startRaster)
  BY <1>1, <1>8 DEF S1, Hold, Registers, RasterStates
<1>9. CASE S4(startRaster)
  BY <1>1, <1>9 DEF S4, Registers, RasterStates
<1>10. CASE S5(startRaster, readCoord)
  BY <1>1, <1>10 DEF S5, Hold, Registers, RasterStates
<1>11. CASE S6(startRaster)
  BY <1>1, <1>11 DEF S6, Hold, Registers, RasterStates
<1> QED BY <1>1, <1>2, <1>3, <1>4, <1>5, <1>6, <1>7, <1>8, <1>9, <1>10, <1>11
        DEF StateMachine

(* The angle and its tables.                                               *)
LEMMA AngleStep ==
    ASSUME NEW startRaster, NEW readCoord, NEW finished, NEW complete,
           Cycle(startRaster, readCoord, finished, complete), AngleInv
    PROVE  /\ AngleInv'
           /\ rasterState \in {"test3", "test2", "test1", "STARTPROJ"} \cup Projected =>
                 ANGLE_ADDRESS' = ANGLE_ADDRESS
<1>1. /\ ANGLE_ADDRESS' = IF ANGLE_ADDRESS > NUM_ANGLES - 1 THEN 0
                          ELSE IF startRaster THEN ANGLE_ADDRESS + 1 ELSE ANGLE_ADDRESS
      /\ romAddress' = ANGLE_ADDRESS /\ romOut' = romAddress
      /\ startRaster => rasterState = "INITIAL"
  BY DEF Cycle, RasterCycle, RotateAngle
<1>2. ANGLE_ADDRESS \in 0..NUM_ANGLES
  BY DEF AngleInv
<1>3. ANGLE_ADDRESS' \in 0..NUM_ANGLES
  BY <1>1, <1>2, Numbers
<1>4. rasterState # "test4" => ~(ANGLE_ADDRESS > NUM_ANGLES - 1)
  BY <1>2, Numbers DEF AngleInv
<1>5. rasterState \notin {"INITIAL", "test4"} => ANGLE_ADDRESS' = ANGLE_ADDRESS
  BY <1>1, <1>4
<1>6. rasterState' # "test4" => ANGLE_ADDRESS' # NUM_ANGLES
  <2>1. CASE rasterState = "INITIAL"
    <3>1. rasterState' # "test4" => ~startRaster
      BY <2>1, Moves
    <3> QED BY <1>1, <1>2, <1>4, <2>1, <3>1, Numbers
  <2>2. CASE rasterState = "test4"
    BY <1>1, <1>2, <2>2, Numbers
  <2>3. CASE rasterState \notin {"INITIAL", "test4"}
    BY <1>5, <2>3 DEF AngleInv
  <2> QED BY <2>1, <2>2, <2>3
<1>7. rasterState' = "test2" => romAddress' = ANGLE_ADDRESS'
  <2>1. rasterState' = "test2" => rasterState = "test3"
    BY Moves DEF RasterStates
  <2> QED BY <1>1, <1>5, <2>1
<1>8. rasterState' = "test1" => romAddress' = ANGLE_ADDRESS' /\ romOut' = ANGLE_ADDRESS'
  <2>1. rasterState' = "test1" => rasterState = "test2"
    BY Moves DEF RasterStates
  <2> QED BY <1>1, <1>5, <2>1 DEF AngleInv
<1>9. rasterState' \in {"STARTPROJ"} \cup Projected =>
         romAddress' = ANGLE_ADDRESS' /\ romOut' = ANGLE_ADDRESS'
  <2>1. rasterState' \in {"STARTPROJ"} \cup Projected =>
           rasterState \in {"test1", "STARTPROJ"} \cup Projected
    BY Moves DEF RasterStates, Projected
  <2>2. rasterState \in {"test1", "STARTPROJ"} \cup Projected =>
           romAddress' = ANGLE_ADDRESS' /\ romOut' = ANGLE_ADDRESS'
    BY <1>1, <1>5 DEF AngleInv, Projected
  <2> QED BY <2>1, <2>2
<1> QED BY <1>3, <1>5, <1>6, <1>7, <1>8, <1>9 DEF AngleInv, Projected

-----------------------------------------------------------------------------
(* The triangles.  What a cycle does to one of them.                       *)
LEMMA TriangleMoves ==
    ASSUME NEW startRaster, NEW readCoord, NEW finished, NEW complete,
           Cycle(startRaster, readCoord, finished, complete), RasterTypeOK,
           NEW t \in Triangles
    PROVE  /\ triState[t] \in {"WAIT", "S1", "S2", "DONESTATE"}
           /\ triState[t] = "WAIT" =>
                 /\ triState'[t] = (IF startProj THEN "S1" ELSE "WAIT")
                 /\ projDone'[t] = FALSE
           /\ triState[t] = "S1" => triState'[t] = "S2" /\ projDone'[t] = projDone[t]
           /\ triState[t] = "S2" =>
                 /\ triState'[t] = (IF \A i \in 0..2 : vertexDone[<<t, i>>]
                                    THEN "DONESTATE" ELSE "S2")
                 /\ projDone'[t] = projDone[t]
           /\ triState[t] = "DONESTATE" =>
                 /\ triState'[t] = (IF startProj THEN "S1" ELSE "DONESTATE")
                 /\ projDone'[t] = ~startProj
<1>1. triState'[t] = TriangleStep(t)[1] /\ projDone'[t] = TriangleStep(t)[2]
  BY DEF Cycle, RasterCycle, TriangleProjections
<1>2. triState[t] \in {"WAIT", "S1", "S2", "DONESTATE"}
  BY DEF RasterTypeOK
<1>3. CASE triState[t] = "WAIT"
  BY <1>1, <1>3 DEF TriangleStep
<1>4. CASE triState[t] = "S1"
  BY <1>1, <1>4 DEF TriangleStep
<1>5. CASE triState[t] = "S2"
  BY <1>1, <1>5 DEF TriangleStep
<1>6. CASE triState[t] = "DONESTATE"
  BY <1>1, <1>6 DEF TriangleStep
<1> QED BY <1>2, <1>3, <1>4, <1>5, <1>6

(* What it does to one of their vertices.                                  *)
LEMMA VertexMoves ==
    ASSUME NEW startRaster, NEW readCoord, NEW finished, NEW complete,
           Cycle(startRaster, readCoord, finished, complete), RasterTypeOK,
           NEW t \in Triangles, NEW i \in 0..2, NEW v, v = <<t, i>>
    PROVE  /\ projState[v] \in {"WAIT", "S0", "S1", "calc", "DONESTATE2"}
           /\ projState[v] = "WAIT" =>
                 projState'[v] = (IF triState[t] = "S1" THEN "S0" ELSE "WAIT")
           /\ projState[v] = "DONESTATE2" =>
                 /\ projState'[v] = (IF triState[t] = "S1" THEN "S0" ELSE "DONESTATE2")
                 /\ newx'[v] = newx[v]
                 /\ vertexDone'[v] <=> vertexDone[v] /\ triState[t] # "S1"
           /\ projState[v] = "S0" => projState'[v] = "S1" /\ sampled'[v] = {}
           /\ projState[v] = "S1" =>
                 projState'[v] = "calc" /\ sampled'[v] = sampled[v] \cup {romOut}
           /\ projState[v] = "calc" =>
                 \/ projState'[v] = "calc" /\ sampled'[v] = sampled[v] \cup {romOut}
                 \/ projState'[v] = "DONESTATE2" /\ newx'[v] = sampled[v] \cup {romOut}
           /\ vertexDone'[v] => vertexDone[v] \/ projState'[v] = "DONESTATE2"
<1>1. v \in Vertices /\ v[1] = t
  BY DEF Vertices
<1>2. projState[v] \in {"WAIT", "S0", "S1", "calc", "DONESTATE2"}
  BY <1>1 DEF RasterTypeOK
<1>3. VertexProjections(finished) /\ finished \subseteq Calculating
  BY DEF Cycle, RasterCycle
<1>4. v \in finished => projState[v] = "calc"
  BY <1>3 DEF Calculating
<1>5. projStart(v[1]) <=> triState[t] = "S1"
  BY <1>1 DEF projStart
<1>6. projState'[v] = VertexStates(v, finished)
  BY <1>1, <1>3 DEF VertexProjections
<1>7. /\ projState[v] \in {"WAIT", "DONESTATE2"} =>
            projState'[v] = (IF triState[t] = "S1" THEN "S0" ELSE projState[v])
      /\ projState[v] = "S0" => projState'[v] = "S1"
      /\ projState[v] = "S1" => projState'[v] = "calc"
      /\ projState[v] = "calc" =>
            projState'[v] = (IF v \in finished THEN "DONESTATE2" ELSE "calc")
  <2>1. CASE projState[v] \in {"WAIT", "DONESTATE2"}
    BY <1>5, <1>6, <2>1 DEF VertexStates
  <2>2. CASE projState[v] = "S0"
    BY <1>6, <2>2 DEF VertexStates
  <2>3. CASE projState[v] = "S1"
    BY <1>6, <2>3 DEF VertexStates
  <2>4. CASE projState[v] = "calc"
    BY <1>6, <2>4 DEF VertexStates
  <2> QED BY <1>2, <2>1, <2>2, <2>3, <2>4
<1>8. /\ sampled'[v] = IF projState[v] = "S0" THEN {}
                       ELSE IF projState[v] \in {"S1", "calc"}
                            THEN sampled[v] \cup {romOut} ELSE sampled[v]
      /\ newx'[v] = IF projState[v] \in {"WAIT", "S0"} THEN {}
                    ELSE IF v \in finished THEN sampled[v] \cup {romOut} ELSE newx[v]
      /\ vertexDone'[v] <=> \/ v \in finished
                            \/ vertexDone[v] /\ ~(/\ projState[v] = "DONESTATE2"
                                                  /\ projStart(v[1]))
  BY <1>1, <1>3 DEF VertexProjections
<1>9. projState[v] = "DONESTATE2" =>
         newx'[v] = newx[v] /\ (vertexDone'[v] <=> vertexDone[v] /\ triState[t] # "S1")
  BY <1>4, <1>5, <1>8
<1>10. projState[v] = "calc" =>
         \/ projState'[v] = "calc" /\ sampled'[v] = sampled[v] \cup {romOut}
         \/ projState'[v] = "DONESTATE2" /\ newx'[v] = sampled[v] \cup {romOut}
  BY <1>7, <1>8
<1>11. vertexDone'[v] => vertexDone[v] \/ projState'[v] = "DONESTATE2"
  BY <1>4, <1>7, <1>8
<1> QED BY <1>2, <1>7, <1>8, <1>9, <1>10, <1>11


(* A finished triangle stays so until the next frame starts it.            *)
LEMMA DoneStays ==
    ASSUME NEW startRaster, NEW readCoord, NEW finished, NEW complete,
           Cycle(startRaster, readCoord, finished, complete), RasterTypeOK,
           NEW t \in Triangles, Done(t), ~startProj, ANGLE_ADDRESS' = ANGLE_ADDRESS
    PROVE  Done(t)'
<1>1. triState[t] = "DONESTATE" /\ triState'[t] = "DONESTATE"
  BY TriangleMoves DEF Done
<1>2. ASSUME NEW i \in 0..2
      PROVE  projState'[<<t, i>>] = "DONESTATE2" /\ newx'[<<t, i>>] = {ANGLE_ADDRESS}
  <2>1. projState[<<t, i>>] = "DONESTATE2" /\ newx[<<t, i>>] = {ANGLE_ADDRESS}
    BY DEF Done
  <2>2. projState'[<<t, i>>] = "DONESTATE2" /\ newx'[<<t, i>>] = newx[<<t, i>>]
    BY <1>1, <2>1, VertexMoves
  <2> QED BY <2>1, <2>2
<1> QED BY <1>1, <1>2 DEF Done

LEMMA RestStays ==
    ASSUME NEW startRaster, NEW readCoord, NEW finished, NEW complete,
           Cycle(startRaster, readCoord, finished, complete), RasterTypeOK,
           NEW t \in Triangles, AtRest(t), ~startProj
    PROVE  AtRest(t)'
<1>1. triState[t] \in {"WAIT", "DONESTATE"} /\ triState'[t] = triState[t]
  BY TriangleMoves DEF AtRest
<1>2. ASSUME NEW i \in 0..2 PROVE projState'[<<t, i>>] \in {"WAIT", "DONESTATE2"}
  <2>1. projState[<<t, i>>] \in {"WAIT", "DONESTATE2"}
    BY DEF AtRest
  <2> QED BY <1>1, <2>1, VertexMoves
<1> QED BY <1>1, <1>2 DEF AtRest

LEMMA Starting ==
    ASSUME NEW startRaster, NEW readCoord, NEW finished, NEW complete,
           Cycle(startRaster, readCoord, finished, complete), RasterTypeOK,
           NEW t \in Triangles, AtRest(t), startProj
    PROVE  UnderWay(t)'
<1>1. triState[t] # "S1" /\ triState'[t] = "S1" /\ ~projDone'[t]
  BY TriangleMoves DEF AtRest
<1>2. ASSUME NEW i \in 0..2 PROVE projState'[<<t, i>>] \in {"WAIT", "DONESTATE2"}
  <2>1. projState[<<t, i>>] \in {"WAIT", "DONESTATE2"}
    BY DEF AtRest
  <2> QED BY <1>1, <2>1, VertexMoves
<1> QED BY <1>1, <1>2 DEF UnderWay

LEMMA GoingOn ==
    ASSUME NEW startRaster, NEW readCoord, NEW finished, NEW complete,
           Cycle(startRaster, readCoord, finished, complete), RasterTypeOK,
           ProjectionInv, romOut = ANGLE_ADDRESS, ANGLE_ADDRESS' = ANGLE_ADDRESS,
           NEW t \in Triangles, UnderWay(t)
    PROVE  UnderWay(t)' \/ Done(t)'
<1>1. CASE triState[t] = "S1"
  <2>1. triState'[t] = "S2" /\ ~projDone'[t]
    BY <1>1, TriangleMoves DEF UnderWay
  <2>2. ASSUME NEW i \in 0..2 PROVE projState'[<<t, i>>] = "S0"
    <3>1. projState[<<t, i>>] \in {"WAIT", "DONESTATE2"}
      BY <1>1 DEF UnderWay
    <3> QED BY <1>1, <3>1, VertexMoves
  <2> QED BY <2>1, <2>2 DEF UnderWay
<1>2. CASE triState[t] = "S2"
  <2>1. /\ ~projDone[t]
        /\ \A i \in 0..2 :
             \/ projState[<<t, i>>] = "S0"
             \/ projState[<<t, i>>] = "S1" /\ sampled[<<t, i>>] = {}
             \/ projState[<<t, i>>] = "calc" /\ sampled[<<t, i>>] = {ANGLE_ADDRESS}
             \/ projState[<<t, i>>] = "DONESTATE2" /\ newx[<<t, i>>] = {ANGLE_ADDRESS}
    BY <1>2 DEF UnderWay
  <2>2. ASSUME NEW i \in 0..2
        PROVE  \/ projState'[<<t, i>>] = "S1" /\ sampled'[<<t, i>>] = {}
               \/ projState'[<<t, i>>] = "calc" /\ sampled'[<<t, i>>] = {ANGLE_ADDRESS}
               \/ projState'[<<t, i>>] = "DONESTATE2" /\ newx'[<<t, i>>] = {ANGLE_ADDRESS}
    <3>1. CASE projState[<<t, i>>] = "S0"
      BY <3>1, VertexMoves
    <3>2. CASE projState[<<t, i>>] = "S1" /\ sampled[<<t, i>>] = {}
      BY <3>2, VertexMoves
    <3>3. CASE projState[<<t, i>>] = "calc" /\ sampled[<<t, i>>] = {ANGLE_ADDRESS}
      BY <3>3, VertexMoves
    <3>4. CASE projState[<<t, i>>] = "DONESTATE2" /\ newx[<<t, i>>] = {ANGLE_ADDRESS}
      BY <1>2, <3>4, VertexMoves
    <3> QED BY <2>1, <3>1, <3>2, <3>3, <3>4
  <2>3. CASE \A i \in 0..2 : vertexDone[<<t, i>>]
    <3>1. triState'[t] = "DONESTATE"
      BY <1>2, <2>3, TriangleMoves
    <3>2. ASSUME NEW i \in 0..2
          PROVE  projState'[<<t, i>>] = "DONESTATE2" /\ newx'[<<t, i>>] = {ANGLE_ADDRESS}
      <4>1. projState[<<t, i>>] = "DONESTATE2"
        BY <2>3 DEF ProjectionInv, Vertices
      <4>2. projState'[<<t, i>>] = "DONESTATE2"
        BY <1>2, <4>1, VertexMoves
      <4> QED BY <2>2, <4>2
    <3> QED BY <3>1, <3>2 DEF Done
  <2>4. CASE ~ \A i \in 0..2 : vertexDone[<<t, i>>]
    <3>1. triState'[t] = "S2" /\ ~projDone'[t]
      BY <1>2, <2>1, <2>4, TriangleMoves
    <3> QED BY <2>2, <3>1 DEF UnderWay
  <2> QED BY <2>3, <2>4
<1> QED BY <1>1, <1>2 DEF UnderWay

LEMMA ProjectionStep ==
    ASSUME NEW startRaster, NEW readCoord, NEW finished, NEW complete,
           Cycle(startRaster, readCoord, finished, complete), RasterTypeOK,
           AngleInv, ProjectionInv
    PROVE  ProjectionInv'
<1>1. ASSUME NEW v \in Vertices, vertexDone'[v] PROVE projState'[v] = "DONESTATE2"
  <2>1. PICK t \in Triangles, i \in 0..2 : v = <<t, i>>
    BY DEF Vertices
  <2>2. CASE vertexDone[v]
    <3>1. projState[v] = "DONESTATE2"
      BY <2>2 DEF ProjectionInv
    <3> QED BY <1>1, <2>1, <3>1, VertexMoves
  <2>3. CASE ~vertexDone[v]
    BY <1>1, <2>1, <2>3, VertexMoves
  <2> QED BY <2>2, <2>3
<1>2. ASSUME rasterState' \in Resting, NEW t \in Triangles PROVE AtRest(t)'
  <2>1. ~startProj /\ (rasterState \in Resting \/ rasterState = "S6")
    BY <1>2, Moves DEF Resting, Turning, RasterStates, startProj
  <2>2. AtRest(t)
    BY <2>1 DEF ProjectionInv, Projected, Done, AtRest
  <2> QED BY <2>1, <2>2, RestStays
<1>3. ASSUME rasterState' = "STARTPROJ", NEW t \in Triangles
      PROVE  UnderWay(t)' \/ Done(t)'
  <2>1. rasterState \in {"test1", "STARTPROJ"}
    BY <1>3, Moves DEF RasterStates
  <2>2. CASE rasterState = "test1"
    BY <2>2, Starting DEF ProjectionInv, Resting, startProj
  <2>3. CASE rasterState = "STARTPROJ"
    <3>1. ~startProj /\ ANGLE_ADDRESS' = ANGLE_ADDRESS /\ romOut = ANGLE_ADDRESS
      BY <2>3, AngleStep DEF AngleInv, startProj
    <3>2. UnderWay(t) \/ Done(t)
      BY <2>3 DEF ProjectionInv
    <3> QED BY <3>1, <3>2, GoingOn, DoneStays
  <2> QED BY <2>1, <2>2, <2>3
<1>4. ASSUME rasterState' \in Projected, NEW t \in Triangles PROVE Done(t)'
  <2>1. \/ rasterState \in Projected
        \/ rasterState = "STARTPROJ" /\ \A u \in Triangles : projDone[u]
    BY <1>4, Moves DEF RasterStates, Projected
  <2>2. ~startProj /\ ANGLE_ADDRESS' = ANGLE_ADDRESS
    BY <2>1, AngleStep DEF startProj, Projected
  <2>3. Done(t)
    BY <2>1 DEF ProjectionInv, UnderWay
  <2> QED BY <2>2, <2>3, DoneStays
<1> QED BY <1>1, <1>2, <1>3, <1>4 DEF ProjectionInv

-----------------------------------------------------------------------------
(* The lines.  What a cycle does to one of them.                           *)
LEMMA LineMoves ==
    ASSUME NEW startRaster, NEW readCoord, NEW finished, NEW complete,
           Cycle(startRaster, readCoord, finished, complete), RasterTypeOK,
           NEW l \in Lines
    PROVE  /\ lineState[l] \in {"INITIAL", "calc", "clear_calc"}
           /\ lineState[l] = "INITIAL" =>
                 /\ lineState'[l] = (IF start THEN "calc" ELSE "INITIAL")
                 /\ start => ~is_done'[l] /\ is_calculating'[l]
           /\ lineState[l] = "calc" =>
                 \/ /\ lineState'[l] = "calc"
                    /\ is_done'[l] <=> ~start /\ is_done[l]
                    /\ is_calculating'[l] <=> start \/ is_calculating[l]
                 \/ /\ lineState'[l] = "clear_calc"
                    /\ \E a \in Angles : /\ fifoSize'[l] = Len(LineOf[a][l])
                                         /\ fifo'[l] = fifo[l] \o LineOf[a][l]
           /\ lineState[l] = "clear_calc" => lineState'[l] = "INITIAL"
           /\ lineState[l] # "calc" \/ lineState'[l] # "clear_calc" =>
                 /\ fifoSize'[l] = fifoSize[l]
                 /\ fifo'[l] = fifo[l] \/ readFIFO(readCoord, l)
                 /\ readFIFO(readCoord, l) /\ fifo[l] # <<>> =>
                       fifo'[l] = Tail(fifo[l])
<1>1. LineModules(readCoord, complete) /\ complete \subseteq Drawing
  BY DEF Cycle, RasterCycle
<1>2. PICK a \in IF complete = {} THEN {0} ELSE EdgeAngles(complete) \cap Angles,
           pop \in IF rasterState = "S5" /\ readCoord THEN Popped(fifo[muxselect])
                   ELSE {<<q[muxselect], fifo[muxselect]>>} :
              LineSteps(readCoord, complete, a, pop)
  BY <1>1 DEF LineModules
<1>3. l \in complete => lineState[l] = "calc" /\ a \in Angles
  BY <1>1, <1>2 DEF Drawing
<1>4. readFIFO(readCoord, l) /\ fifo[l] # <<>> => pop[2] = Tail(fifo[l])
  BY <1>2 DEF readFIFO, Popped
<1>5. lineState[l] \in {"INITIAL", "calc", "clear_calc"}
  BY DEF RasterTypeOK
<1>6. /\ lineState'[l] =
            CASE lineState[l] = "INITIAL"    -> IF start THEN "calc" ELSE "INITIAL"
              [] lineState[l] = "calc"       -> IF l \in complete THEN "clear_calc" ELSE "calc"
              [] lineState[l] = "clear_calc" -> "INITIAL"
      /\ is_done'[l] <=> ~start /\ (is_done[l] \/ l \in complete)
      /\ is_calculating'[l] <=>
            start \/ (is_calculating[l] /\ lineState[l] # "clear_calc")
      /\ fifoSize'[l] = IF l \in complete THEN Len(LineOf[a][l]) ELSE fifoSize[l]
      /\ fifo'[l] = IF l \in complete THEN fifo[l] \o LineOf[a][l]
                    ELSE IF readFIFO(readCoord, l) THEN pop[2] ELSE fifo[l]
  BY <1>2 DEF LineSteps
<1>7. CASE lineState[l] = "INITIAL"
  BY <1>3, <1>4, <1>6, <1>7
<1>8. CASE lineState[l] = "calc"
  <2>1. CASE l \in complete
    <3>1. lineState'[l] = "clear_calc"
      BY <1>6, <1>8, <2>1
    <3>2. /\ fifoSize'[l] = Len(LineOf[a][l]) /\ fifo'[l] = fifo[l] \o LineOf[a][l]
          /\ a \in Angles
      BY <1>3, <1>6, <2>1
    <3> QED BY <1>8, <3>1, <3>2
  <2>2. CASE l \notin complete
    BY <1>4, <1>6, <1>8, <2>2
  <2> QED BY <2>1, <2>2
<1>9. CASE lineState[l] = "clear_calc"
  BY <1>3, <1>4, <1>6, <1>9
<1> QED BY <1>5, <1>7, <1>8, <1>9

LEMMA LineLengths ==
    ASSUME NEW a \in Angles, NEW l \in Lines
    PROVE  /\ LineOf[a][l] \in Seq(Screen) /\ LineOf[a][l] # <<>>
           /\ Len(LineOf[a][l]) \in Nat /\ Len(LineOf[a][l]) >= 1
<1>1. LineOf[a][l] \in Seq(Screen) /\ LineOf[a][l] # <<>>
  BY RasterAssumption
<1> QED BY <1>1

(* Taking the first pixel out of a FIFO.                                   *)
LEMMA Popping ==
    ASSUME NEW s \in Seq(Screen), s # <<>>
    PROVE  Tail(s) \in Seq(Screen) /\ Len(Tail(s)) = Len(s) - 1 /\ Len(s) \in Nat \ {0}
  OBVIOUS

LEMMA Emptiness == ASSUME NEW s \in Seq(Screen) PROVE s = <<>> <=> Len(s) = 0
  OBVIOUS

LEMMA FillingUp ==
    ASSUME NEW s \in Seq(Screen) PROVE <<>> \o s = s
  OBVIOUS

(* A line that rests, is not started and not read.                         *)
LEMMA IdleLine ==
    ASSUME NEW startRaster, NEW readCoord, NEW finished, NEW complete,
           Cycle(startRaster, readCoord, finished, complete), RasterTypeOK,
           NEW l \in Lines, lineState[l] = "INITIAL", ~start
    PROVE  /\ lineState'[l] = "INITIAL" /\ fifoSize'[l] = fifoSize[l]
           /\ ~readFIFO(readCoord, l) => fifo'[l] = fifo[l]
           /\ readFIFO(readCoord, l) /\ fifo[l] # <<>> => fifo'[l] = Tail(fifo[l])
  BY LineMoves

(* A line that has been started.                                           *)
LEMMA StartedLine ==
    ASSUME NEW startRaster, NEW readCoord, NEW finished, NEW complete,
           Cycle(startRaster, readCoord, finished, complete), RasterTypeOK,
           NEW l \in Lines, Started(l), rasterState \in Waiting
    PROVE  Started(l)'
<1>1. ~start /\ ~readFIFO(readCoord, l)
  BY DEF start, readFIFO, Waiting
<1>2. CASE lineState[l] # "calc"
  <2>1. lineState'[l] = "INITIAL" /\ fifoSize'[l] = fifoSize[l] /\ fifo'[l] = fifo[l]
    BY <1>1, <1>2, LineMoves
  <2> QED BY <1>2, <2>1 DEF Started
<1>3. CASE lineState[l] = "calc" /\ lineState'[l] = "calc"
  <2>1. fifo'[l] = fifo[l] /\ (is_done'[l] <=> is_done[l])
        /\ (is_calculating'[l] <=> is_calculating[l])
    BY <1>1, <1>3, LineMoves
  <2> QED BY <1>3, <2>1 DEF Started
<1>4. CASE lineState[l] = "calc" /\ lineState'[l] # "calc"
  <2>1. PICK a \in Angles : /\ fifoSize'[l] = Len(LineOf[a][l])
                            /\ fifo'[l] = fifo[l] \o LineOf[a][l]
    BY <1>4, LineMoves
  <2>2. fifo'[l] = LineOf[a][l]
    <3>1. fifo[l] = <<>> /\ LineOf[a][l] \in Seq(Screen)
      BY <1>4, LineLengths DEF Started
    <3> QED BY <2>1, <3>1, FillingUp
  <2> QED BY <1>4, <2>1, <2>2, LineLengths DEF Started
<1> QED BY <1>2, <1>3, <1>4


LEMMA LinesPrepare ==
    ASSUME NEW startRaster, NEW readCoord, NEW finished, NEW complete,
           Cycle(startRaster, readCoord, finished, complete), RasterTypeOK,
           LinesInv, rasterState \in {"INITIAL"} \cup Preparing
    PROVE  LinesInv'
<1>1. /\ \A l \in Lines : lineState[l] = "INITIAL" /\ fifo[l] = <<>>
      /\ rasterState # "INITIAL" => counter = 0 /\ muxselect = 0
  BY DEF LinesInv
<1>2. \A l \in Lines : ~readFIFO(readCoord, l)
  BY DEF readFIFO, Preparing, Turning
<1>3. CASE rasterState # "STARTRAST"
  <2>1. \A l \in Lines : lineState'[l] = "INITIAL" /\ fifo'[l] = <<>>
    BY <1>1, <1>2, <1>3, IdleLine DEF start
  <2>2. /\ rasterState' \in {"INITIAL"} \cup Preparing
        /\ rasterState' # "INITIAL" => counter' = 0 /\ muxselect' = 0
    BY <1>1, <1>3, Moves DEF Preparing, Turning, RasterStates
  <2> QED BY <2>1, <2>2 DEF LinesInv, Preparing, Turning, Waiting
<1>4. CASE rasterState = "STARTRAST"
  <2>1. rasterState' = "START" /\ counter' = 0 /\ muxselect' = 0
    BY <1>1, <1>4, Moves
  <2>2. ASSUME NEW l \in Lines PROVE Started(l)'
    <3>1. /\ lineState'[l] = "calc" /\ ~is_done'[l] /\ is_calculating'[l]
          /\ fifo'[l] = <<>>
      BY <1>1, <1>2, <1>4, LineMoves DEF start
    <3> QED BY <3>1 DEF Started
  <2>3. Waited(0)' /\ 0 < NUM_LINES
    BY Numbers DEF Waited
  <2> QED BY <2>1, <2>2, <2>3 DEF LinesInv, Preparing, Turning, Waiting, Waited
<1> QED BY <1>3, <1>4

LEMMA LinesWait ==
    ASSUME NEW startRaster, NEW readCoord, NEW finished, NEW complete,
           Cycle(startRaster, readCoord, finished, complete), RasterTypeOK,
           LinesInv, rasterState \in Waiting
    PROVE  LinesInv'
<1>1. muxselect = 0 /\ muxselect' = 0 /\ counter \in Nat
  BY Moves DEF LinesInv, Waiting, RasterTypeOK
<1>2. \A l \in Lines : Started(l) /\ Started(l)'
  BY StartedLine DEF LinesInv
<1>3. ~start /\ \A l \in Lines : ~readFIFO(readCoord, l)
  BY DEF start, readFIFO, Waiting
<1>4. \A l \in Lines : lineState[l] = "INITIAL" => lineState'[l] = "INITIAL"
  BY <1>3, IdleLine
<1>5. \A n : Waited(n) => Waited(n)'
  BY <1>4 DEF Waited
<1>6. CASE rasterState = "START" /\ rasterState' = "START"
  <2>1. Waited(counter) /\ counter < NUM_LINES /\ counter' = counter
    BY <1>6, Moves DEF LinesInv
  <2>2. Waited(counter)'
    BY <1>4, <2>1 DEF Waited
  <2> QED BY <1>1, <1>2, <1>6, <2>1, <2>2 DEF LinesInv, Preparing, Turning, Waiting
<1>7. CASE rasterState = "START" /\ rasterState' # "START"
  <2>1. /\ rasterState' = "S3" /\ Waited(counter) /\ counter < NUM_LINES
        /\ counter' = counter
        /\ is_done[counter] \/ ~is_calculating[counter]
    BY <1>7, Moves DEF LinesInv
  <2>2. counter \in Lines
    BY <1>1, <2>1, Numbers DEF Lines
  <2>3. lineState[counter] \in {"INITIAL", "clear_calc"}
    BY <1>2, <2>1, <2>2 DEF Started, RasterTypeOK
  <2>4. lineState'[counter] = "INITIAL"
    BY <1>3, <2>2, <2>3, LineMoves
  <2>5. ASSUME NEW l \in Lines, l < counter + 1 PROVE lineState'[l] = "INITIAL"
    <3>1. CASE l < counter
      BY <1>4, <2>1, <3>1 DEF Waited
    <3>2. CASE l = counter
      BY <2>4, <3>2
    <3> QED BY <1>1, <2>5, <3>1, <3>2, Numbers
  <2>6. Waited(counter + 1)'
    <3>1. counter + 1 <= NUM_LINES
      BY <1>1, <2>1, Numbers
    <3> QED BY <2>1, <2>5, <3>1 DEF Waited
  <2> QED BY <1>1, <1>2, <2>1, <2>6 DEF LinesInv, Preparing, Turning, Waiting
<1>8. CASE rasterState = "S3"
  <2>1. rasterState' = "S1" /\ counter' = counter + 1 /\ Waited(counter + 1)
    BY <1>8, Moves DEF LinesInv
  <2>2. Waited(counter)'
    BY <1>4, <2>1 DEF Waited
  <2> QED BY <1>1, <1>2, <2>1, <2>2 DEF LinesInv, Preparing, Turning, Waiting
<1>9. CASE rasterState = "S1" /\ rasterState' = "START"
  <2>1. Waited(counter) /\ counter # NUM_LINES /\ counter' = counter
    BY <1>9, Moves DEF LinesInv
  <2>2. Waited(counter)' /\ counter' < NUM_LINES
    BY <1>1, <1>4, <2>1, Numbers DEF Waited
  <2> QED BY <1>1, <1>2, <1>9, <2>2 DEF LinesInv, Preparing, Turning, Waiting
<1>10. CASE rasterState = "S1" /\ rasterState' # "START"
  <2>1. /\ rasterState' = "S4" /\ counter' = 0 /\ Waited(NUM_LINES)
    BY <1>10, Moves DEF LinesInv
  <2>2. ASSUME NEW l \in Lines
        PROVE  /\ lineState'[l] = "INITIAL" /\ fifoSize'[l] >= 1
               /\ fifoSize'[l] = Len(fifo'[l])
    <3>1. lineState[l] = "INITIAL"
      BY <2>1, Numbers DEF Waited
    <3> QED BY <1>2, <1>4, <3>1 DEF Started
  <2>3. 0 + Len(fifo'[0]) = fifoSize'[0]
    <3>1. fifo[0] \in Seq(Screen) /\ lineState[0] = "INITIAL"
      BY <2>1, Numbers DEF Waited, RasterTypeOK
    <3>2. fifo'[0] = fifo[0] /\ Len(fifo[0]) \in Nat
      BY <1>3, <3>1, IdleLine, Numbers
    <3> QED BY <2>2, <3>2, Numbers
  <2>4. Drained'
    BY <1>1, <2>1, <2>2, <2>3, Numbers DEF Drained
  <2> QED BY <1>1, <2>1, <2>4 DEF LinesInv, Preparing, Turning, Waiting
<1> QED BY <1>6, <1>7, <1>8, <1>9, <1>10 DEF Waiting

LEMMA LinesDrain ==
    ASSUME NEW startRaster, NEW readCoord, NEW finished, NEW complete,
           Cycle(startRaster, readCoord, finished, complete), RasterTypeOK,
           LinesInv, rasterState \in {"S4", "S5", "S6"}
    PROVE  LinesInv' /\ muxselect' \in Lines
<1> DEFINE m == muxselect
<1>1. /\ \A l \in Lines : lineState[l] = "INITIAL" /\ fifoSize[l] >= 1
      /\ \A l \in Lines : l < m => fifo[l] = <<>>
      /\ \A l \in Lines : l > m => fifoSize[l] = Len(fifo[l])
      /\ counter + Len(fifo[m]) = fifoSize[m]
  BY DEF LinesInv, Drained
<1>2. /\ m \in Lines /\ counter \in Nat /\ m \in Nat
      /\ \A l \in Lines : fifo[l] \in Seq(Screen) /\ Len(fifo[l]) \in Nat
                          /\ fifoSize[l] \in Nat
  <2>1. muxselect \in Lines /\ counter \in Nat /\ fifo \in [Lines -> Seq(Screen)]
        /\ fifoSize \in [Lines -> Nat]
    BY DEF RasterTypeOK
  <2> QED BY <2>1, Numbers
<1>3. ~start
  BY DEF start
<1>4. \A l \in Lines : lineState'[l] = "INITIAL" /\ fifoSize'[l] = fifoSize[l]
  BY <1>1, <1>3, IdleLine
<1>5. CASE rasterState # "S5" \/ ~readCoord
  <2>1. \A l \in Lines : fifo'[l] = fifo[l]
    BY <1>1, <1>3, <1>5, IdleLine DEF readFIFO
  <2>2. CASE rasterState = "S4"
    <3>1. rasterState' = "S5" /\ counter' = counter /\ muxselect' = m /\ counter = 0
      BY <2>2, Moves DEF LinesInv
    <3>2. Drained'
      BY <1>1, <1>2, <1>4, <2>1, <3>1 DEF Drained
    <3>3. fifo'[m] # <<>>
      BY <1>1, <1>2, <2>1, <3>1, Emptiness
    <3> QED BY <1>2, <3>1, <3>2, <3>3 DEF LinesInv, Preparing, Turning, Waiting
  <2>3. CASE rasterState = "S5"
    <3>1. /\ rasterState' = "S5" /\ counter' = counter /\ muxselect' = m
          /\ fifo[m] # <<>>
      BY <1>5, <2>3, Moves DEF LinesInv
    <3>2. Drained'
      BY <1>1, <1>2, <1>4, <2>1, <3>1 DEF Drained
    <3> QED BY <1>2, <2>1, <3>1, <3>2 DEF LinesInv, Preparing, Turning, Waiting
  <2>4. CASE rasterState = "S6" /\ rasterState' = "INITIAL"
    <3>1. counter = fifoSize[m] /\ m = NUM_LINES - 1 /\ muxselect' = m
      BY <2>4, Moves
    <3>2. fifo[m] = <<>>
      BY <1>1, <1>2, <3>1, Emptiness
    <3>3. \A l \in Lines : l = m \/ l < m
      BY <1>2, <3>1, Numbers
    <3>4. \A l \in Lines : fifo'[l] = <<>>
      BY <1>1, <2>1, <3>2, <3>3
    <3> QED BY <1>2, <1>4, <2>4, <3>1, <3>4 DEF LinesInv, Preparing, Turning, Waiting
  <2>5. CASE rasterState = "S6" /\ muxselect' = m /\ rasterState' # "INITIAL"
    <3>1. /\ rasterState' = "S5" /\ counter' = counter /\ counter # fifoSize[m]
      BY <1>2, <2>5, Moves
    <3>2. Drained'
      BY <1>1, <1>2, <1>4, <2>1, <2>5, <3>1 DEF Drained
    <3>3. fifo[m] # <<>>
      BY <1>1, <1>2, <3>1, Emptiness
    <3> QED BY <1>2, <2>1, <2>5, <3>1, <3>2, <3>3
            DEF LinesInv, Preparing, Turning, Waiting
  <2>6. CASE rasterState = "S6" /\ muxselect' # m
    <3>1. /\ rasterState' = "S5" /\ counter' = 0 /\ muxselect' = m + 1
          /\ counter = fifoSize[m] /\ m # NUM_LINES - 1
      BY <2>6, Moves
    <3>2. m + 1 \in Lines /\ m + 1 \in Nat
      BY <1>2, <3>1, Numbers DEF Lines
    <3>3. fifo[m] = <<>>
      BY <1>1, <1>2, <3>1, Emptiness
    <3>4. \A l \in Lines : l < m + 1 => fifo'[l] = <<>>
      <4>1. \A l \in Lines : l < m + 1 => l < m \/ l = m
        BY <1>2, Numbers
      <4> QED BY <1>1, <2>1, <3>3, <4>1
    <3>5. \A l \in Lines : l > m + 1 => fifoSize'[l] = Len(fifo'[l])
      <4>1. \A l \in Lines : l > m + 1 => l > m
        BY <1>2, Numbers
      <4> QED BY <1>1, <1>4, <2>1, <4>1
    <3>6. Len(fifo[m + 1]) = fifoSize[m + 1] /\ fifo[m + 1] # <<>>
      <4>1. m + 1 > m
        BY <1>2
      <4>2. Len(fifo[m + 1]) = fifoSize[m + 1] /\ fifoSize[m + 1] >= 1
        BY <1>1, <3>2, <4>1
      <4> QED BY <1>2, <3>2, <4>2, Emptiness
    <3>7. 0 + Len(fifo'[m + 1]) = fifoSize'[m + 1]
      BY <1>2, <1>4, <2>1, <3>2, <3>6
    <3>8. Drained'
      BY <1>1, <1>4, <3>1, <3>4, <3>5, <3>7 DEF Drained
    <3> QED BY <2>1, <3>1, <3>2, <3>6, <3>8 DEF LinesInv, Preparing, Turning, Waiting
  <2> QED BY <2>2, <2>3, <2>4, <2>5, <2>6
<1>6. CASE rasterState = "S5" /\ readCoord
  <2>1. /\ rasterState' = "S6" /\ counter' = counter + 1 /\ muxselect' = m
        /\ fifo[m] # <<>>
    BY <1>6, Moves DEF LinesInv
  <2>2. \A l \in Lines : l # m => fifo'[l] = fifo[l]
    BY <1>1, <1>3, IdleLine DEF readFIFO
  <2>3. fifo'[m] = Tail(fifo[m])
    BY <1>1, <1>2, <1>3, <1>6, <2>1, IdleLine DEF readFIFO
  <2>4. Len(fifo'[m]) = Len(fifo[m]) - 1 /\ Len(fifo[m]) \in Nat
    BY <1>2, <2>1, <2>3, Popping
  <2>5. counter' + Len(fifo'[m]) = fifoSize'[m]
    <3>1. fifoSize'[m] = fifoSize[m]
      BY <1>2, <1>4
    <3>2. PICK n \in Nat : n = Len(fifo[m])
      BY <2>4
    <3>3. counter + 1 + (n - 1) = counter + n
      <4>1. counter \in Nat
        BY <1>2
      <4> QED BY <4>1
    <3> QED BY <1>1, <2>1, <2>4, <3>1, <3>2, <3>3
  <2>6. \A l \in Lines : (l < m => l # m) /\ (l > m => l # m)
    BY <1>2, Numbers
  <2>7. Drained'
    BY <1>1, <1>4, <2>1, <2>2, <2>5, <2>6 DEF Drained
  <2> QED BY <1>2, <2>1, <2>7 DEF LinesInv, Preparing, Turning, Waiting
<1> QED BY <1>5, <1>6

-----------------------------------------------------------------------------
(* The invariant.                                                          *)
LEMMA InitRaster == RasterInit => RasterInv
<1> SUFFICES ASSUME RasterInit PROVE RasterInv
  OBVIOUS
<1>1. RasterTypeOK
  BY Numbers DEF RasterInit, RasterTypeOK, RasterStates
<1>2. AngleInv
  BY Numbers DEF RasterInit, AngleInv, Projected
<1>3. ProjectionInv
  <2>1. \A v \in Vertices : ~vertexDone[v]
    BY DEF RasterInit
  <2>2. ASSUME NEW t \in Triangles PROVE AtRest(t)
    <3>1. \A i \in 0..2 : <<t, i>> \in Vertices
      BY DEF Vertices
    <3> QED BY <3>1 DEF RasterInit, AtRest
  <2> QED BY <2>1, <2>2 DEF RasterInit, ProjectionInv, Projected
<1>4. LinesInv
  BY DEF RasterInit, LinesInv, Preparing, Turning, Waiting
<1> QED BY <1>1, <1>2, <1>3, <1>4 DEF RasterInv

LEMMA TypeStep ==
    ASSUME NEW startRaster, NEW readCoord, NEW finished, NEW complete,
           Cycle(startRaster, readCoord, finished, complete), RasterInv
    PROVE  RasterTypeOK'
<1>0. RasterTypeOK /\ LinesInv
  BY DEF RasterInv
<1>1. rasterState' \in RasterStates
  BY Moves
<1>2. counter' \in Nat
  <2>1. counter \in Nat
    BY <1>0 DEF RasterTypeOK
  <2>2. counter' \in {0, counter, counter + 1}
    BY Moves DEF RasterStates
  <2> QED BY <2>1, <2>2
<1>3. muxselect' \in Lines
  <2>1. CASE rasterState \in {"S4", "S5", "S6"}
    BY <1>0, <2>1, LinesDrain
  <2>2. CASE rasterState \notin {"S4", "S5", "S6"}
    <3>1. muxselect' \in {0, muxselect}
      BY <2>2, Moves
    <3> QED BY <1>0, <3>1, Numbers DEF RasterTypeOK
  <2> QED BY <2>1, <2>2
<1>4. triState' \in [Triangles -> {"WAIT", "S1", "S2", "DONESTATE"}]
  <2>1. \A t \in Triangles : triState'[t] \in {"WAIT", "S1", "S2", "DONESTATE"}
    BY <1>0, TriangleMoves
  <2>2. triState' = [t \in Triangles |-> triState'[t]]
    BY DEF Cycle, RasterCycle, TriangleProjections
  <2> QED BY <2>1, <2>2
<1>5. projDone' \in [Triangles -> BOOLEAN]
  <2>1. ASSUME NEW t \in Triangles PROVE projDone'[t] \in BOOLEAN
    <3>1. projDone[t] \in BOOLEAN
      BY <1>0 DEF RasterTypeOK
    <3>2. projDone'[t] \in {FALSE, projDone[t], ~startProj}
      BY <1>0, TriangleMoves
    <3> QED BY <3>1, <3>2, Zenon
  <2>2. projDone' = [t \in Triangles |-> projDone'[t]]
    BY DEF Cycle, RasterCycle, TriangleProjections
  <2> QED BY <2>1, <2>2
<1>6. projState' \in [Vertices -> {"WAIT", "S0", "S1", "calc", "DONESTATE2"}]
  <2>1. ASSUME NEW v \in Vertices
        PROVE  projState'[v] \in {"WAIT", "S0", "S1", "calc", "DONESTATE2"}
    <3>1. PICK t \in Triangles, i \in 0..2 : v = <<t, i>>
      BY DEF Vertices
    <3> QED BY <1>0, <3>1, VertexMoves
  <2>2. projState' = [v \in Vertices |-> projState'[v]]
    BY DEF Cycle, RasterCycle, VertexProjections
  <2> QED BY <2>1, <2>2
<1>7. vertexDone' \in [Vertices -> BOOLEAN]
  BY DEF Cycle, RasterCycle, VertexProjections
<1>8. lineState' \in [Lines -> {"INITIAL", "calc", "clear_calc"}]
  <2>1. \A l \in Lines : lineState'[l] \in {"INITIAL", "calc", "clear_calc"}
    BY <1>0, LineMoves
  <2>2. lineState' = [l \in Lines |-> lineState'[l]]
    BY DEF Cycle, RasterCycle, LineModules, LineSteps
  <2> QED BY <2>1, <2>2
<1>9. is_done' \in [Lines -> BOOLEAN] /\ is_calculating' \in [Lines -> BOOLEAN]
  BY DEF Cycle, RasterCycle, LineModules, LineSteps
<1>10. ASSUME NEW l \in Lines PROVE fifoSize'[l] \in Nat /\ fifo'[l] \in Seq(Screen)
  <2>1. fifoSize[l] \in Nat /\ fifo[l] \in Seq(Screen)
    BY <1>0 DEF RasterTypeOK
  <2>2. CASE lineState[l] = "calc" /\ lineState'[l] = "clear_calc"
    <3>1. PICK a \in Angles : /\ fifoSize'[l] = Len(LineOf[a][l])
                              /\ fifo'[l] = fifo[l] \o LineOf[a][l]
      BY <1>0, <2>2, LineMoves
    <3>2. fifo[l] \o LineOf[a][l] \in Seq(Screen)
      BY <2>1, LineLengths
    <3> QED BY <3>1, <3>2, LineLengths
  <2>3. CASE lineState[l] # "calc" \/ lineState'[l] # "clear_calc"
    <3>1. /\ fifoSize'[l] = fifoSize[l]
          /\ fifo'[l] = fifo[l] \/ readFIFO(readCoord, l)
          /\ readFIFO(readCoord, l) /\ fifo[l] # <<>> => fifo'[l] = Tail(fifo[l])
      BY <1>0, <2>3, LineMoves
    <3>2. readFIFO(readCoord, l) => fifo[l] # <<>>
      BY <1>0 DEF readFIFO, LinesInv
    <3> QED BY <2>1, <3>1, <3>2, Popping
  <2> QED BY <2>2, <2>3
<1>11. fifoSize' = [l \in Lines |-> fifoSize'[l]] /\ fifo' = [l \in Lines |-> fifo'[l]]
  BY DEF Cycle, RasterCycle, LineModules, LineSteps
<1> QED BY <1>1, <1>2, <1>3, <1>4, <1>5, <1>6, <1>7, <1>8, <1>9, <1>10, <1>11
        DEF RasterTypeOK

LEMMA NextRaster == RasterInv /\ [RasterNext]_rasterVars => RasterInv'
<1> SUFFICES ASSUME RasterInv, [RasterNext]_rasterVars PROVE RasterInv'
  OBVIOUS
<1>1. CASE RasterNext
  <2>1. PICK startRaster \in BOOLEAN, readCoord \in BOOLEAN :
            /\ startRaster => rasterState = "INITIAL"
            /\ RasterTick(startRaster, readCoord)
    BY <1>1 DEF RasterNext
  <2>2. PICK finished \in SUBSET Calculating, complete \in SUBSET Drawing :
            RasterCycle(startRaster, readCoord, finished, complete)
    BY <2>1 DEF RasterTick
  <2>3. Cycle(startRaster, readCoord, finished, complete)
    BY <2>1, <2>2 DEF Cycle
  <2>4. rasterState \in RasterStates
    BY DEF RasterInv, RasterTypeOK
  <2>5. LinesInv'
    <3>1. CASE rasterState \in {"INITIAL"} \cup Preparing
      BY <2>3, <3>1, LinesPrepare DEF RasterInv
    <3>2. CASE rasterState \in Waiting
      BY <2>3, <3>2, LinesWait DEF RasterInv
    <3>3. CASE rasterState \in {"S4", "S5", "S6"}
      BY <2>3, <3>3, LinesDrain DEF RasterInv
    <3> QED BY <2>4, <3>1, <3>2, <3>3 DEF RasterStates, Preparing, Turning, Waiting
  <2> QED BY <2>3, <2>5, TypeStep, AngleStep, ProjectionStep DEF RasterInv
<1>2. CASE UNCHANGED rasterVars
  <2>1. /\ UNCHANGED <<rasterState, counter, muxselect, rasterDone, bufferEmpty>>
        /\ UNCHANGED <<ANGLE_ADDRESS, romAddress, romOut, triState, projDone>>
        /\ UNCHANGED <<projState, sampled, newx, vertexDone>>
        /\ UNCHANGED <<lineState, is_done, is_calculating, fifoSize, fifo, q>>
    BY <1>2 DEF rasterVars, fsm, angle, triangles, projections, lines
  <2>2. RasterTypeOK' /\ AngleInv'
    BY <2>1 DEF RasterInv, RasterTypeOK, AngleInv
  <2>3. ProjectionInv'
    <3>1. ASSUME NEW t \in Triangles, AtRest(t) PROVE AtRest(t)'
      BY <2>1, <3>1 DEF AtRest
    <3>2. ASSUME NEW t \in Triangles, Done(t) PROVE Done(t)'
      BY <2>1, <3>2 DEF Done
    <3>3. ASSUME NEW t \in Triangles, UnderWay(t) PROVE UnderWay(t)'
      BY <2>1, <3>3 DEF UnderWay
    <3>4. \A v \in Vertices : vertexDone'[v] => projState'[v] = "DONESTATE2"
      BY <2>1 DEF RasterInv, ProjectionInv
    <3>5. rasterState' \in Resting => \A t \in Triangles : AtRest(t)'
      BY <2>1, <3>1 DEF RasterInv, ProjectionInv
    <3>6. rasterState' = "STARTPROJ" => \A t \in Triangles : UnderWay(t)' \/ Done(t)'
      BY <2>1, <3>2, <3>3 DEF RasterInv, ProjectionInv
    <3>7. rasterState' \in Projected => \A t \in Triangles : Done(t)'
      BY <2>1, <3>2 DEF RasterInv, ProjectionInv
    <3> QED BY <3>4, <3>5, <3>6, <3>7 DEF ProjectionInv
  <2>4. LinesInv'
    BY <2>1 DEF RasterInv, LinesInv, Started, Waited, Drained
  <2> QED BY <2>2, <2>3, <2>4 DEF RasterInv
<1> QED BY <1>1, <1>2
-----------------------------------------------------------------------------
(* What top.sv is given: the flags tell where the frame is, and the FIFOs  *)
(* of the lines hold the pixels of its angle.                              *)
FlagsInv ==
    /\ rasterDone \in BOOLEAN /\ bufferEmpty \in BOOLEAN
    /\ rasterState = "INITIAL" => (rasterDone <=> bufferEmpty)
    /\ rasterState # "INITIAL" =>
          ~bufferEmpty /\ (rasterDone <=> rasterState \in {"S5", "S6"})

(* The FIFO of a line that has finished holds its pixels at this angle.    *)
LinesHold ==
    rasterState \in Waiting \cup {"S4"} =>
        \A l \in Lines : lineState[l] # "calc" => fifo[l] = LineOf[ANGLE_ADDRESS][l]

DeliveryInv == RasterInv /\ FlagsInv /\ LinesHold /\ q \in [Lines -> Screen]

(* A line finishes with the pixels of the angle of this frame: both its    *)
(* vertices were projected at it.                                          *)
LEMMA Completed ==
    ASSUME NEW startRaster, NEW readCoord, NEW finished, NEW complete,
           Cycle(startRaster, readCoord, finished, complete), RasterInv,
           rasterState \in Waiting, NEW l \in Lines, lineState[l] = "calc",
           lineState'[l] # "calc"
    PROVE  fifo'[l] = LineOf[ANGLE_ADDRESS][l]
<1>1. LineModules(readCoord, complete) /\ complete \subseteq Drawing
  BY DEF Cycle, RasterCycle
<1>2. PICK a \in IF complete = {} THEN {0} ELSE EdgeAngles(complete) \cap Angles,
           pop \in IF rasterState = "S5" /\ readCoord THEN Popped(fifo[muxselect])
                   ELSE {<<q[muxselect], fifo[muxselect]>>} :
              LineSteps(readCoord, complete, a, pop)
  BY <1>1 DEF LineModules
<1>3. l \in complete /\ fifo'[l] = fifo[l] \o LineOf[a][l]
  <2>1. lineState'[l] = IF l \in complete THEN "clear_calc" ELSE "calc"
    BY <1>2 DEF LineSteps
  <2> QED BY <1>2, <2>1 DEF LineSteps
<1>4. a \in EdgeAngles(complete) /\ a \in Angles
  BY <1>2, <1>3
<1>5. PICK k \in complete : \E v \in Ends(k) : a \in newx[v]
  BY <1>4 DEF EdgeAngles
<1>6. PICK v \in Ends(k) : a \in newx[v]
  BY <1>5
<1>7. v \in Vertices
  <2>1. k \in 0..(3 * NUM_TRIANGLES - 1) /\ NUM_TRIANGLES \in Nat
    BY <1>1, <1>5, RasterAssumption DEF Drawing, Lines, NUM_LINES
  <2>2. k \div 3 \in 0..(NUM_TRIANGLES - 1) /\ k % 3 \in 0..2 /\ (k + 1) % 3 \in 0..2
    BY <2>1
  <2> QED BY <1>6, <2>2 DEF Ends, Vertices, Triangles
<1>8. a = ANGLE_ADDRESS
  <2>1. PICK t \in Triangles, i \in 0..2 : v = <<t, i>>
    BY <1>7 DEF Vertices
  <2>2. Done(t)
    BY DEF RasterInv, ProjectionInv, Waiting, Projected
  <2> QED BY <1>6, <2>1, <2>2 DEF Done
<1>9. fifo[l] = <<>>
  BY DEF RasterInv, LinesInv, Started
<1> QED BY <1>3, <1>4, <1>8, <1>9, LineLengths, FillingUp

LEMMA HoldStep ==
    ASSUME NEW startRaster, NEW readCoord, NEW finished, NEW complete,
           Cycle(startRaster, readCoord, finished, complete), RasterInv, LinesHold
    PROVE  LinesHold'
<1> SUFFICES ASSUME rasterState' \in Waiting \cup {"S4"}, NEW l \in Lines,
                    lineState'[l] # "calc"
             PROVE  fifo'[l] = LineOf[ANGLE_ADDRESS'][l]
  BY DEF LinesHold
<1>1. rasterState \in Waiting \cup {"STARTRAST"}
  BY Moves DEF Waiting, RasterStates
<1>2. ANGLE_ADDRESS' = ANGLE_ADDRESS
  BY <1>1, AngleStep DEF RasterInv, Projected, Waiting
<1>3. CASE rasterState = "STARTRAST"
  <2>1. lineState[l] = "INITIAL" /\ start
    BY <1>3 DEF RasterInv, LinesInv, Preparing, start
  <2> QED BY <2>1, LineMoves DEF RasterInv
<1>4. CASE rasterState \in Waiting /\ lineState[l] = "calc"
  BY <1>2, <1>4, Completed
<1>5. CASE rasterState \in Waiting /\ lineState[l] # "calc"
  <2>1. ~readFIFO(readCoord, l)
    BY <1>5 DEF readFIFO, Waiting
  <2>2. fifo'[l] = fifo[l]
    BY <1>5, <2>1, LineMoves DEF RasterInv
  <2> QED BY <1>2, <1>5, <2>2 DEF LinesHold
<1> QED BY <1>1, <1>3, <1>4, <1>5

(* The two flags of polygonRaster follow its state.                        *)
LEMMA FlagMoves ==
    ASSUME NEW startRaster, NEW readCoord, NEW finished, NEW complete,
           Cycle(startRaster, readCoord, finished, complete),
           rasterDone \in BOOLEAN, bufferEmpty \in BOOLEAN
    PROVE  /\ rasterDone' \in BOOLEAN /\ bufferEmpty' \in BOOLEAN
           /\ rasterState = "INITIAL" =>
                 \/ /\ startRaster /\ rasterState' = "test4"
                    /\ ~rasterDone' /\ ~bufferEmpty'
                 \/ /\ ~startRaster /\ rasterState' = "INITIAL"
                    /\ (rasterDone' <=> rasterDone) /\ (bufferEmpty' <=> bufferEmpty)
           /\ rasterState = "S4" => rasterDone' /\ (bufferEmpty' <=> bufferEmpty)
           /\ rasterState = "S6" /\ rasterState' = "INITIAL" =>
                 (rasterDone' <=> rasterDone) /\ bufferEmpty'
           /\ rasterState \notin {"INITIAL", "S4"} /\ rasterState' # "INITIAL" =>
                 (rasterDone' <=> rasterDone) /\ (bufferEmpty' <=> bufferEmpty)
<1>1. /\ startRaster \in BOOLEAN /\ startRaster => rasterState = "INITIAL"
      /\ StateMachine(startRaster, readCoord)
  BY DEF Cycle, RasterCycle
<1>2. CASE Idle(startRaster)
  BY <1>1, <1>2 DEF Idle, Hold, Registers
<1>3. CASE Delay(startRaster)
  BY <1>1, <1>3 DEF Delay, Hold, Registers
<1>4. CASE STARTPROJ(startRaster) \/ STARTRAST(startRaster)
  BY <1>1, <1>4 DEF STARTPROJ, STARTRAST, Hold, Registers
<1>5. CASE START(startRaster)
  BY <1>1, <1>5 DEF START, Hold, Registers
<1>6. CASE S3(startRaster)
  BY <1>1, <1>6 DEF S3, Registers
<1>7. CASE S1(startRaster)
  BY <1>1, <1>7 DEF S1, Hold, Registers
<1>8. CASE S4(startRaster)
  BY <1>1, <1>8 DEF S4, Registers
<1>9. CASE S5(startRaster, readCoord)
  BY <1>1, <1>9 DEF S5, Hold, Registers
<1>10. CASE S6(startRaster)
  BY <1>1, <1>10 DEF S6, Hold, Registers
<1> QED BY <1>1, <1>2, <1>3, <1>4, <1>5, <1>6, <1>7, <1>8, <1>9, <1>10 DEF StateMachine

LEMMA FlagsStep ==
    ASSUME NEW startRaster, NEW readCoord, NEW finished, NEW complete,
           Cycle(startRaster, readCoord, finished, complete), FlagsInv
    PROVE  FlagsInv'
<1>1. rasterDone \in BOOLEAN /\ bufferEmpty \in BOOLEAN
  BY DEF FlagsInv
<1>2. CASE rasterState = "INITIAL"
  BY <1>1, <1>2, FlagMoves DEF FlagsInv
<1>3. CASE rasterState # "INITIAL"
  <2>1. ~bufferEmpty /\ (rasterDone <=> rasterState \in {"S5", "S6"})
    BY <1>3 DEF FlagsInv
  <2>2. /\ rasterState' # "INITIAL" =>
              (rasterState' \in {"S5", "S6"} <=> rasterState \in {"S4", "S5", "S6"})
        /\ rasterState' = "INITIAL" => rasterState = "S6"
    BY <1>3, Moves DEF RasterStates
  <2>3. rasterState' # "INITIAL" =>
            ~bufferEmpty' /\ (rasterDone' <=> rasterDone \/ rasterState = "S4")
    BY <1>1, <1>3, <2>1, FlagMoves
  <2>4. rasterState' = "INITIAL" => rasterDone' /\ bufferEmpty'
    BY <1>1, <2>1, <2>2, FlagMoves
  <2>5. rasterDone' \in BOOLEAN /\ bufferEmpty' \in BOOLEAN
    BY <1>1, FlagMoves
  <2> QED BY <2>1, <2>2, <2>3, <2>4, <2>5 DEF FlagsInv
<1> QED BY <1>2, <1>3

(* In S4 .. S6 nothing moves in the FIFOs but by a read in S5, which puts  *)
(* the first pixel of the selected one into its output register.           *)
LEMMA FifoKeeps ==
    ASSUME NEW startRaster, NEW readCoord, NEW finished, NEW complete,
           Cycle(startRaster, readCoord, finished, complete), RasterInv,
           rasterState \in {"S4", "S5", "S6"}, rasterState # "S5" \/ ~readCoord
    PROVE  fifo' = fifo
<1>1. RasterTypeOK /\ fifo \in [Lines -> Seq(Screen)] /\ ~start
  BY DEF RasterInv, RasterTypeOK, start
<1>2. \A l \in Lines : lineState[l] = "INITIAL"
  BY DEF RasterInv, LinesInv, Drained
<1>3. \A l \in Lines : fifo'[l] = fifo[l]
  BY <1>1, <1>2, IdleLine DEF readFIFO
<1>4. fifo' = [l \in Lines |-> fifo'[l]]
  BY DEF Cycle, RasterCycle, LineModules, LineSteps
<1> QED BY <1>1, <1>3, <1>4

LEMMA FifoPops ==
    ASSUME NEW startRaster, NEW readCoord, NEW finished, NEW complete,
           Cycle(startRaster, readCoord, finished, complete), RasterInv,
           rasterState = "S5", readCoord
    PROVE  /\ muxselect \in Lines /\ muxselect' = muxselect
           /\ fifo[muxselect] # <<>> /\ fifo[muxselect] \in Seq(Screen)
           /\ fifo' = [fifo EXCEPT ![muxselect] = Tail(fifo[muxselect])]
           /\ q' = [l \in Lines |-> IF l = muxselect THEN Head(fifo[muxselect]) ELSE q[l]]
<1> DEFINE m == muxselect
<1>1. /\ RasterTypeOK /\ fifo \in [Lines -> Seq(Screen)] /\ m \in Lines /\ ~start
      /\ fifo[m] # <<>> /\ fifo[m] \in Seq(Screen) /\ muxselect' = m
  BY Moves DEF RasterInv, RasterTypeOK, LinesInv, start
<1>2. \A l \in Lines : lineState[l] = "INITIAL"
  BY DEF RasterInv, LinesInv, Drained
<1>3. PICK a \in IF complete = {} THEN {0} ELSE EdgeAngles(complete) \cap Angles,
           pop \in Popped(fifo[m]) : LineSteps(readCoord, complete, a, pop)
  BY DEF Cycle, RasterCycle, LineModules
<1>4. pop = <<Head(fifo[m]), Tail(fifo[m])>>
  BY <1>1, <1>3 DEF Popped
<1>5. q' = [l \in Lines |-> IF l = m THEN Head(fifo[m]) ELSE q[l]]
  BY <1>1, <1>3, <1>4 DEF LineSteps, readFIFO
<1>6. fifo'[m] = Tail(fifo[m]) /\ \A l \in Lines : l # m => fifo'[l] = fifo[l]
  BY <1>1, <1>2, IdleLine DEF readFIFO
<1>7. fifo' = [l \in Lines |-> fifo'[l]]
  BY DEF Cycle, RasterCycle, LineModules, LineSteps
<1>8. fifo' = [fifo EXCEPT ![m] = Tail(fifo[m])]
  BY <1>1, <1>6, <1>7
<1> QED BY <1>1, <1>5, <1>8

(* Only a pop changes an output register.                                  *)
LEMMA OutputKeeps ==
    ASSUME NEW startRaster, NEW readCoord, NEW finished, NEW complete,
           Cycle(startRaster, readCoord, finished, complete),
           q \in [Lines -> Screen], rasterState # "S5" \/ ~readCoord
    PROVE  q' = q
<1>1. PICK a, pop : LineSteps(readCoord, complete, a, pop)
  BY DEF Cycle, RasterCycle, LineModules
<1> QED BY <1>1 DEF LineSteps, readFIFO

LEMMA DeliveryStep ==
    ASSUME NEW startRaster, NEW readCoord, NEW finished, NEW complete,
           Cycle(startRaster, readCoord, finished, complete), DeliveryInv
    PROVE  DeliveryInv'
<1>1. RasterNext
  BY DEF Cycle, RasterNext, RasterTick
<1>2. RasterInv' /\ FlagsInv' /\ LinesHold'
  BY <1>1, NextRaster, FlagsStep, HoldStep DEF DeliveryInv
<1>3. q' \in [Lines -> Screen]
  <2>1. CASE rasterState = "S5" /\ readCoord
    <3>1. /\ muxselect \in Lines /\ fifo[muxselect] # <<>> /\ fifo[muxselect] \in Seq(Screen)
          /\ q' = [l \in Lines |-> IF l = muxselect THEN Head(fifo[muxselect]) ELSE q[l]]
      BY <2>1, FifoPops DEF DeliveryInv
    <3>2. Head(fifo[muxselect]) \in Screen
      BY <3>1
    <3> QED BY <3>1, <3>2 DEF DeliveryInv
  <2>2. CASE rasterState # "S5" \/ ~readCoord
    BY <2>2, OutputKeeps DEF DeliveryInv
  <2> QED BY <2>1, <2>2
<1> QED BY <1>2, <1>3 DEF DeliveryInv

LEMMA InitDelivery == RasterInit => DeliveryInv
<1> SUFFICES ASSUME RasterInit PROVE DeliveryInv
  OBVIOUS
<1>1. RasterInv
  BY InitRaster
<1>2. FlagsInv /\ LinesHold
  BY DEF RasterInit, FlagsInv, LinesHold, Waiting
<1>3. q \in [Lines -> Screen]
  <2>1. LineOf[0][0] \in Seq(Screen) /\ LineOf[0][0] # <<>>
    BY LineLengths, Numbers DEF Angles
  <2>2. LineOf[0][0][1] \in Screen
    BY <2>1
  <2>3. (CHOOSE a \in Screen : TRUE) \in Screen
    BY <2>2
  <2> QED BY <2>3 DEF RasterInit
<1> QED BY <1>1, <1>2, <1>3 DEF DeliveryInv

LEMMA NextDelivery == DeliveryInv /\ [RasterNext]_rasterVars => DeliveryInv'
<1> SUFFICES ASSUME DeliveryInv, [RasterNext]_rasterVars PROVE DeliveryInv'
  OBVIOUS
<1>1. CASE RasterNext
  <2>1. PICK startRaster \in BOOLEAN, readCoord \in BOOLEAN :
            /\ startRaster => rasterState = "INITIAL"
            /\ RasterTick(startRaster, readCoord)
    BY <1>1 DEF RasterNext
  <2>2. PICK finished \in SUBSET Calculating, complete \in SUBSET Drawing :
            RasterCycle(startRaster, readCoord, finished, complete)
    BY <2>1 DEF RasterTick
  <2> QED BY <2>1, <2>2, DeliveryStep DEF Cycle
<1>2. CASE UNCHANGED rasterVars
  <2>1. RasterInv'
    BY <1>2, NextRaster DEF DeliveryInv
  <2>2. /\ UNCHANGED <<rasterState, rasterDone, bufferEmpty, ANGLE_ADDRESS>>
        /\ UNCHANGED <<lineState, fifo, q>>
    BY <1>2 DEF rasterVars, fsm, angle, lines
  <2>3. FlagsInv' /\ LinesHold' /\ q' \in [Lines -> Screen]
    BY <2>2 DEF DeliveryInv, FlagsInv, LinesHold
  <2> QED BY <2>1, <2>3 DEF DeliveryInv
<1> QED BY <1>1, <1>2

-----------------------------------------------------------------------------
(* The pixels of a frame one after the other, as Concat strings them       *)
(* together: its initial parts, and what they are when the first lines     *)
(* have none.                                                              *)
Prefixes(f, u) == u = [n \in 0..NUM_LINES |-> IF n = 0 THEN <<>> ELSE u[n - 1] \o f[n - 1]]

(* Concat is the last of the concatenations of more and more lines.        *)
LEMMA Concatenation ==
    ASSUME NEW f \in [Lines -> Seq(Screen)]
    PROVE  \E u : Prefixes(f, u) /\ Concat(f) = u[NUM_LINES]
<1>0. NUM_LINES \in Nat
  BY Numbers
<1> DEFINE Up(k, g) == g = [n \in 0..k |-> IF n = 0 THEN <<>> ELSE g[n - 1] \o f[n - 1]]
           T == {k \in Nat : \E g : Up(k, g)}
<1>1. 0 \in T
  <2> DEFINE g == [n \in 0..0 |-> <<>>]
  <2>1. Up(0, g)
    OBVIOUS
  <2> QED BY <2>1
<1>2. ASSUME NEW k \in Nat, k \in T PROVE k + 1 \in T
  <2>1. PICK g : Up(k, g)
    BY <1>2
  <2> DEFINE h == [n \in 0..(k + 1) |-> IF n = 0 THEN <<>> ELSE g[n - 1] \o f[n - 1]]
  <2>2. ASSUME NEW n \in 0..k PROVE h[n] = g[n]
    <3> DEFINE F(i) == IF i = 0 THEN <<>> ELSE g[i - 1] \o f[i - 1]
    <3>1. g = [i \in 0..k |-> F(i)] /\ h = [i \in 0..(k + 1) |-> F(i)]
      BY <2>1
    <3> HIDE DEF F, h
    <3>2. g[n] = F(n) /\ h[n] = F(n)
      BY <3>1
    <3> QED BY <3>2
  <2>3. Up(k + 1, h)
    <3>1. ASSUME NEW n \in 0..(k + 1), n # 0 PROVE h[n - 1] = g[n - 1]
      <4>1. n - 1 \in 0..k
        BY <3>1
      <4> QED BY <2>2, <4>1
    <3> QED BY <3>1
  <2> HIDE DEF h, Up
  <2> QED BY <2>3
<1>3. NUM_LINES \in T
  BY <1>0, <1>1, <1>2, Induction
<1>4. PICK g : Prefixes(f, g)
  BY <1>3 DEF Prefixes
<1>5. Concat(f) = (CHOOSE u : Prefixes(f, u))[NUM_LINES]
  BY DEF Concat, Prefixes
<1> QED BY <1>4, <1>5

LEMMA PrefixFacts ==
    ASSUME NEW f \in [Lines -> Seq(Screen)], NEW u, Prefixes(f, u)
    PROVE  /\ u[0] = <<>>
           /\ \A n \in Lines : u[n + 1] = u[n] \o f[n]
           /\ \A n \in 0..NUM_LINES : u[n] \in Seq(Screen)
<1>0. NUM_LINES \in Nat /\ NUM_LINES >= 3 /\ Lines = 0..(NUM_LINES - 1)
  BY Numbers DEF Lines
<1> DEFINE F(n) == IF n = 0 THEN <<>> ELSE u[n - 1] \o f[n - 1]
<1>1. u = [n \in 0..NUM_LINES |-> F(n)]
  BY DEF Prefixes
<1> HIDE DEF F
<1>2. \A n \in 0..NUM_LINES : u[n] = F(n)
  BY <1>1
<1>3. u[0] = <<>>
  BY <1>0, <1>2 DEF F
<1>4. ASSUME NEW n \in Lines PROVE u[n + 1] = u[n] \o f[n]
  <2>1. n + 1 \in 0..NUM_LINES /\ n + 1 # 0 /\ (n + 1) - 1 = n
    BY <1>0
  <2> QED BY <1>2, <2>1 DEF F
<1> DEFINE P(n) == n <= NUM_LINES => u[n] \in Seq(Screen)
           T == {n \in Nat : P(n)}
<1>5. P(0)
  <2>1. <<>> \in Seq(Screen)
    OBVIOUS
  <2> QED BY <1>3, <2>1
<1>6. ASSUME NEW n \in Nat, P(n) PROVE P(n + 1)
  <2> SUFFICES ASSUME n + 1 <= NUM_LINES PROVE u[n + 1] \in Seq(Screen)
    OBVIOUS
  <2>1. n \in Lines /\ u[n] \in Seq(Screen) /\ f[n] \in Seq(Screen)
    BY <1>0, <1>6
  <2>2. u[n] \o f[n] \in Seq(Screen)
    BY <2>1, ConcatProperties
  <2> QED BY <1>4, <2>1, <2>2
<1>7. \A n \in Nat : P(n)
  <2> HIDE DEF P
  <2>1. 0 \in T
    BY <1>5
  <2>2. \A n \in T : n + 1 \in T
    BY <1>6
  <2>3. T = Nat
    <3>1. T \in SUBSET Nat
      OBVIOUS
    <3> HIDE DEF T
    <3> QED BY <2>1, <2>2, <3>1, Induction
  <2> QED BY <2>3
<1>8. \A n \in 0..NUM_LINES : u[n] \in Seq(Screen)
  BY <1>0, <1>7
<1> QED BY <1>3, <1>4, <1>8

LEMMA ConcatEmpty ==
    ASSUME NEW f \in [Lines -> Seq(Screen)], \A l \in Lines : f[l] = <<>>
    PROVE  Concat(f) = <<>>
<1>1. PICK u : Prefixes(f, u) /\ Concat(f) = u[NUM_LINES]
  BY Concatenation
<1>2. /\ u[0] = <<>> /\ \A n \in Lines : u[n + 1] = u[n] \o f[n]
      /\ NUM_LINES \in Nat /\ Lines = 0..(NUM_LINES - 1)
  BY <1>1, PrefixFacts, Numbers DEF Lines
<1> DEFINE P(n) == n <= NUM_LINES => u[n] = <<>>
           T == {n \in Nat : P(n)}
<1>3. P(0)
  BY <1>2
<1>4. ASSUME NEW n \in Nat, P(n) PROVE P(n + 1)
  <2> SUFFICES ASSUME n + 1 <= NUM_LINES PROVE u[n + 1] = <<>>
    OBVIOUS
  <2>1. n \in Lines /\ u[n] = <<>> /\ f[n] = <<>>
    BY <1>2, <1>4
  <2>2. u[n + 1] = <<>> \o <<>>
    BY <1>2, <2>1
  <2> QED BY <2>2
<1>5. \A n \in Nat : P(n)
  <2> HIDE DEF P
  <2>1. 0 \in T
    BY <1>3
  <2>2. \A n \in T : n + 1 \in T
    BY <1>4
  <2>3. T = Nat
    <3>1. T \in SUBSET Nat
      OBVIOUS
    <3> HIDE DEF T
    <3> QED BY <2>1, <2>2, <3>1, Induction
  <2> QED BY <2>3
<1>6. u[NUM_LINES] = <<>>
  BY <1>2, <1>5
<1> QED BY <1>1, <1>6

(* The first line that has pixels gives the first pixel, and without it    *)
(* the rest is the same.                                                   *)
LEMMA ConcatPop ==
    ASSUME NEW f \in [Lines -> Seq(Screen)], NEW m \in Lines, f[m] # <<>>,
           \A l \in Lines : l < m => f[l] = <<>>
    PROVE  /\ Concat(f) # <<>> /\ Head(Concat(f)) = Head(f[m])
           /\ Tail(Concat(f)) = Concat([f EXCEPT ![m] = Tail(f[m])])
<1> DEFINE g == [f EXCEPT ![m] = Tail(f[m])]
           x == Head(f[m])
<1>1. /\ f[m] \in Seq(Screen) /\ Tail(f[m]) \in Seq(Screen) /\ x \in Screen
      /\ <<x>> \in Seq(Screen) /\ f[m] = <<x>> \o Tail(f[m])
  BY SMTT(30)
<1>2. /\ g \in [Lines -> Seq(Screen)] /\ g[m] = Tail(f[m])
      /\ \A l \in Lines : l # m => g[l] = f[l]
  BY <1>1
<1> HIDE DEF g, x
<1>3. PICK u : Prefixes(f, u) /\ Concat(f) = u[NUM_LINES]
  BY Concatenation
<1>4. PICK v : Prefixes(g, v) /\ Concat(g) = v[NUM_LINES]
  BY <1>2, Concatenation
<1>5. /\ NUM_LINES \in Nat /\ m \in Nat /\ m < NUM_LINES
      /\ \A n \in Nat : n < NUM_LINES => n \in Lines
      /\ u[0] = <<>> /\ v[0] = <<>>
      /\ \A n \in Lines : u[n + 1] = u[n] \o f[n] /\ v[n + 1] = v[n] \o g[n]
      /\ \A n \in 0..NUM_LINES : u[n] \in Seq(Screen) /\ v[n] \in Seq(Screen)
  <2>1. /\ NUM_LINES \in Nat /\ m \in Nat /\ m < NUM_LINES
        /\ \A n \in Nat : n < NUM_LINES => n \in Lines
    BY Numbers DEF Lines
  <2>2. /\ u[0] = <<>> /\ \A n \in Lines : u[n + 1] = u[n] \o f[n]
        /\ \A n \in 0..NUM_LINES : u[n] \in Seq(Screen)
    BY <1>3, PrefixFacts
  <2>3. /\ v[0] = <<>> /\ \A n \in Lines : v[n + 1] = v[n] \o g[n]
        /\ \A n \in 0..NUM_LINES : v[n] \in Seq(Screen)
    BY <1>2, <1>4, PrefixFacts
  <2> QED BY <2>1, <2>2, <2>3
<1> DEFINE Agree(n) == IF n <= m THEN u[n] = <<>> /\ v[n] = <<>> ELSE u[n] = <<x>> \o v[n]
           P(n) == n <= NUM_LINES => Agree(n)
           T == {n \in Nat : P(n)}
<1>6. P(0)
  BY <1>5
<1>7. ASSUME NEW n \in Nat, P(n) PROVE P(n + 1)
  <2> SUFFICES ASSUME n + 1 <= NUM_LINES PROVE Agree(n + 1)
    OBVIOUS
  <2>1. n \in Lines /\ Agree(n) /\ f[n] \in Seq(Screen) /\ g[n] \in Seq(Screen)
    <3>1. n \in Lines /\ n <= NUM_LINES
      BY <1>5
    <3>2. Agree(n)
      BY <1>7, <3>1
    <3> HIDE DEF Agree
    <3> QED BY <1>2, <3>1, <3>2
  <2>2. u[n + 1] = u[n] \o f[n] /\ v[n + 1] = v[n] \o g[n]
    BY <1>5, <2>1
  <2>3. CASE n < m
    <3>1. u[n] = <<>> /\ v[n] = <<>> /\ f[n] = <<>> /\ g[n] = <<>>
      BY <1>2, <1>5, <2>1, <2>3
    <3>2. u[n + 1] = <<>> /\ v[n + 1] = <<>>
      BY <2>2, <3>1
    <3> QED BY <1>5, <2>3, <3>2
  <2>4. CASE n = m
    <3>1. u[n] = <<>> /\ v[n] = <<>>
      BY <2>1, <2>4
    <3>2. u[n + 1] = f[m] /\ v[n + 1] = Tail(f[m])
      BY <1>1, <1>2, <2>2, <2>4, <3>1
    <3> QED BY <1>1, <1>5, <2>4, <3>2
  <2>5. CASE n > m
    <3>1. u[n] = <<x>> \o v[n]
      BY <1>5, <2>1, <2>5
    <3>2. g[n] = f[n] /\ v[n] \in Seq(Screen) /\ f[n] \in Seq(Screen)
      BY <1>2, <1>5, <2>1, <2>5
    <3>3. \A s, t \in Seq(Screen) : (<<x>> \o s) \o t = <<x>> \o (s \o t)
      BY <1>1, ConcatAssociative
    <3>4. u[n + 1] = <<x>> \o v[n + 1]
      <4>1. (<<x>> \o v[n]) \o f[n] = <<x>> \o (v[n] \o f[n])
        BY <3>2, <3>3
      <4> QED BY <2>2, <3>1, <3>2, <4>1
    <3> QED BY <1>5, <2>5, <3>4
  <2> QED BY <1>5, <2>3, <2>4, <2>5
<1>8. \A n \in Nat : P(n)
  <2> HIDE DEF P
  <2>1. 0 \in T
    BY <1>6
  <2>2. \A n \in T : n + 1 \in T
    BY <1>7
  <2>3. T = Nat
    <3>1. T \in SUBSET Nat
      OBVIOUS
    <3> HIDE DEF T
    <3> QED BY <2>1, <2>2, <3>1, Induction
  <2> QED BY <2>3
<1>9. u[NUM_LINES] = <<x>> \o v[NUM_LINES] /\ v[NUM_LINES] \in Seq(Screen)
  <2>1. Agree(NUM_LINES)
    <3>1. P(NUM_LINES)
      BY <1>5, <1>8
    <3> HIDE DEF Agree
    <3> QED BY <1>5, <3>1
  <2> QED BY <1>5, <2>1
<1>10. /\ Concat(f) # <<>> /\ Head(Concat(f)) = x /\ Tail(Concat(f)) = Concat(g)
  BY <1>1, <1>3, <1>4, <1>9
<1> QED BY <1>10 DEF g, x
-----------------------------------------------------------------------------
(* The invariant of polygonRaster, for any number of triangles and angles. *)
THEOREM RasterInvariant == RasterSpec => []RasterInv
  BY InitRaster, NextRaster, PTL DEF RasterSpec

(* However long the vertices of a frame calculate, and whatever the angle  *)
(* was, every vertex the lines of polygonRaster are drawn from belongs to  *)
(* the frame that was started last.                                        *)
THEOREM RasterVerticesOfThisFrame == RasterSpec => []VerticesOfThisFrame
<1>1. RasterInv => VerticesOfThisFrame
  <2> SUFFICES ASSUME RasterInv, rasterState \in Projected, NEW v \in Vertices
               PROVE  newx[v] = {ANGLE_ADDRESS}
    BY DEF VerticesOfThisFrame, Projected
  <2>1. PICK t \in Triangles, i \in 0..2 : v = <<t, i>>
    BY DEF Vertices
  <2>2. Done(t)
    BY DEF RasterInv, ProjectionInv
  <2> QED BY <2>1, <2>2 DEF Done
<1> QED BY <1>1, RasterInvariant, PTL

(* In STARTRAST no line is at work and no pixel of an earlier frame is     *)
(* left in a FIFO.                                                         *)
THEOREM RasterStartsIdleLines == RasterSpec => []StartsIdleLines
<1>1. RasterInv => StartsIdleLines
  BY DEF RasterInv, LinesInv, Preparing, StartsIdleLines, start
<1> QED BY <1>1, RasterInvariant, PTL

(* In S5 the FIFO that readCoord would pop holds a pixel, so that it does  *)
(* not matter that the underflow check of lineoutput.v is off.             *)
THEOREM RasterPopsFinishedLines == RasterSpec => []PopsFinishedLines
<1>1. RasterInv => PopsFinishedLines
  BY DEF RasterInv, RasterTypeOK, LinesInv, Drained, PopsFinishedLines
<1> QED BY <1>1, RasterInvariant, PTL

-----------------------------------------------------------------------------
(* The contract's view of a state: the angle of the frame, the pixels not  *)
(* read yet and the pixel on the bus.                                      *)
Angle   == ANGLE_ADDRESS % NUM_ANGLES
Pending == IF rasterDone THEN Concat(fifo) ELSE <<>>
Coord   == IF rasterState = "S6" THEN coord ELSE -1
View    == <<Angle, rasterDone, bufferEmpty, Pending, Coord>>

(* A step between two frames, or while a frame is prepared, but for the    *)
(* one that starts it, is none of the contract.                            *)
LEMMA QuietStep ==
    ASSUME NEW startRaster, NEW readCoord, NEW finished, NEW complete,
           Cycle(startRaster, readCoord, finished, complete), DeliveryInv,
           rasterState \in {"INITIAL", "S4", "S5", "S6"} =>
              \/ rasterState = "INITIAL" /\ ~startRaster
              \/ rasterState = "S5" /\ ~readCoord
    PROVE  UNCHANGED View
<1>1. /\ startRaster \in BOOLEAN /\ readCoord \in BOOLEAN
      /\ rasterState \in RasterStates /\ rasterState' \in RasterStates
      /\ AngleInv /\ FlagsInv /\ FlagsInv' /\ RasterInv /\ RasterInv'
  BY Moves, DeliveryStep DEF DeliveryInv, RasterInv, Cycle
<1>2. Angle' = Angle
  <2>1. /\ ANGLE_ADDRESS \in 0..NUM_ANGLES /\ NUM_ANGLES \in Nat /\ NUM_ANGLES >= 1
        /\ rasterState # "test4" => ANGLE_ADDRESS # NUM_ANGLES
    BY <1>1, Numbers DEF AngleInv
  <2>2. ANGLE_ADDRESS' = IF ANGLE_ADDRESS > NUM_ANGLES - 1 THEN 0
                         ELSE IF startRaster THEN ANGLE_ADDRESS + 1 ELSE ANGLE_ADDRESS
    BY DEF Cycle, RasterCycle, RotateAngle
  <2>3. ~startRaster
    BY <1>1 DEF Cycle
  <2>4. CASE ANGLE_ADDRESS = NUM_ANGLES
    <3>1. (NUM_ANGLES * 1 + 0) % NUM_ANGLES = 0 /\ 0 % NUM_ANGLES = 0
      BY <2>1, Remainder, SmallRemainder
    <3>2. NUM_ANGLES % NUM_ANGLES = 0
      BY <2>1, <3>1
    <3>3. ANGLE_ADDRESS' = 0
      BY <2>1, <2>2, <2>4
    <3> QED BY <2>4, <3>1, <3>2, <3>3 DEF Angle
  <2>5. CASE ANGLE_ADDRESS # NUM_ANGLES
    BY <2>1, <2>2, <2>3, <2>5 DEF Angle
  <2> QED BY <2>4, <2>5
<1>3. (rasterDone' <=> rasterDone) /\ (bufferEmpty' <=> bufferEmpty)
  <2>1. rasterState # "INITIAL" => rasterState' # "INITIAL"
    BY <1>1, Moves DEF RasterStates
  <2> QED BY <1>1, <2>1, FlagMoves DEF FlagsInv
<1>4. rasterDone' = rasterDone /\ bufferEmpty' = bufferEmpty
  BY <1>1, <1>3 DEF FlagsInv
<1>5. Coord' = Coord
  BY <1>1, Moves DEF Coord, RasterStates
<1>6. Pending' = Pending
  <2>1. CASE rasterState = "INITIAL"
    <3>1. rasterState' = "INITIAL"
      BY <1>1, <2>1, FlagMoves DEF FlagsInv
    <3>2. /\ \A l \in Lines : fifo[l] = <<>> /\ fifo'[l] = <<>>
          /\ fifo \in [Lines -> Seq(Screen)] /\ fifo' \in [Lines -> Seq(Screen)]
      BY <1>1, <2>1, <3>1 DEF RasterInv, RasterTypeOK, LinesInv
    <3>3. Concat(fifo) = <<>> /\ Concat(fifo') = <<>>
      BY <3>2, ConcatEmpty
    <3> QED BY <3>3 DEF Pending
  <2>2. CASE rasterState = "S5"
    <3>1. fifo' = fifo
      BY <1>1, <2>2, FifoKeeps
    <3> QED BY <1>4, <3>1 DEF Pending
  <2>3. CASE rasterState \notin {"INITIAL", "S5"}
    <3>1. ~rasterDone
      BY <1>1, <2>3 DEF FlagsInv
    <3> QED BY <1>4, <3>1 DEF Pending
  <2> QED BY <2>1, <2>2, <2>3
<1> QED BY <1>2, <1>4, <1>5, <1>6 DEF View

LEMMA InitContract == RasterInit => Contract!Init
<1> SUFFICES ASSUME RasterInit PROVE Contract!Init
  OBVIOUS
<1>1. 0 % NUM_ANGLES = 0
  BY Numbers, SmallRemainder
<1> QED BY <1>1 DEF RasterInit, Contract!Init

(* Each cycle is a step of the contract or none.                           *)
LEMMA CycleContract ==
    ASSUME NEW startRaster, NEW readCoord, NEW finished, NEW complete,
           Cycle(startRaster, readCoord, finished, complete), DeliveryInv
    PROVE  Contract!Next \/ UNCHANGED View
<1>1. /\ startRaster \in BOOLEAN /\ readCoord \in BOOLEAN
      /\ startRaster => rasterState = "INITIAL"
      /\ rasterState \in RasterStates
      /\ AngleInv /\ FlagsInv /\ FlagsInv' /\ RasterInv /\ RasterInv'
      /\ rasterDone \in BOOLEAN /\ bufferEmpty \in BOOLEAN
      /\ rasterDone' \in BOOLEAN /\ bufferEmpty' \in BOOLEAN
      /\ fifo \in [Lines -> Seq(Screen)] /\ fifo' \in [Lines -> Seq(Screen)]
  BY Moves, DeliveryStep DEF DeliveryInv, RasterInv, RasterTypeOK, FlagsInv, Cycle
<1>2. /\ NUM_ANGLES \in Nat /\ NUM_ANGLES >= 1
      /\ rasterState # "test4" =>
            ANGLE_ADDRESS \in Angles /\ Angle = ANGLE_ADDRESS
  <2>1. ANGLE_ADDRESS \in 0..NUM_ANGLES /\ NUM_ANGLES \in Nat /\ NUM_ANGLES >= 1
    BY <1>1, Numbers DEF AngleInv
  <2>2. rasterState # "test4" => ANGLE_ADDRESS \in 0..(NUM_ANGLES - 1)
    BY <1>1, <2>1 DEF AngleInv
  <2> QED BY <2>1, <2>2, SmallRemainder DEF Angle, Angles
<1>3. rasterState \in {"S4", "S5", "S6"} => Angle' = Angle
  BY <1>1, AngleStep DEF Angle, Projected
<1>4. CASE rasterState = "INITIAL" /\ startRaster
  <2>1. rasterState' = "test4" /\ ~rasterDone' /\ ~bufferEmpty'
    BY <1>1, <1>4, FlagMoves
  <2>2. rasterDone = bufferEmpty
    <3>1. rasterDone <=> bufferEmpty
      BY <1>1, <1>4 DEF FlagsInv
    <3> QED BY <1>1, <3>1
  <2>3. Pending = <<>> /\ Pending' = <<>> /\ Coord = -1 /\ Coord' = -1
    <3>1. \A l \in Lines : fifo[l] = <<>>
      BY <1>1, <1>4 DEF RasterInv, LinesInv
    <3>2. Concat(fifo) = <<>>
      BY <1>1, <3>1, ConcatEmpty
    <3> QED BY <1>4, <2>1, <3>2 DEF Pending, Coord
  <2>4. Angle' = (Angle + 1) % NUM_ANGLES
    <3>1. ANGLE_ADDRESS' = ANGLE_ADDRESS + 1
      BY <1>2, <1>4 DEF Cycle, RasterCycle, RotateAngle, Angles
    <3> QED BY <1>2, <1>4, <3>1 DEF Angle
  <2>5. rasterDone' = FALSE /\ bufferEmpty' = FALSE
    BY <1>1, <2>1
  <2>6. Contract!StartFrame
    BY <2>2, <2>3, <2>4, <2>5 DEF Contract!StartFrame, Angle, Pending, Coord
  <2> QED BY <2>6 DEF Contract!Next
<1>5. CASE rasterState = "S4"
  <2>1. /\ rasterState' = "S5" /\ ~rasterDone /\ rasterDone' /\ (bufferEmpty' <=> bufferEmpty)
    BY <1>1, <1>5, Moves, FlagMoves DEF FlagsInv
  <2>2. fifo' = LineOf[ANGLE_ADDRESS]
    <3>1. fifo' = fifo
      BY <1>1, <1>5, FifoKeeps
    <3>2. \A l \in Lines : fifo[l] = LineOf[ANGLE_ADDRESS][l]
      BY <1>5 DEF DeliveryInv, LinesHold, RasterInv, LinesInv, Drained
    <3>3. LineOf[ANGLE_ADDRESS] \in [Lines -> Seq(Screen)]
      BY <1>2, <1>5, RasterAssumption
    <3> QED BY <1>1, <3>1, <3>2, <3>3
  <2>3. Coord = -1 /\ Coord' = -1
    BY <1>5, <2>1 DEF Coord
  <2>4. Pending' = Concat(LineOf[ANGLE_ADDRESS])
    BY <2>1, <2>2 DEF Pending
  <2>5. [a \in Angles |-> Concat(LineOf[a])][Angle] = Concat(LineOf[ANGLE_ADDRESS])
    BY <1>2, <1>5
  <2>6. rasterDone' = TRUE /\ bufferEmpty' = bufferEmpty
    BY <1>1, <2>1
  <2>7. Contract!FinishFrame
    BY <1>3, <1>5, <2>1, <2>3, <2>4, <2>5, <2>6
       DEF Contract!FinishFrame, Angle, Pending, Coord
  <2> QED BY <2>7 DEF Contract!Next
<1>6. CASE rasterState = "S5" /\ readCoord
  <2>1. /\ rasterState' = "S6" /\ rasterDone /\ rasterDone'
        /\ rasterDone' = rasterDone /\ bufferEmpty' = bufferEmpty
    <3>1. rasterState' = "S6" /\ rasterDone
      BY <1>1, <1>6, Moves DEF FlagsInv
    <3>2. (rasterDone' <=> rasterDone) /\ (bufferEmpty' <=> bufferEmpty)
      BY <1>1, <1>6, <3>1, FlagMoves
    <3> QED BY <1>1, <3>1, <3>2
  <2>2. /\ muxselect \in Lines /\ muxselect' = muxselect
        /\ fifo[muxselect] # <<>>
        /\ fifo' = [fifo EXCEPT ![muxselect] = Tail(fifo[muxselect])]
        /\ q'[muxselect'] = Head(fifo[muxselect])
    BY <1>1, <1>6, FifoPops
  <2>3. \A l \in Lines : l < muxselect => fifo[l] = <<>>
    BY <1>1, <1>6 DEF RasterInv, LinesInv, Drained
  <2>4. /\ Concat(fifo) # <<>> /\ Head(Concat(fifo)) = Head(fifo[muxselect])
        /\ Tail(Concat(fifo)) = Concat(fifo')
    BY <1>1, <2>2, <2>3, ConcatPop
  <2>5. Pending # <<>> /\ Coord = -1 /\ Coord' = Head(Pending) /\ Pending' = Tail(Pending)
    BY <1>6, <2>1, <2>2, <2>4 DEF Pending, Coord, coord
  <2>6. Contract!ReadPixel
    BY <1>3, <1>6, <2>1, <2>5 DEF Contract!ReadPixel, Angle, Pending, Coord
  <2> QED BY <2>6 DEF Contract!Next
<1>7. CASE rasterState = "S6"
  <2>1. rasterDone /\ rasterDone' /\ rasterDone' = rasterDone
    BY <1>1, <1>7, Moves, FlagMoves DEF FlagsInv
  <2>2. fifo' = fifo /\ Pending = Concat(fifo) /\ Pending' = Pending
    BY <1>1, <1>7, <2>1, FifoKeeps DEF Pending
  <2>3. Coord # -1 /\ Coord' = -1
    <3>1. rasterState' # "S6"
      BY <1>7, Moves
    <3>2. q[muxselect] \in Screen /\ Screen \subseteq Nat
      BY <1>1, RasterAssumption DEF DeliveryInv, RasterInv, RasterTypeOK
    <3>3. q[muxselect] # -1
      BY <3>2
    <3> QED BY <1>7, <3>1, <3>3 DEF Coord, coord
  <2>4. bufferEmpty' = (Pending = <<>>)
    <3>1. CASE rasterState' = "INITIAL"
      <4>1. bufferEmpty'
        BY <1>1, <1>7, <3>1, FlagMoves
      <4>2. /\ muxselect = NUM_LINES - 1 /\ counter = fifoSize[muxselect]
            /\ counter + Len(fifo[muxselect]) = fifoSize[muxselect]
            /\ counter \in Nat /\ fifo[muxselect] \in Seq(Screen)
            /\ \A l \in Lines : l < muxselect => fifo[l] = <<>>
        BY <1>1, <1>7, <3>1, Moves DEF RasterInv, RasterTypeOK, LinesInv, Drained
      <4>3. Len(fifo[muxselect]) = 0
        BY <4>2
      <4>4. fifo[muxselect] = <<>>
        BY <4>2, <4>3
      <4>5. \A l \in Lines : l = muxselect \/ l < muxselect
        BY <4>2, Numbers
      <4>6. \A l \in Lines : fifo[l] = <<>>
        BY <4>2, <4>4, <4>5
      <4>7. Concat(fifo) = <<>>
        BY <1>1, <4>6, ConcatEmpty
      <4> QED BY <1>1, <2>2, <4>1, <4>7
    <3>2. CASE rasterState' = "S5"
      <4>1. ~bufferEmpty'
        BY <1>1, <3>2 DEF FlagsInv
      <4>2. /\ muxselect' \in Lines /\ fifo'[muxselect'] # <<>>
            /\ \A l \in Lines : l < muxselect' => fifo'[l] = <<>>
        BY <1>1, <3>2 DEF RasterInv, RasterTypeOK, LinesInv, Drained
      <4>3. Concat(fifo') # <<>>
        BY <1>1, <4>2, ConcatPop
      <4> QED BY <1>1, <2>2, <4>1, <4>3
    <3> QED BY <1>7, <3>1, <3>2, Moves
  <2>5. Contract!TakePixel
    BY <1>3, <1>7, <2>1, <2>2, <2>3, <2>4 DEF Contract!TakePixel, Angle, Pending, Coord
  <2> QED BY <2>5 DEF Contract!Next
<1>8. CASE rasterState \in {"INITIAL", "S4", "S5", "S6"} =>
              \/ rasterState = "INITIAL" /\ ~startRaster
              \/ rasterState = "S5" /\ ~readCoord
  BY <1>8, QuietStep
<1> QED BY <1>1, <1>4, <1>5, <1>6, <1>7, <1>8

LEMMA NextContract == DeliveryInv /\ [RasterNext]_rasterVars => [Contract!Next]_(Contract!vars)
<1> SUFFICES ASSUME DeliveryInv, [RasterNext]_rasterVars
             PROVE  Contract!Next \/ UNCHANGED Contract!vars
  OBVIOUS
<1>1. UNCHANGED View => UNCHANGED Contract!vars
  BY DEF View, Contract!vars, Angle, Pending, Coord
<1>2. CASE RasterNext
  <2>1. PICK startRaster \in BOOLEAN, readCoord \in BOOLEAN :
            /\ startRaster => rasterState = "INITIAL"
            /\ RasterTick(startRaster, readCoord)
    BY <1>2 DEF RasterNext
  <2>2. PICK finished \in SUBSET Calculating, complete \in SUBSET Drawing :
            RasterCycle(startRaster, readCoord, finished, complete)
    BY <2>1 DEF RasterTick
  <2>3. Cycle(startRaster, readCoord, finished, complete)
    BY <2>1, <2>2 DEF Cycle
  <2> QED BY <1>1, <2>3, CycleContract
<1>3. CASE UNCHANGED rasterVars
  <2>1. UNCHANGED View
    BY <1>3 DEF View, Angle, Pending, Coord, coord, rasterVars, fsm, angle, lines
  <2> QED BY <1>1, <2>1
<1> QED BY <1>2, <1>3

(* polygonRaster keeps its promise to top.sv, for any number of triangles  *)
(* and angles and any lines: whatever the vertices and the lines take, the *)
(* pixels of a frame are those of its own angle, each is read once and in  *)
(* the order of the lines, rasterDone is never early, and bufferEmpty      *)
(* comes with the last pixel.                                              *)
THEOREM RasterImplementsContract == RasterSpec => ImplementsRasterContract
<1>1. RasterSpec => []DeliveryInv
  BY InitDelivery, NextDelivery, PTL DEF RasterSpec
<1>2. RasterSpec => Contract!Init /\ [][RasterNext]_rasterVars
  BY InitContract, PTL DEF RasterSpec
<1>3. RasterSpec => Contract!Spec
  BY <1>1, <1>2, NextContract, PTL DEF Contract!Spec
<1> QED BY <1>3 DEF ImplementsRasterContract

-----------------------------------------------------------------------------
(***************************************************************************)
(* Gpu: the render loop and the rasterizer stay in step, each finished     *)
(* buffer holds its picture and nothing else, and what the display         *)
(* switches to is a whole picture.                                         *)
(*                                                                         *)
(* The invariant of PolygonRaster is carried over, and added to it: which  *)
(* states of the two machines meet (InStep), how far the clearing has come *)
(* (ClearInv), that the pixels drawn, on their way and still in the FIFOs  *)
(* make up the picture (PixelsInv), and that the other buffer is whole     *)
(* (OtherInv).                                                             *)
(***************************************************************************)
(* The two halves of the render loop: the first draws buffer2, the second  *)
(* buffer1.                                                                *)
First  == {"INITIAL", "CL1", "CL2", "WAIT1", "S23", "START", "S24", "S1"}
Second == {"F25", "CL3", "CL4", "F26", "F27", "S2", "F28", "S3"}
Drawn == IF renderState \in Second THEN buffer1 ELSE buffer2
Other == IF renderState \in Second THEN buffer2 ELSE buffer1

(* The stages either half goes through.                                    *)
Idling    == {"WAIT2", "DUMB"}
Launching == {"INITIAL", "F25"}
Clearing  == {"CL1", "CL3"}
Cleared   == {"CL2", "CL4"}
Awaiting  == {"WAIT1", "F26"}
Reading   == {"S23", "F27"}
Writing   == {"START", "S2"}
Checking  == {"S24", "F28"}
Finished  == {"S1", "S3"}
Preparation == Clearing \cup Cleared \cup Awaiting

Pixels(s) == {s[i] : i \in 1..Len(s)}
Left == UNION {Pixels(fifo[l]) : l \in Lines}

GpuTypeOK ==
    /\ renderState \in Idling \cup First \cup Second
    /\ memCounter \in Nat
    /\ buffer1 \subseteq Render!Addresses /\ buffer2 \subseteq Render!Addresses
    /\ select \in BOOLEAN /\ frame_switched \in BOOLEAN /\ syncWait \in Nat

InStep ==
    /\ renderState \in Idling \cup Launching \cup Finished => rasterState = "INITIAL"
    /\ renderState \in Preparation => rasterState \notin {"INITIAL", "S6"}
    /\ renderState \in Reading => rasterState = "S5"
    /\ renderState \in Writing => rasterState = "S6"
    /\ renderState \in Checking =>
          \/ rasterState = "S5"
          \/ rasterState = "INITIAL" /\ bufferEmpty

ClearInv ==
    /\ renderState \in Clearing => memCounter < SCREEN_SIZE
    /\ renderState \in Cleared => memCounter <= SCREEN_SIZE
    /\ renderState \in Clearing \cup Cleared => \A i \in Drawn : i >= memCounter
    /\ renderState \in Awaiting => Drawn = {}
    /\ renderState \notin Preparation => memCounter = 0

PixelsInv ==
    /\ rasterState = "S5" /\ renderState \in Preparation => Left = Image(ANGLE_ADDRESS)
    /\ renderState \in Reading \cup Checking => Drawn \cup Left = Image(ANGLE_ADDRESS)
    /\ renderState \in Writing => Drawn \cup {coord} \cup Left = Image(ANGLE_ADDRESS)
    /\ renderState \in Finished => Drawn = Image(ANGLE_ADDRESS)

(* The other buffer is a whole picture, of this or the last angle; it is   *)
(* not in the first frame, but that ends before the display can show it.   *)
FirstFrame ==
    /\ renderState \in Idling \cup First
    /\ \/ ~select
       \/ renderState = "S1" /\ frame_switched /\ syncWait > 0

OtherInv ==
    \/ FirstFrame
    \/ renderState \in Launching /\ Other = Image(ANGLE_ADDRESS)
    \/ renderState \in (First \cup Second) \ Launching /\ Other = Image(PreviousAngle)

GpuInv == /\ DeliveryInv /\ GpuTypeOK /\ InStep
          /\ ClearInv /\ PixelsInv /\ OtherInv
-----------------------------------------------------------------------------
(* The pixels of a sequence.                                               *)
LEMMA PixelsFacts ==
    /\ Pixels(<<>>) = {}
    /\ \A s \in Seq(Screen) :
          /\ Pixels(s) \subseteq Screen
          /\ s # <<>> => Pixels(s) = {Head(s)} \cup Pixels(Tail(s))
<1>1. Pixels(<<>>) = {}
  BY DEF Pixels
<1>2. ASSUME NEW s \in Seq(Screen) PROVE Pixels(s) \subseteq Screen
  BY DEF Pixels
<1>3. ASSUME NEW s \in Seq(Screen), s # <<>>
      PROVE  Pixels(s) = {Head(s)} \cup Pixels(Tail(s))
  <2>1. /\ Len(s) \in Nat \ {0} /\ Head(s) = s[1] /\ Len(Tail(s)) = Len(s) - 1
        /\ \A i \in 1..(Len(s) - 1) : Tail(s)[i] = s[i + 1]
    BY <1>3
  <2>2. ASSUME NEW x \in Pixels(s) PROVE x \in {Head(s)} \cup Pixels(Tail(s))
    <3>1. PICK i \in 1..Len(s) : x = s[i]
      BY DEF Pixels
    <3>2. CASE i = 1
      BY <2>1, <3>1, <3>2
    <3>3. CASE i # 1
      <4>1. i - 1 \in 1..Len(Tail(s)) /\ Tail(s)[i - 1] = s[i]
        BY <2>1, <3>1, <3>3
      <4> QED BY <3>1, <4>1 DEF Pixels
    <3> QED BY <3>2, <3>3
  <2>3. ASSUME NEW x \in Pixels(Tail(s)) PROVE x \in Pixels(s)
    <3>1. PICK i \in 1..Len(Tail(s)) : x = Tail(s)[i]
      BY DEF Pixels
    <3>2. i + 1 \in 1..Len(s) /\ x = s[i + 1]
      BY <2>1, <3>1
    <3> QED BY <3>2 DEF Pixels
  <2>4. Head(s) \in Pixels(s)
    BY <2>1 DEF Pixels
  <2> QED BY <2>2, <2>3, <2>4
<1> QED BY <1>1, <1>2, <1>3

LEMMA ImageFacts ==
    /\ \A a : Image(a) = UNION {Pixels(LineOf[a][l]) : l \in Lines}
    /\ \A a \in Angles : Image(a) \subseteq Screen
<1>1. \A a : Image(a) = UNION {Pixels(LineOf[a][l]) : l \in Lines}
  BY DEF Image, Pixels
<1>2. ASSUME NEW a \in Angles PROVE Image(a) \subseteq Screen
  <2>1. \A l \in Lines : Pixels(LineOf[a][l]) \subseteq Screen
    BY LineLengths, PixelsFacts
  <2> QED BY <1>1, <2>1
<1> QED BY <1>1, <1>2

(* A cycle of the rasterizer takes a pixel out of the FIFOs only if it is  *)
(* told to in S5, and puts the same pixel on the coord bus.                *)
LEMMA LeftStep ==
    ASSUME NEW startRaster, NEW readCoord, NEW finished, NEW complete,
           Cycle(startRaster, readCoord, finished, complete), RasterInv, LinesHold
    PROVE  /\ rasterState = "S4" => Left' = Image(ANGLE_ADDRESS)
           /\ rasterState = "S5" /\ ~readCoord => Left' = Left
           /\ rasterState = "S5" /\ readCoord => Left = {coord'} \cup Left'
           /\ rasterState = "S6" => Left' = Left
           /\ rasterState = "S6" /\ rasterState' = "INITIAL" => Left' = {}
<1>1. fifo \in [Lines -> Seq(Screen)] /\ muxselect \in Lines
  BY DEF RasterInv, RasterTypeOK
<1>2. rasterState \in {"S4", "S5", "S6"} /\ (rasterState # "S5" \/ ~readCoord) => Left' = Left
  BY FifoKeeps DEF Left, Pixels
<1>3. rasterState = "S4" => Left' = Image(ANGLE_ADDRESS)
  <2> SUFFICES ASSUME rasterState = "S4" PROVE Left = Image(ANGLE_ADDRESS)
    BY <1>2
  <2>1. \A l \in Lines : fifo[l] = LineOf[ANGLE_ADDRESS][l]
    BY DEF RasterInv, LinesInv, Drained, LinesHold
  <2> QED BY <2>1, ImageFacts DEF Left
<1>4. ASSUME rasterState = "S5", readCoord PROVE Left = {coord'} \cup Left'
  <2> DEFINE m == muxselect
  <2>1. /\ fifo[m] # <<>> /\ fifo[m] \in Seq(Screen) /\ muxselect' = m
        /\ fifo' = [fifo EXCEPT ![m] = Tail(fifo[m])] /\ q'[m] = Head(fifo[m])
    BY <1>4, FifoPops
  <2>2. Pixels(fifo[m]) = {coord'} \cup Pixels(fifo'[m])
    BY <1>1, <2>1, PixelsFacts DEF coord
  <2>3. \A l \in Lines : l # m => Pixels(fifo[l]) = Pixels(fifo'[l])
    BY <1>1, <2>1
  <2>4. Left' = UNION {Pixels(fifo'[l]) : l \in Lines}
    BY DEF Left, Pixels
  <2> HIDE DEF m
  <2> QED BY <1>1, <2>2, <2>3, <2>4 DEF Left, m
<1>5. rasterState = "S6" /\ rasterState' = "INITIAL" => Left' = {}
  <2> SUFFICES ASSUME rasterState = "S6", rasterState' = "INITIAL" PROVE Left' = {}
    OBVIOUS
  <2>1. LinesInv'
    BY LinesDrain DEF RasterInv
  <2>2. \A l \in Lines : fifo'[l] = <<>>
    BY <2>1 DEF LinesInv
  <2>3. Left' = UNION {Pixels(fifo'[l]) : l \in Lines}
    BY DEF Left, Pixels
  <2> QED BY <2>2, <2>3, PixelsFacts
<1> QED BY <1>2, <1>3, <1>4, <1>5

-----------------------------------------------------------------------------
(* The render loop, stage by stage: Drawn and Other change places when the *)
(* display has switched.                                                   *)
Stay == Drawn' = Drawn /\ Other' = Other /\ (renderState' \in First <=> renderState \in First)

LoopMoves(done, mem, empty, switched) ==
    /\ renderState \in Idling =>
          /\ renderState' \in Idling \cup {"INITIAL"} /\ memCounter' = memCounter
          /\ buffer1' = buffer1 /\ buffer2' = buffer2
    /\ renderState \in Launching =>
          renderState' \in Clearing /\ memCounter' = memCounter /\ Stay
    /\ renderState \in Clearing =>
          /\ renderState' \in Cleared /\ memCounter' = memCounter + 1
          /\ Drawn' = Drawn \ {memCounter} /\ Other' = Other
          /\ renderState' \in First <=> renderState \in First
    /\ renderState \in Cleared =>
          /\ memCounter' = memCounter /\ Stay
          /\ \/ renderState' \in Awaiting /\ memCounter = SCREEN_SIZE
             \/ renderState' \in Clearing /\ memCounter # SCREEN_SIZE
    /\ renderState \in Awaiting =>
          /\ Stay
          /\ \/ renderState' \in Reading /\ done /\ memCounter' = 0
             \/ renderState' = renderState /\ ~done /\ memCounter' = memCounter
    /\ renderState \in Reading =>
          renderState' \in Writing /\ memCounter' = memCounter /\ Stay
    /\ renderState \in Writing =>
          /\ renderState' \in Checking /\ memCounter' = memCounter
          /\ Drawn' = Drawn \cup {mem} /\ Other' = Other
          /\ renderState' \in First <=> renderState \in First
    /\ renderState \in Checking =>
          /\ memCounter' = memCounter /\ Stay
          /\ \/ renderState' \in Finished /\ empty
             \/ renderState' \in Reading /\ ~empty
    /\ renderState \in Finished =>
          \/ /\ switched /\ renderState' \in Launching /\ memCounter' = 0
             /\ Drawn' = Other /\ Other' = Drawn
             /\ renderState' = "F25" \/ renderState = "S3"
          \/ ~switched /\ renderState' = renderState /\ memCounter' = memCounter /\ Stay
    /\ renderState \in Idling \cup First \cup Second

LEMMA RenderMoves ==
    ASSUME NEW go, NEW done \in BOOLEAN, NEW mem, NEW empty \in BOOLEAN,
           NEW switched \in BOOLEAN,
           Render!RenderCycle(go, done, mem, empty, switched)
    PROVE  LoopMoves(done, mem, empty, switched)
<1> USE DEF Idling, Launching, Clearing, Cleared, Awaiting, Reading, Writing, Checking,
            Finished, First, Second, Drawn, Other, Stay, LoopMoves, Render!Go
<1>1. CASE Render!WAIT2(go)
  BY <1>1 DEF Render!WAIT2
<1>2. CASE Render!DUMB
  BY <1>2 DEF Render!DUMB
<1>3. CASE Render!INITIAL
  BY <1>3 DEF Render!INITIAL
<1>4. CASE Render!CL1
  BY <1>4 DEF Render!CL1
<1>5. CASE Render!CL2
  BY <1>5 DEF Render!CL2
<1>6. CASE Render!WAIT1(done)
  BY <1>6 DEF Render!WAIT1
<1>7. CASE Render!S23
  BY <1>7 DEF Render!S23
<1>8. CASE Render!START(mem)
  BY <1>8 DEF Render!START
<1>9. CASE Render!S24(empty)
  BY <1>9 DEF Render!S24
<1>10. CASE Render!S1(switched)
  BY <1>10 DEF Render!S1
<1> QED BY <1>1, <1>2, <1>3, <1>4, <1>5, <1>6, <1>7, <1>8, <1>9, <1>10
        DEF Render!RenderCycle

-----------------------------------------------------------------------------
(* A cycle of both machines, each on the outputs of the other.             *)
Tock(finished, complete) ==
    /\ Cycle(Render!startRaster, Render!readCoord, finished, complete)
    /\ Render!RenderCycle(startRender, rasterDone, coord, bufferEmpty, frame_switched)
    /\ syncWait' = IF syncWait = 0 THEN 0 ELSE syncWait - 1
    /\ UNCHANGED <<screenVars, startRender>>

LEMMA TickTock ==
    ASSUME GpuInv, Tick
    PROVE  \E finished, complete : Tock(finished, complete)
<1>1. PICK finished \in SUBSET Calculating, complete \in SUBSET Drawing :
          RasterCycle(Render!startRaster, Render!readCoord, finished, complete)
  BY DEF Tick, RasterTick
<1>2. Render!startRaster \in BOOLEAN /\ Render!readCoord \in BOOLEAN
  BY DEF Render!startRaster, Render!readCoord
<1>3. Render!startRaster => rasterState = "INITIAL"
  BY DEF GpuInv, InStep, Launching, Render!startRaster
<1>4. Cycle(Render!startRaster, Render!readCoord, finished, complete)
  BY <1>1, <1>2, <1>3 DEF Cycle
<1> QED BY <1>4 DEF Tock, Tick

LEMMA Stages ==
    /\ Render!startRaster <=> renderState \in Launching
    /\ Render!readCoord <=> renderState \in Reading
    /\ Idling \cap (First \cup Second) = {} /\ First \cap Second = {}
    /\ First \cup Second = Launching \cup Preparation \cup Reading \cup Writing
                              \cup Checking \cup Finished
    /\ Launching \cap (Preparation \cup Reading \cup Writing \cup Checking \cup Finished) = {}
    /\ Preparation \cap (Reading \cup Writing \cup Checking \cup Finished) = {}
    /\ Reading \cap (Writing \cup Checking \cup Finished) = {}
    /\ Writing \cap (Checking \cup Finished) = {} /\ Checking \cap Finished = {}
    /\ Clearing \cap (Cleared \cup Awaiting) = {} /\ Cleared \cap Awaiting = {}
  BY DEF Render!startRaster, Render!readCoord, Idling, First, Second, Launching, Preparation,
         Clearing, Cleared, Awaiting, Reading, Writing, Checking, Finished

(* The step of the render loop, with what it is given.                     *)
LEMMA Loop ==
    ASSUME NEW finished, NEW complete, Tock(finished, complete), GpuInv
    PROVE  /\ LoopMoves(rasterDone, coord, bufferEmpty, frame_switched)
           /\ rasterDone \in BOOLEAN /\ bufferEmpty \in BOOLEAN
           /\ RasterInv /\ FlagsInv /\ LinesHold
<1>1. /\ rasterDone \in BOOLEAN /\ bufferEmpty \in BOOLEAN /\ frame_switched \in BOOLEAN
      /\ Render!RenderCycle(startRender, rasterDone, coord, bufferEmpty, frame_switched)
      /\ RasterInv /\ FlagsInv /\ LinesHold
  BY DEF Tock, GpuInv, GpuTypeOK, DeliveryInv, FlagsInv
<1> QED BY <1>1, RenderMoves

LEMMA InStepTick ==
    ASSUME NEW finished, NEW complete, Tock(finished, complete), GpuInv
    PROVE  InStep'
<1>1. /\ Cycle(Render!startRaster, Render!readCoord, finished, complete)
      /\ GpuTypeOK /\ InStep /\ FlagsInv /\ rasterDone \in BOOLEAN /\ bufferEmpty \in BOOLEAN
      /\ LoopMoves(rasterDone, coord, bufferEmpty, frame_switched)
  BY Loop DEF Tock, GpuInv
<1>2. renderState \in Idling \cup Launching \cup Finished => rasterState = "INITIAL"
  BY <1>1 DEF InStep
<1>3. CASE renderState \in Idling \cup Finished
  <2>1. rasterState' = "INITIAL"
    BY <1>1, <1>2, <1>3, Stages, FlagMoves
  <2>2. renderState' \in Idling \cup Launching \cup Finished
    BY <1>1, <1>3 DEF LoopMoves, Launching
  <2> QED BY <2>1, <2>2, Stages DEF InStep
<1>4. CASE renderState \in Launching
  <2>1. rasterState' = "test4"
    BY <1>1, <1>2, <1>4, Stages, FlagMoves
  <2>2. renderState' \in Preparation
    BY <1>1, <1>4 DEF LoopMoves, Preparation
  <2> QED BY <2>1, <2>2, Stages DEF InStep
<1>5. CASE renderState \in Preparation
  <2>1. rasterState \notin {"INITIAL", "S6"} /\ ~Render!readCoord
    BY <1>1, <1>5, Stages DEF InStep
  <2>2. /\ rasterState' \notin {"INITIAL", "S6"}
        /\ rasterState = "S5" => rasterState' = "S5"
    BY <1>1, <2>1, Moves DEF RasterStates
  <2>3. \/ renderState' \in Preparation
        \/ renderState' \in Reading /\ rasterDone
    BY <1>1, <1>5 DEF LoopMoves, Preparation
  <2>4. rasterDone => rasterState = "S5"
    BY <1>1, <2>1 DEF FlagsInv
  <2> QED BY <2>2, <2>3, <2>4, Stages DEF InStep
<1>6. CASE renderState \in Reading
  <2>1. rasterState = "S5" /\ rasterState' = "S6"
    BY <1>1, <1>6, Stages, Moves DEF InStep
  <2>2. renderState' \in Writing
    BY <1>1, <1>6 DEF LoopMoves
  <2> QED BY <2>1, <2>2, Stages DEF InStep
<1>7. CASE renderState \in Writing
  <2>1. rasterState = "S6"
    BY <1>1, <1>7 DEF InStep
  <2>2. \/ rasterState' = "S5"
        \/ rasterState' = "INITIAL" /\ bufferEmpty'
    BY <1>1, <2>1, Moves, FlagMoves
  <2>3. renderState' \in Checking
    BY <1>1, <1>7 DEF LoopMoves
  <2> QED BY <2>2, <2>3, Stages DEF InStep
<1>8. CASE renderState \in Checking
  <2>1. /\ \/ rasterState = "S5" /\ ~bufferEmpty
           \/ rasterState = "INITIAL" /\ bufferEmpty
        /\ ~Render!readCoord /\ ~Render!startRaster
    BY <1>1, <1>8, Stages DEF InStep, FlagsInv
  <2>2. CASE rasterState = "S5"
    <3>1. rasterState' = "S5" /\ renderState' \in Reading
      BY <1>1, <1>8, <2>1, <2>2, Moves DEF LoopMoves
    <3> QED BY <3>1, Stages DEF InStep
  <2>3. CASE rasterState = "INITIAL"
    <3>1. rasterState' = "INITIAL" /\ renderState' \in Finished
      BY <1>1, <1>8, <2>1, <2>3, FlagMoves DEF LoopMoves
    <3> QED BY <3>1, Stages DEF InStep
  <2> QED BY <2>1, <2>2, <2>3
<1>9. renderState \in Idling \cup First \cup Second
  BY <1>1 DEF GpuTypeOK
<1> QED BY <1>3, <1>4, <1>5, <1>6, <1>7, <1>8, <1>9, Stages

(* The angle moves only when a frame starts, and wraps a cycle later; what *)
(* was the current angle is then the previous one.                         *)
LEMMA AngleTick ==
    ASSUME NEW finished, NEW complete, Tock(finished, complete), GpuInv
    PROVE  /\ renderState \in Launching => PreviousAngle' = ANGLE_ADDRESS
           /\ renderState \notin Launching => PreviousAngle' = PreviousAngle
           /\ renderState \notin Launching /\ rasterState # "test4" =>
                 ANGLE_ADDRESS' = ANGLE_ADDRESS
<1> DEFINE n == NUM_ANGLES
<1>1. /\ ANGLE_ADDRESS \in 0..n /\ n \in Nat /\ n >= 1
      /\ rasterState # "test4" => ANGLE_ADDRESS \in 0..(n - 1)
      /\ renderState \in Launching => rasterState = "INITIAL"
  BY Numbers DEF GpuInv, DeliveryInv, RasterInv, AngleInv, InStep
<1>2. ANGLE_ADDRESS' = IF ANGLE_ADDRESS > n - 1 THEN 0
                       ELSE IF Render!startRaster THEN ANGLE_ADDRESS + 1 ELSE ANGLE_ADDRESS
  BY DEF Tock, Cycle, RasterCycle, RotateAngle
<1>3. CASE renderState \in Launching
  <2>1. ANGLE_ADDRESS \in 0..(n - 1) /\ ANGLE_ADDRESS' = ANGLE_ADDRESS + 1
    BY <1>1, <1>2, <1>3, Stages
  <2>2. (ANGLE_ADDRESS + 1 + n - 1) % n = ANGLE_ADDRESS
    <3>1. ANGLE_ADDRESS + 1 + n - 1 = n * 1 + ANGLE_ADDRESS
      BY <1>1, <2>1
    <3> QED BY <1>1, <2>1, <3>1, Remainder
  <2> QED BY <1>3, <2>1, <2>2 DEF PreviousAngle
<1>4. CASE renderState \notin Launching /\ ANGLE_ADDRESS # n
  <2>1. ANGLE_ADDRESS' = ANGLE_ADDRESS
    BY <1>1, <1>2, <1>4, Stages
  <2> QED BY <1>4, <2>1 DEF PreviousAngle
<1>5. CASE renderState \notin Launching /\ ANGLE_ADDRESS = n
  <2>1. ANGLE_ADDRESS' = 0 /\ rasterState = "test4"
    BY <1>1, <1>2, <1>5
  <2>2. (n + n - 1) % n = n - 1 /\ (0 + n - 1) % n = n - 1
    <3>1. n + n - 1 = n * 1 + (n - 1) /\ 0 + n - 1 = n * 0 + (n - 1) /\ n - 1 \in 0..(n - 1)
      BY <1>1
    <3> QED BY <1>1, <3>1, Remainder
  <2> QED BY <1>5, <2>1, <2>2 DEF PreviousAngle
<1> QED BY <1>3, <1>4, <1>5

LEMMA ClearTick ==
    ASSUME NEW finished, NEW complete, Tock(finished, complete), GpuInv
    PROVE  ClearInv'
<1>0. /\ GpuTypeOK /\ ClearInv /\ memCounter \in Nat
      /\ SCREEN_SIZE \in Nat /\ SCREEN_SIZE >= 1
      /\ LoopMoves(rasterDone, coord, bufferEmpty, frame_switched)
      /\ Drawn \subseteq 0..(SCREEN_SIZE - 1)
  BY Loop, GpuAssumption DEF GpuInv, GpuTypeOK, Drawn, Render!Addresses
<1>1. CASE renderState \in Clearing
  <2>1. /\ renderState' \in Cleared /\ memCounter' = memCounter + 1
        /\ Drawn' = Drawn \ {memCounter} /\ memCounter < SCREEN_SIZE
        /\ \A i \in Drawn : i >= memCounter
    BY <1>0, <1>1 DEF LoopMoves, ClearInv
  <2>2. \A i \in Drawn' : i >= memCounter'
    BY <1>0, <2>1
  <2> QED BY <1>0, <2>1, <2>2, Stages DEF ClearInv, Preparation
<1>2. CASE renderState \in Cleared
  <2>1. /\ memCounter' = memCounter /\ Drawn' = Drawn /\ memCounter <= SCREEN_SIZE
        /\ \A i \in Drawn : i >= memCounter
        /\ \/ renderState' \in Awaiting /\ memCounter = SCREEN_SIZE
           \/ renderState' \in Clearing /\ memCounter # SCREEN_SIZE
    BY <1>0, <1>2 DEF LoopMoves, ClearInv, Stay
  <2>2. memCounter = SCREEN_SIZE => Drawn = {}
    BY <1>0, <2>1
  <2> QED BY <1>0, <2>1, <2>2, Stages DEF ClearInv, Preparation
<1>3. CASE renderState \in Awaiting
  <2>1. /\ Drawn' = Drawn /\ Drawn = {}
        /\ \/ renderState' \in Reading /\ memCounter' = 0
           \/ renderState' \in Awaiting
    BY <1>0, <1>3 DEF LoopMoves, ClearInv, Stay
  <2> QED BY <1>0, <2>1, Stages DEF ClearInv, Preparation
<1>4. CASE renderState \in Launching
  <2>1. renderState' \in Clearing /\ memCounter' = 0 /\ Drawn' = Drawn
    BY <1>0, <1>4, Stages DEF LoopMoves, ClearInv, Stay
  <2> QED BY <1>0, <2>1, Stages DEF ClearInv, Preparation
<1>5. CASE renderState \in Idling \cup Reading \cup Writing \cup Checking \cup Finished
  <2>1. memCounter = 0
    BY <1>0, <1>5, Stages DEF ClearInv, Preparation, Clearing, Cleared, Awaiting, Idling
  <2>2. memCounter' = 0 /\ renderState' \in Idling \cup Launching \cup Reading \cup Writing
                                               \cup Checking \cup Finished
    BY <1>0, <1>5, <2>1 DEF LoopMoves, Launching
  <2>3. renderState' \notin Preparation
    BY <2>2, Stages DEF Preparation, Clearing, Cleared, Awaiting, Idling
  <2> QED BY <2>2, <2>3 DEF ClearInv, Preparation
<1> QED BY <1>0, <1>1, <1>2, <1>3, <1>4, <1>5, Stages DEF GpuTypeOK, Preparation

(* No pixel is lost on its way from the FIFOs to the buffer: one that is   *)
(* popped is on the coord bus in the next cycle, and written in that one.  *)
LEMMA PixelsTick ==
    ASSUME NEW finished, NEW complete, Tock(finished, complete), GpuInv
    PROVE  PixelsInv'
<1>0. /\ Cycle(Render!startRaster, Render!readCoord, finished, complete)
      /\ RasterInv /\ FlagsInv /\ LinesHold /\ GpuTypeOK /\ InStep /\ ClearInv /\ PixelsInv
      /\ rasterDone \in BOOLEAN /\ bufferEmpty \in BOOLEAN
      /\ LoopMoves(rasterDone, coord, bufferEmpty, frame_switched)
  BY Loop DEF Tock, GpuInv
<1>1. CASE renderState \in Idling \cup Launching
  <2>1. renderState' \in Idling \cup {"INITIAL"} \cup Clearing
    BY <1>0, <1>1 DEF LoopMoves
  <2>2. rasterState' # "S5"
    BY <1>0, <1>1, Moves DEF InStep
  <2>3. renderState' \notin Reading \cup Writing \cup Checking \cup Finished
    BY <2>1 DEF Idling, Clearing, Reading, Writing, Checking, Finished
  <2> QED BY <2>2, <2>3 DEF PixelsInv
<1>2. CASE renderState \in Preparation
  <2>1. /\ rasterState \notin {"INITIAL", "S6"} /\ ~Render!readCoord
        /\ rasterDone => rasterState = "S5"
    BY <1>0, <1>2, Stages DEF InStep, FlagsInv
  <2>2. rasterState' = "S5" => rasterState \in {"S4", "S5"}
    BY <1>0, <2>1, Moves DEF RasterStates
  <2>3. rasterState \in {"S4", "S5"} => ANGLE_ADDRESS' = ANGLE_ADDRESS
    BY <1>0, AngleStep DEF RasterInv, Projected
  <2>4. rasterState' = "S5" => Left' = Image(ANGLE_ADDRESS)
    BY <1>0, <1>2, <2>1, <2>2, LeftStep DEF PixelsInv
  <2>5. \/ renderState' \in Preparation
        \/ renderState' \in Reading /\ rasterState = "S5" /\ Drawn' = {}
    BY <1>0, <1>2, <2>1 DEF LoopMoves, Preparation, ClearInv, Stay
  <2>6. CASE renderState' \in Preparation
    <3>1. rasterState' = "S5" => Left' = Image(ANGLE_ADDRESS)'
      BY <2>2, <2>3, <2>4 DEF Image
    <3> QED BY <2>6, <3>1, Stages DEF PixelsInv
  <2>7. CASE renderState' \in Reading /\ rasterState = "S5" /\ Drawn' = {}
    <3>1. rasterState' = "S5"
      BY <1>0, <2>1, <2>7, Moves
    <3>2. Left' = Image(ANGLE_ADDRESS)'
      BY <2>2, <2>3, <2>4, <3>1 DEF Image
    <3>3. (Drawn \cup Left = Image(ANGLE_ADDRESS))'
      BY <2>7, <3>2
    <3> QED BY <2>7, <3>3, Stages DEF PixelsInv
  <2> QED BY <2>5, <2>6, <2>7
<1>3. CASE renderState \in Reading
  <2>1. /\ rasterState = "S5" /\ Render!readCoord
        /\ renderState' \in Writing /\ Drawn' = Drawn
        /\ Drawn \cup Left = Image(ANGLE_ADDRESS)
    BY <1>0, <1>3, Stages DEF InStep, LoopMoves, Stay, PixelsInv
  <2>2. Left = {coord'} \cup Left' /\ ANGLE_ADDRESS' = ANGLE_ADDRESS
    BY <1>0, <2>1, LeftStep, AngleStep DEF RasterInv, Projected
  <2>3. (Drawn \cup {coord} \cup Left = Image(ANGLE_ADDRESS))'
    BY <2>1, <2>2 DEF Image
  <2> QED BY <2>1, <2>3, Stages DEF PixelsInv
<1>4. CASE renderState \in Writing
  <2>1. /\ rasterState = "S6" /\ renderState' \in Checking
        /\ Drawn' = Drawn \cup {coord}
        /\ Drawn \cup {coord} \cup Left = Image(ANGLE_ADDRESS)
    BY <1>0, <1>4 DEF InStep, LoopMoves, PixelsInv
  <2>2. Left' = Left /\ ANGLE_ADDRESS' = ANGLE_ADDRESS
    BY <1>0, <2>1, LeftStep, AngleStep DEF RasterInv, Projected
  <2>3. (Drawn \cup Left = Image(ANGLE_ADDRESS))'
    BY <2>1, <2>2 DEF Image
  <2> QED BY <2>1, <2>3, Stages DEF PixelsInv
<1>5. CASE renderState \in Checking /\ renderState' \in Reading
  <2>1. /\ rasterState = "S5" /\ ~Render!readCoord /\ Drawn' = Drawn
        /\ Drawn \cup Left = Image(ANGLE_ADDRESS)
    BY <1>0, <1>5, Stages DEF InStep, LoopMoves, Stay, PixelsInv
  <2>2. Left' = Left /\ ANGLE_ADDRESS' = ANGLE_ADDRESS
    BY <1>0, <2>1, LeftStep, AngleStep DEF RasterInv, Projected
  <2>3. (Drawn \cup Left = Image(ANGLE_ADDRESS))'
    BY <2>1, <2>2 DEF Image
  <2> QED BY <1>5, <2>3, Stages DEF PixelsInv
<1>6. CASE renderState \in Checking /\ renderState' \notin Reading
  <2>1. /\ renderState' \in Finished /\ rasterState = "INITIAL" /\ Drawn' = Drawn
        /\ Drawn \cup Left = Image(ANGLE_ADDRESS)
    BY <1>0, <1>6 DEF InStep, FlagsInv, LoopMoves, Stay, PixelsInv
  <2>2. Left = {}
    <3>1. \A l \in Lines : fifo[l] = <<>>
      BY <1>0, <2>1 DEF RasterInv, LinesInv
    <3> QED BY <3>1, PixelsFacts DEF Left
  <2>3. ANGLE_ADDRESS' = ANGLE_ADDRESS
    BY <1>6, <2>1, AngleTick, Stages
  <2>4. (Drawn = Image(ANGLE_ADDRESS))'
    BY <2>1, <2>2, <2>3 DEF Image
  <2> QED BY <2>1, <2>4, Stages DEF PixelsInv
<1>7. CASE renderState \in Finished
  <2>1. rasterState = "INITIAL" /\ rasterState' = "INITIAL"
    BY <1>0, <1>7, Stages, FlagMoves DEF InStep
  <2>2. CASE renderState' \in Launching
    BY <2>1, <2>2, Stages DEF PixelsInv
  <2>3. CASE renderState' \notin Launching
    <3>1. renderState' = renderState /\ Drawn' = Drawn /\ Drawn = Image(ANGLE_ADDRESS)
      BY <1>0, <1>7, <2>3 DEF LoopMoves, Stay, PixelsInv
    <3>2. ANGLE_ADDRESS' = ANGLE_ADDRESS
      BY <1>7, <2>1, AngleTick, Stages
    <3>3. (Drawn = Image(ANGLE_ADDRESS))'
      BY <3>1, <3>2 DEF Image
    <3> QED BY <1>7, <3>1, <3>3, Stages DEF PixelsInv
  <2> QED BY <2>2, <2>3
<1> QED BY <1>0, <1>1, <1>2, <1>3, <1>4, <1>5, <1>6, <1>7, Stages DEF GpuTypeOK

(* The other buffer is left alone until the two change places.             *)
LEMMA OtherTick ==
    ASSUME NEW finished, NEW complete, Tock(finished, complete), GpuInv
    PROVE  OtherInv'
<1>0. /\ GpuTypeOK /\ InStep /\ PixelsInv /\ OtherInv /\ select' = select
      /\ LoopMoves(rasterDone, coord, bufferEmpty, frame_switched)
  BY Loop DEF Tock, GpuInv, screenVars
<1>1. CASE renderState \in Idling
  <2>1. ~select
    BY <1>0, <1>1, Stages DEF OtherInv, FirstFrame, Idling
  <2>2. renderState' \in Idling \cup First
    BY <1>0, <1>1 DEF LoopMoves, First
  <2> QED BY <1>0, <2>1, <2>2 DEF OtherInv, FirstFrame
<1>2. CASE renderState \in Launching
  <2>1. /\ renderState' \in Clearing /\ Other' = Other
        /\ renderState \in First => renderState' \in First
    BY <1>0, <1>2 DEF LoopMoves, Stay
  <2>2. renderState' \in (First \cup Second) \ Launching
    BY <2>1, Stages DEF Preparation
  <2>3. \/ ~select /\ renderState' \in First
        \/ Other' = Image(PreviousAngle)'
    <3>1. PreviousAngle' = ANGLE_ADDRESS
      BY <1>2, AngleTick
    <3>2. renderState # "S1"
      BY <1>2 DEF Launching
    <3>3. \/ ~select /\ renderState \in First
          \/ Other = Image(ANGLE_ADDRESS)
      BY <1>0, <1>2, <3>2, Stages DEF OtherInv, FirstFrame
    <3> QED BY <2>1, <3>1, <3>3 DEF Image
  <2> QED BY <1>0, <2>2, <2>3 DEF OtherInv, FirstFrame
<1>3. CASE \/ renderState \in Preparation \cup Reading \cup Writing \cup Checking
           \/ renderState \in Finished /\ ~frame_switched
  <2>1. /\ Other' = Other /\ (renderState' \in First <=> renderState \in First)
        /\ renderState' \in Preparation \cup Reading \cup Writing \cup Checking \cup Finished
    BY <1>0, <1>3, Stages DEF LoopMoves, Stay, Preparation
  <2>2. /\ renderState \in (First \cup Second) \ Launching
        /\ renderState' \in (First \cup Second) \ Launching
    BY <1>3, <2>1, Stages
  <2>3. PreviousAngle' = PreviousAngle
    BY <2>2, AngleTick
  <2>4. \/ ~select /\ renderState \in First
        \/ Other = Image(PreviousAngle)
    <3>1. renderState = "S1" => ~frame_switched
      BY <1>3, Stages DEF Finished
    <3> QED BY <1>0, <2>2, <3>1, Stages DEF OtherInv, FirstFrame
  <2>5. Image(PreviousAngle') = Image(PreviousAngle)'
    BY DEF Image
  <2> QED BY <1>0, <2>1, <2>2, <2>3, <2>4, <2>5 DEF OtherInv, FirstFrame
<1>4. CASE renderState \in Finished /\ frame_switched
  <2>1. renderState' \in Launching /\ Other' = Drawn /\ Drawn = Image(ANGLE_ADDRESS)
    BY <1>0, <1>4 DEF LoopMoves, PixelsInv
  <2>2. ANGLE_ADDRESS' = ANGLE_ADDRESS
    BY <1>0, <1>4, AngleTick, Stages DEF InStep
  <2>3. (Other = Image(ANGLE_ADDRESS))'
    BY <2>1, <2>2 DEF Image
  <2> QED BY <2>1, <2>3 DEF OtherInv
<1> QED BY <1>0, <1>1, <1>2, <1>3, <1>4, Stages DEF GpuTypeOK

LEMMA TypeTick ==
    ASSUME NEW finished, NEW complete, Tock(finished, complete), GpuInv
    PROVE  GpuTypeOK'
<1>0. /\ Cycle(Render!startRaster, Render!readCoord, finished, complete)
      /\ GpuTypeOK /\ InStep /\ PixelsInv /\ select' = select /\ frame_switched' = frame_switched
      /\ LoopMoves(rasterDone, coord, bufferEmpty, frame_switched)
  BY Loop DEF Tock, GpuInv, screenVars
<1>1. renderState' \in Idling \cup First \cup Second
  <2>1. renderState' \in Idling \cup {"INITIAL"} \cup Launching \cup Preparation \cup Reading
                          \cup Writing \cup Checking \cup Finished
    BY <1>0, Stages DEF LoopMoves, GpuTypeOK, Preparation
  <2> QED BY <2>1, Stages DEF First
<1>2. memCounter' \in Nat
  <2>1. memCounter' \in {memCounter, memCounter + 1, 0}
    BY <1>0, Stages DEF LoopMoves, GpuTypeOK, Preparation
  <2> QED BY <1>0, <2>1 DEF GpuTypeOK
<1>3. buffer1' \subseteq Render!Addresses /\ buffer2' \subseteq Render!Addresses
  <2>1. Drawn \subseteq Render!Addresses /\ Other \subseteq Render!Addresses
    BY <1>0 DEF GpuTypeOK, Drawn, Other
  <2>2. renderState \in Writing => coord \in Render!Addresses
    <3> SUFFICES ASSUME renderState \in Writing PROVE coord \in Render!Addresses
      OBVIOUS
    <3>1. coord \in Image(ANGLE_ADDRESS) /\ rasterState = "S6"
      BY <1>0 DEF PixelsInv, InStep
    <3>2. ANGLE_ADDRESS \in Angles
      BY <3>1, Numbers DEF GpuInv, DeliveryInv, RasterInv, AngleInv, Angles
    <3> QED BY <3>1, <3>2, ImageFacts, GpuAssumption DEF Render!Addresses
  <2>3. CASE renderState \in Idling
    BY <1>0, <2>3 DEF LoopMoves, GpuTypeOK
  <2>4. CASE renderState \notin Idling
    <3>1. Drawn' \subseteq Render!Addresses /\ Other' \subseteq Render!Addresses
      BY <1>0, <2>1, <2>2, <2>4, Stages DEF LoopMoves, Stay, GpuTypeOK, Preparation
    <3> QED BY <3>1 DEF Drawn, Other
  <2> QED BY <2>3, <2>4
<1>4. select' \in BOOLEAN /\ frame_switched' \in BOOLEAN /\ syncWait' \in Nat
  BY <1>0 DEF GpuTypeOK, Tock
<1>5. Render!Addresses' = Render!Addresses
  BY DEF Render!Addresses
<1> QED BY <1>1, <1>2, <1>3, <1>4, <1>5 DEF GpuTypeOK

-----------------------------------------------------------------------------
LEMMA InitGpu == Init => GpuInv
<1> SUFFICES ASSUME Init PROVE GpuInv
  OBVIOUS
<1>1. /\ RasterInit /\ renderState = "WAIT2" /\ memCounter = 0
      /\ buffer1 = Render!Addresses /\ buffer2 = {}
      /\ ~select /\ ~frame_switched /\ select \in BOOLEAN /\ frame_switched \in BOOLEAN
      /\ syncWait = 0
  BY DEF Init, Render!RenderInit, Output!ScreenInit
<1>2. rasterState = "INITIAL" /\ ~rasterDone /\ ~bufferEmpty
  BY <1>1 DEF RasterInit
<1>3. renderState \in Idling
  BY <1>1 DEF Idling
<1>4. GpuTypeOK
  BY <1>1, <1>2, <1>3 DEF GpuTypeOK
<1>5. InStep
  BY <1>2, <1>3, Stages DEF InStep, Idling, Preparation, Clearing, Cleared, Awaiting, Reading,
                           Writing, Checking
<1>6. renderState \notin Preparation \cup Reading \cup Writing \cup Checking \cup Finished
  BY <1>1 DEF Preparation, Clearing, Cleared, Awaiting, Reading, Writing, Checking, Finished
<1>7. ClearInv /\ PixelsInv
  BY <1>1, <1>2, <1>6 DEF ClearInv, PixelsInv, Preparation
<1>8. OtherInv
  BY <1>1, <1>3 DEF OtherInv, FirstFrame
<1> QED BY <1>1, <1>4, <1>5, <1>7, <1>8, InitDelivery DEF GpuInv

LEMMA TickInv == GpuInv /\ Tick => GpuInv' /\ RasterNext
<1> SUFFICES ASSUME GpuInv, Tick PROVE GpuInv' /\ RasterNext
  OBVIOUS
<1>1. PICK finished, complete : Tock(finished, complete)
  BY TickTock
<1>2. Cycle(Render!startRaster, Render!readCoord, finished, complete) /\ DeliveryInv
  BY <1>1 DEF Tock, GpuInv
<1>3. RasterNext
  BY <1>2 DEF Cycle, RasterNext, RasterTick
<1>4. DeliveryInv'
  BY <1>2, DeliveryStep
<1> QED BY <1>1, <1>3, <1>4, TypeTick, InStepTick, ClearTick, PixelsTick, OtherTick
        DEF GpuInv

(* The vertical sync moves nothing but the display.                        *)
LEMMA VSyncInv == GpuInv /\ VSync => GpuInv'
<1> SUFFICES ASSUME GpuInv, VSync PROVE GpuInv'
  OBVIOUS
<1>1. /\ rasterVars' = rasterVars /\ renderVars' = renderVars
      /\ select' = IF Render!DRAW_DONE THEN ~select ELSE select
      /\ frame_switched' = Render!DRAW_DONE
      /\ syncWait = 0 /\ syncWait' = SYNC_GAP /\ SYNC_GAP \in Nat \ {0}
      /\ Render!DRAW_DONE <=> renderState \in Finished
  BY GpuAssumption DEF VSync, Output!VSync, Render!DRAW_DONE, Finished
<1>2. DeliveryInv'
  BY <1>1, NextDelivery DEF GpuInv
<1>3. /\ UNCHANGED <<rasterState, muxselect, rasterDone, bufferEmpty, ANGLE_ADDRESS>>
      /\ UNCHANGED <<lineState, fifo, q>>
      /\ UNCHANGED <<renderState, memCounter, buffer1, buffer2>>
  BY <1>1 DEF rasterVars, fsm, angle, lines, renderVars
<1>4. Drawn' = Drawn /\ Other' = Other /\ Left' = Left /\ coord' = coord
      /\ PreviousAngle' = PreviousAngle /\ Render!Addresses' = Render!Addresses
  BY <1>3 DEF Drawn, Other, Left, Pixels, coord, PreviousAngle, Render!Addresses
<1>5. Image(ANGLE_ADDRESS)' = Image(ANGLE_ADDRESS)
      /\ Image(PreviousAngle)' = Image(PreviousAngle)
  BY <1>3, <1>4 DEF Image
<1>6. GpuTypeOK'
  <2>1. Render!DRAW_DONE \in BOOLEAN
    BY DEF Render!DRAW_DONE
  <2>2. frame_switched' \in BOOLEAN
    BY <1>1, <2>1, Zenon
  <2>3. select' \in BOOLEAN
    BY <1>1, Zenon DEF GpuInv, GpuTypeOK
  <2>4. syncWait' \in Nat
    BY <1>1
  <2> QED BY <1>3, <1>4, <2>2, <2>3, <2>4 DEF GpuInv, GpuTypeOK
<1>7. InStep' /\ ClearInv'
  BY <1>3, <1>4 DEF GpuInv, InStep, ClearInv
<1>8. PixelsInv'
  BY <1>3, <1>4, <1>5 DEF GpuInv, PixelsInv
<1>9. OtherInv'
  <2>1. CASE FirstFrame /\ renderState \notin Finished
    BY <1>1, <1>3, <2>1 DEF OtherInv, FirstFrame
  <2>2. CASE FirstFrame /\ renderState \in Finished
    <3>1. renderState = "S1" /\ frame_switched' /\ syncWait' > 0
      BY <1>1, <2>2 DEF FirstFrame, Finished, First, Idling
    <3> QED BY <1>3, <3>1 DEF OtherInv, FirstFrame, First
  <2>3. CASE ~FirstFrame
    BY <1>3, <1>4, <1>5, <2>3 DEF GpuInv, OtherInv
  <2> QED BY <2>1, <2>2, <2>3
<1> QED BY <1>2, <1>6, <1>7, <1>8, <1>9 DEF GpuInv

LEMMA StillInv == GpuInv /\ (Host \/ UNCHANGED gpuVars) => GpuInv'
<1> SUFFICES ASSUME GpuInv, Host \/ UNCHANGED gpuVars PROVE GpuInv'
  OBVIOUS
<1>1. rasterVars' = rasterVars /\ renderVars' = renderVars /\ screenVars' = screenVars
      /\ syncWait' = syncWait
  BY DEF Host, gpuVars
<1>2. DeliveryInv'
  BY <1>1, NextDelivery DEF GpuInv
<1>3. /\ UNCHANGED <<rasterState, muxselect, rasterDone, bufferEmpty, ANGLE_ADDRESS>>
      /\ UNCHANGED <<lineState, fifo, q, select, frame_switched>>
      /\ UNCHANGED <<renderState, memCounter, buffer1, buffer2>>
  BY <1>1 DEF rasterVars, fsm, angle, lines, renderVars, screenVars
<1>4. Drawn' = Drawn /\ Other' = Other /\ Left' = Left /\ coord' = coord
      /\ PreviousAngle' = PreviousAngle /\ Render!Addresses' = Render!Addresses
  BY <1>3 DEF Drawn, Other, Left, Pixels, coord, PreviousAngle, Render!Addresses
<1>5. Image(ANGLE_ADDRESS)' = Image(ANGLE_ADDRESS)
      /\ Image(PreviousAngle)' = Image(PreviousAngle)
  BY <1>3, <1>4 DEF Image
<1>6. GpuTypeOK' /\ InStep' /\ ClearInv'
  BY <1>1, <1>3, <1>4 DEF GpuInv, GpuTypeOK, InStep, ClearInv
<1>7. PixelsInv' /\ OtherInv'
  BY <1>1, <1>3, <1>4, <1>5 DEF GpuInv, PixelsInv, OtherInv, FirstFrame
<1> QED BY <1>2, <1>6, <1>7 DEF GpuInv

LEMMA NextGpu == GpuInv /\ [Next]_gpuVars => GpuInv'
  BY TickInv, VSyncInv, StillInv DEF Next
-----------------------------------------------------------------------------
(* The invariant of the whole renderer, for any number of triangles and    *)
(* angles, any screen and lines, and any time between vertical syncs.      *)
THEOREM GpuInvariant == Spec => []GpuInv
  BY InitGpu, NextGpu, PTL DEF Spec

(* A buffer for which DRAW_DONE is raised holds each pixel of the current  *)
(* angle and no other, however long clearing, projections and lines take.  *)
THEOREM GpuFrameComplete == Spec => []FrameComplete
<1>1. GpuInv => FrameComplete
  BY DEF GpuInv, PixelsInv, Finished, Drawn, Second, FrameComplete
<1> QED BY <1>1, GpuInvariant, PTL

(* top.sv reads a pixel only when polygonRaster waits in S5, and writes it *)
(* in the cycle in which muxselect still points at its FIFO.               *)
THEOREM GpuPixelTakenInTime == Spec => []PixelTakenInTime
<1>1. GpuInv => PixelTakenInTime
  <2> SUFFICES ASSUME GpuInv PROVE PixelTakenInTime
    OBVIOUS
  <2>1. Render!readCoord => rasterState = "S5"
    BY Stages DEF GpuInv, InStep
  <2>2. renderState \in Writing => rasterState = "S6"
    BY DEF GpuInv, InStep
  <2>3. renderState \notin Writing => rasterState # "S6"
    BY Stages DEF GpuInv, InStep, GpuTypeOK
  <2> QED BY <2>1, <2>2, <2>3 DEF PixelTakenInTime, Writing
<1> QED BY <1>1, GpuInvariant, PTL

(* Every step of top.sv is one PolygonRaster allows its environment: no    *)
(* frame is started while another is being rasterized or read.             *)
THEOREM GpuDrivesRaster == Spec => DrivesRaster
<1>1. GpuInv /\ [Next]_gpuVars => [RasterNext]_rasterVars
  <2> SUFFICES ASSUME GpuInv, [Next]_gpuVars PROVE [RasterNext]_rasterVars
    OBVIOUS
  <2>1. CASE Tick
    BY <2>1, TickInv
  <2>2. CASE VSync \/ Host \/ UNCHANGED gpuVars
    BY <2>2 DEF VSync, Host, gpuVars
  <2> QED BY <2>1, <2>2 DEF Next
<1> QED BY <1>1, GpuInvariant, PTL DEF Spec, DrivesRaster

(* The buffer the display switches to holds one whole picture, of the      *)
(* current or the previous angle.                                          *)
THEOREM GpuSwitchShowsWholeFrame == Spec => SwitchShowsWholeFrame
<1>1. GpuInv /\ [Next]_gpuVars =>
          [select' # select => Shown' \in {Image(ANGLE_ADDRESS), Image(PreviousAngle)}]_gpuVars
  <2> SUFFICES ASSUME GpuInv, [Next]_gpuVars, select' # select
               PROVE  Shown' \in {Image(ANGLE_ADDRESS), Image(PreviousAngle)}
    OBVIOUS
  <2>1. VSync
    BY DEF Next, Tick, Host, gpuVars, screenVars
  <2>2. /\ renderState \in Finished /\ select' = ~select /\ syncWait = 0
        /\ buffer1' = buffer1 /\ buffer2' = buffer2
    BY <2>1 DEF VSync, Output!VSync, Render!DRAW_DONE, Finished, renderVars
  <2>3. Drawn = Image(ANGLE_ADDRESS)
    BY <2>2 DEF GpuInv, PixelsInv
  <2>4. (renderState = "S1" /\ ~select) \/ Other = Image(PreviousAngle)
    BY <2>2, Stages DEF GpuInv, OtherInv, FirstFrame, Idling, First, Finished
  <2>5. CASE renderState = "S1"
    <3>1. buffer2 = Image(ANGLE_ADDRESS) /\ (~select \/ buffer1 = Image(PreviousAngle))
      BY <2>3, <2>4, <2>5 DEF Drawn, Other, Second
    <3> QED BY <2>2, <3>1 DEF Shown
  <2>6. CASE renderState = "S3"
    <3>1. buffer1 = Image(ANGLE_ADDRESS) /\ buffer2 = Image(PreviousAngle)
      BY <2>3, <2>4, <2>6 DEF Drawn, Other, Second
    <3> QED BY <2>2, <3>1 DEF Shown
  <2> QED BY <2>2, <2>5, <2>6 DEF Finished
<1> QED BY <1>1, GpuInvariant, PTL DEF Spec, SwitchShowsWholeFrame
=============================================================================
