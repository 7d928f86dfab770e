---------------------------- MODULE NiosProgram ----------------------------
(***************************************************************************)
(* The program (main.cpp) that reads a model from a file of the host and   *)
(* writes its triangles into the vertex registers (registerfile.sv), next  *)
(* to the hardware (top.sv), which waits for the start bit once and then   *)
(* takes the vertices from the registers, frame after frame.  The program  *)
(* may be loaded and run again while the hardware goes on.                 *)
(*                                                                         *)
(* A register holds 0, one of the two 16.16 numbers the program writes, or *)
(* a small number; what counts of a number is whether its bit 0 is set.    *)
(***************************************************************************)
EXTENDS Integers, Sequences, FiniteSets

CONSTANTS NUM_TRIANGLES,   (* triangles the hardware draws                 *)
          Spare,           (* registers between the vertices and START     *)
          Files,           (* the files: sequences of lines                *)
          MaxRuns          (* bound: how often the program is run          *)

Slots == 3 * NUM_TRIANGLES                  (* 36 *)
START == 3 * Slots + Spare                  (* register 126 *)
SIZE  == START + 1                          (* register 127 *)

fixedOne    == 2
fixedNegOne == -2

(* A line is a vertex with three coordinates, of which only being 1 counts,*)
(* a face with three vertex numbers, something else, or something else     *)
(* that is too long for the buffer of getline.                             *)
Lines == [kind : {"v", "f", "other", "long"}, v : Seq(Int)]
TooLong(f) == \E k \in DOMAIN f : f[k].kind = "long"

(* How many of the first n lines are of a kind, and the n-th of them.      *)
Count(f, kind, n) == Cardinality({k \in 1..n : f[k].kind = kind})
Nth(f, kind, n) ==
    f[CHOOSE k \in DOMAIN f : f[k].kind = kind /\ Count(f, kind, k) = n]
Faces(f) == Count(f, "f", Len(f))

ASSUME SizesAssumption == NUM_TRIANGLES \in Nat \ {0} /\ Spare \in Nat
(* Faces name vertices that come before them in the file, and the registers *)
(* do not end before the vertices do.                                      *)
ASSUME FilesAssumption ==
    \A f \in Files :
        /\ f \in Seq(Lines)
        /\ \A k \in DOMAIN f : f[k].kind = "f" =>
              \A c \in 1..3 : f[k].v[c] \in 1..Count(f, "v", k)
        /\ 3 * Faces(f) + 2 * Slots <= SIZE

VARIABLES
    file, opens,             (* the file; whether it can be opened         *)
    pc, line, corner, axis,  (* where the program is                       *)
    vals,                    (* xvals, yvals, zvals                        *)
    size, tracker,
    regs,                    (* the register file                          *)
    hw,                      (* the hardware: whether it has started, the  *)
                             (* triangle it takes next                     *)
    shown,                   (* the vertices of the frame                  *)
    whole,                   (* the program was done all along the frame   *)
    runs

program  == <<file, opens, pc, line, corner, axis, vals, size, tracker, runs>>
niosVars == <<program, regs, hw, shown, whole>>

Run(n) ==
    /\ file' \in Files /\ opens' \in BOOLEAN
    /\ pc' = "clear" /\ line' = 1 /\ corner' = 1 /\ axis' = 1
    /\ vals' = <<>> /\ size' = 0 /\ tracker' = 0
    /\ runs' = n

NiosInit ==
    /\ file \in Files /\ opens \in BOOLEAN
    /\ pc = "clear" /\ line = 1 /\ corner = 1 /\ axis = 1
    /\ vals = <<>> /\ size = 0 /\ tracker = 0 /\ runs = 1
    /\ regs = [r \in 0..SIZE |-> 0]
    /\ hw = [on |-> FALSE, next |-> 0]
    /\ shown = [k \in 0..(NUM_TRIANGLES - 1) |-> <<>>]
    /\ whole = FALSE
-----------------------------------------------------------------------------
(* Mutated forms of definitions below.                                     *)

(* The start bit is set before the file is read. *)
FirstRegister == [reg |-> START, value |-> 1]

(* The start register gets the same 1 as the vertices. *)
StartValueFixed == fixedOne

(* The third array begins where the second does. *)
RegisterOfTwoArrays == tracker + (IF axis = 1 THEN 0 ELSE Slots)
-----------------------------------------------------------------------------
Write(reg, value) == regs' = [regs EXCEPT ![reg] = value]

HardwareStays == UNCHANGED <<hw, shown, whole>>

(* AES_PTR[126] = 0, before anything else. *)
Before == [reg |-> START, value |-> 0]

Clear ==
    /\ pc = "clear"
    /\ Write(Before.reg, Before.value)
    /\ pc' = IF opens THEN "read" ELSE "stuck"
    /\ UNCHANGED <<file, opens, line, corner, axis, vals, size, tracker, runs>>
    /\ HardwareStays

LinesRead == Len(file)

(* One turn of the loop.  A stream that failed, because the file could not *)
(* be opened or a line did not fit, is never at its end.                   *)
ReadLine ==
    /\ pc = "read" /\ line <= LinesRead
    /\ LET l == file[line] IN
       /\ pc' = CASE l.kind = "long" -> "stuck"
                  [] l.kind = "f"    -> "face"
                  [] OTHER           -> "read"
       /\ vals' = IF l.kind = "v" THEN Append(vals, l.v) ELSE vals
       /\ size' = IF l.kind = "f" THEN size + 1 ELSE size
       /\ line' = line + 1
    /\ UNCHANGED <<file, opens, corner, axis, tracker, regs, runs>>
    /\ HardwareStays

(* The loop without an end, and the one of _exit() that main returns to.   *)
Stuck == /\ pc \in {"stuck", "done"}
         /\ UNCHANGED <<program, regs>>
         /\ HardwareStays

(* The registers of x, y and z of the vertex that tracker counts. *)
Register == tracker + (axis - 1) * Slots

Fixed(v) == IF v = 1 THEN fixedOne ELSE fixedNegOne

(* One write of the loop over a face's vertices. *)
WriteFace ==
    /\ pc = "face"
    /\ LET faces == file[line - 1].v
       IN  Write(Register, Fixed(vals[faces[corner]][axis]))
    /\ axis' = (axis % 3) + 1
    /\ tracker' = IF axis = 3 THEN tracker + 1 ELSE tracker
    /\ corner' = IF axis = 3 THEN (corner % 3) + 1 ELSE corner
    /\ pc' = IF axis = 3 /\ corner = 3 THEN "read" ELSE "face"
    /\ UNCHANGED <<file, opens, line, vals, size, runs>>
    /\ HardwareStays

WriteSize ==
    /\ pc = "read" /\ line > LinesRead
    /\ Write(SIZE, size)
    /\ pc' = "start"
    /\ UNCHANGED <<file, opens, line, corner, axis, vals, size, tracker, runs>>
    /\ HardwareStays

StartValue == 1

WriteStart ==
    /\ pc = "start"
    /\ Write(START, StartValue)
    /\ pc' = "done"
    /\ UNCHANGED <<file, opens, line, corner, axis, vals, size, tracker, runs>>
    /\ HardwareStays

(* The program is loaded again; registers and hardware are not reset.      *)
RunAgain ==
    /\ runs < MaxRuns
    /\ Run(runs + 1)
    /\ whole' = FALSE
    /\ UNCHANGED <<regs, hw, shown>>
-----------------------------------------------------------------------------
(* WAIT2: the start bit is looked at here and never again. *)
HwStart ==
    /\ ~hw.on /\ regs[START] % 2 = 1
    /\ hw' = [on |-> TRUE, next |-> 0]
    /\ whole' = (pc = "done")
    /\ UNCHANGED <<program, regs, shown>>

(* The exported registers of a triangle, by corner (arrayPacker). *)
Exported(k) == [c \in 1..3 |-> [a \in 1..3 |->
                   regs[3 * k + c - 1 + (a - 1) * Slots]]]

(* The triangles of a frame are taken one by one. *)
HwTake ==
    /\ hw.on /\ hw.next < NUM_TRIANGLES
    /\ shown' = [shown EXCEPT ![hw.next] = Exported(hw.next)]
    /\ hw' = [hw EXCEPT !.next = hw.next + 1]
    /\ UNCHANGED <<program, regs, whole>>

HwNextFrame ==
    /\ hw.on /\ hw.next = NUM_TRIANGLES
    /\ hw' = [hw EXCEPT !.next = 0]
    /\ whole' = (pc = "done")
    /\ UNCHANGED <<program, regs, shown>>

Program == \/ Clear \/ ReadLine \/ Stuck \/ WriteFace \/ WriteSize \/ WriteStart
Hardware == HwStart \/ HwTake \/ HwNextFrame

NiosNext == Program \/ RunAgain \/ Hardware

NiosSpec == NiosInit /\ [][NiosNext]_niosVars

(* The processor and the clocked hardware go on.                           *)
LiveSpec == NiosSpec /\ WF_niosVars(Program) /\ WF_niosVars(Hardware)
-----------------------------------------------------------------------------
(* The vertices of triangle k of the file.                                 *)
Wanted(k) == LET face == Nth(file, "f", k + 1).v
             IN  [c \in 1..3 |-> [a \in 1..3 |->
                     Fixed(Nth(file, "v", face[c]).v[a])]]
Drawn == {k \in 0..(NUM_TRIANGLES - 1) : k < Faces(file)}
Fits  == Faces(file) <= NUM_TRIANGLES

(* In the first run the hardware does not start before every vertex of the *)
(* file is in its register, and it never starts on a file that does not    *)
(* fit the program's buffer, nor because vertices run over START.          *)
StartsComplete ==
    (runs = 1 /\ hw.on) =>
        /\ pc = "done"
        /\ Fits => \A k \in Drawn : Exported(k) = Wanted(k)

(* A frame taken while the program was done shows the file's triangles,    *)
(* also when the program has run before on another file.                   *)
FrameShowsFile ==
    (whole /\ hw.next = NUM_TRIANGLES /\ Fits) =>
        \A k \in Drawn : shown[k] = Wanted(k)

(* A file that opens and has no line that is too long is read to its end,  *)
(* and the hardware then draws frames of it.                               *)
FileIsShown ==
    (pc = "clear" /\ opens /\ ~TooLong(file))
        ~> (runs < MaxRuns \/ (whole /\ hw.next = NUM_TRIANGLES))
=============================================================================
