------------------------------- MODULE FileIO -------------------------------
(***************************************************************************)
(* The calls on the descriptors of FileTable: read, write, lseek, fstat    *)
(* and isatty (alt_read.c, alt_write.c, ...), and what altera_hostfs.c     *)
(* asks of the host, which keeps the file and a place in it for each       *)
(* handle.  Its answer is two words, a result and an error number, and the *)
(* driver hands on one of them.  Bytes are told apart by their place in    *)
(* the file only.  Calls that reach no driver set errno and change nothing *)
(* else; the console's read and write are those of JtagUart.               *)
(***************************************************************************)
EXTENDS FileTable

CONSTANTS MaxSize,        (* bound: length of the file                      *)
          Errors          (* error numbers of the host                      *)

ASSUME IOAssumption == MaxSize \in Nat /\ Errors \subseteq Nat \ {0}

VARIABLES size,           (* host: length of the file                       *)
          pos,            (* host: the place of each open handle            *)
          counted,        (* of each descriptor, the place in the file that *)
                          (* the program works out from what calls return   *)
          doubt           (* and how far past it the place may be, because  *)
                          (* calls failed                                   *)

fileVars == <<size, pos, counted, doubt>>
callVars == <<vars, fileVars>>

CallsInit == /\ Init
             /\ size \in 0..MaxSize /\ pos = [h \in open_files |-> 0]
             /\ counted = [f \in Fds |-> 0] /\ doubt = [f \in Fds |-> 0]

Least(a, b) == IF a < b THEN a ELSE b
OnFile(f) == f \in Used /\ Refers(f) \in FileSystems
handle(f) == alt_fd_list[f].priv
-----------------------------------------------------------------------------
(* Mutated forms of definitions below.                                     *)

(* The length asked for is returned. *)
AnswerInFull(n, moved) == n

-----------------------------------------------------------------------------
(* The driver drops the result when there is an error number beside it.    *)
HostReply(error, rc) == IF error = 0 THEN rc ELSE -error

(* The tail of alt_read, alt_write and alt_lseek: a negative answer goes   *)
(* to errno, and -1 to the caller.                                         *)
Result(rval) == IF rval < 0 THEN -1 ELSE rval

(* The result for a request of n bytes is the number that was moved.       *)
Answer(n, moved) == moved

(* The program adds what a call returned to its count; one that failed may *)
(* have moved up to what was asked for.                                    *)
Count(f, n, ret) ==
    IF ret < 0
    THEN /\ doubt' = [doubt EXCEPT ![f] = Least(@ + n, MaxSize)]
         /\ UNCHANGED counted
    ELSE /\ counted' = [counted EXCEPT ![f] = @ + ret]
         /\ UNCHANGED doubt

(* A request for n bytes.  The host serves as many as it likes of those    *)
(* there is room for, and whatever it has served may report an error.      *)
Transfer(f, room) ==
    \E n \in 0..MaxSize : \E moved \in 0..Least(n, room), error \in {0} \cup Errors :
        /\ pos' = [pos EXCEPT ![handle(f)] = @ + moved]
        /\ Count(f, n, Result(HostReply(error, Answer(n, moved))))

read(f) ==
    /\ OnFile(f) /\ alt_fd_list[f].flags.acc # "O_WRONLY"
    /\ Transfer(f, IF pos[handle(f)] < size THEN size - pos[handle(f)] ELSE 0)
    /\ UNCHANGED <<vars, size>>

write(f) ==
    /\ OnFile(f) /\ alt_fd_list[f].flags.acc # "O_RDONLY"
    /\ Transfer(f, MaxSize - pos[handle(f)])
    /\ size' = Greatest(size, pos'[handle(f)])
    /\ UNCHANGED vars

(* After a seek that failed the place may be anywhere.                     *)
lseek(f) ==
    /\ OnFile(f)
    /\ \E p \in 0..MaxSize, error \in {0} \cup Errors :
          LET ret == Result(HostReply(error, p)) IN
          /\ pos' = [pos EXCEPT ![handle(f)] = p]
          /\ counted' = [counted EXCEPT ![f] = IF ret < 0 THEN 0 ELSE ret]
          /\ doubt' = [doubt EXCEPT ![f] = IF ret < 0 THEN MaxSize ELSE 0]
    /\ UNCHANGED <<vars, size>>

(* What the calls of FileTable do to the files: a handle begins at the     *)
(* start of the file, which opening may cut, and so does the count of its  *)
(* descriptor.                                                             *)
Kept(f) == f \in Used /\ f \in Used'
FilesFollow ==
    /\ pos' = [h \in open_files' |-> IF h \in open_files THEN pos[h] ELSE 0]
    /\ counted' = [f \in Fds |-> IF Kept(f) THEN counted[f] ELSE 0]
    /\ doubt' = [f \in Fds |-> IF Kept(f) THEN doubt[f] ELSE 0]
    /\ size' = size \/ (size' = 0 /\ open_files' \ open_files # {})

CallsNext == \/ Next /\ FilesFollow
             \/ \E f \in Fds : read(f) \/ write(f) \/ lseek(f)

CallsSpec == CallsInit /\ [][CallsNext]_callVars
-----------------------------------------------------------------------------
(* fstat and isatty change nothing; st is what their struct held before.   *)
Modes == {"_IFCHR", "_IFREG"}
Stats == [st_mode : Modes, st_size : 0..MaxSize]

(* A driver without fstat stands for a character device; alt_hostfs_fstat  *)
(* fills the struct unless the host reports an error.                      *)
fstat(f, error, st) ==
    IF ~OnFile(f) THEN [st EXCEPT !.st_mode = "_IFCHR"]
    ELSE IF error = 0 THEN [st_mode |-> "_IFREG", st_size |-> size]
    ELSE st

(* alt_isatty takes what is in its struct for the answer.                  *)
isatty(f, error, st) == fstat(f, error, st).st_mode = "_IFCHR"

-----------------------------------------------------------------------------
(* The program knows its place in each file from what its calls returned:  *)
(* a call that succeeds moves it by what it says, one that fails by no     *)
(* more than was asked, a seek ends the doubt, and no call, open or close  *)
(* on another descriptor moves it.                                         *)
PlaceKnown ==
    \A f \in Fds : OnFile(f) =>
        /\ counted[f] <= pos[handle(f)]
        /\ pos[handle(f)] <= counted[f] + doubt[f]

(* alt_isatty.c: "If it is a terminal device then the return value is one, *)
(* otherwise it is zero".                                                  *)
TerminalsOnly ==
    \A f \in Used, error \in {0} \cup Errors, st \in Stats :
        isatty(f, error, st) => ~OnFile(f)
=============================================================================
