------------------------------ MODULE MCFiles ------------------------------
(* Two devices, the host's files, and room for two descriptors beside the  *)
(* standard streams.  A behaviour is of one of two parts: in the first the *)
(* table is used in every way but nothing is read or written, in the       *)
(* second the two descriptors are for files only, of which each call may   *)
(* be made; what is done with a device changes nothing in a file.          *)
EXTENDS FileIO, TLC

CONSTANTS null, jtag_uart, hostfs, h1, h2, h3

MCDevices == {null, jtag_uart}
MCFileSystems == {hostfs}
MCHandles == {h1, h2, h3}
MCNameOf == null :> <<"dev", "null">> @@ jtag_uart :> <<"dev", "jtag_uart_0">>
            @@ hostfs :> <<"mnt", "host">>

(* Names of devices and of a file, the mount point itself, and names that   *)
(* nothing answers to.                                                      *)
MCNames == {<<"dev", "null">>, <<"dev", "jtag_uart_0">>,
            <<"mnt", "host", "cube.obj">>, <<"mnt", "host">>,
            <<"mnt">>, <<"dev", "null", "x">>}
HandleSymmetry == Permutations(MCHandles)

VARIABLE part
allVars == <<part, callVars>>

ForFiles ==
    \A f \in Used : /\ f > 2 => Refers(f) \in FileSystems
                    /\ ~Excl(f) /\ ~alt_fd_list[f].flags.nonblock

(* The table does not look at the access mode: two of the three will do.    *)
ForTable == \A f \in Used : alt_fd_list[f].flags.acc # "O_RDWR"

MCInit == /\ CallsInit
          /\ \/ part = "table" /\ size = 0
             \/ part = "calls"
Table == part = "table" /\ Next /\ FilesFollow /\ ForTable' /\ UNCHANGED part
Calls == part = "calls" /\ CallsNext /\ ForFiles' /\ UNCHANGED part
MCSpec == MCInit /\ [][Table \/ Calls]_allVars
=============================================================================
