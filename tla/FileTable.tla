----------------------------- MODULE FileTable -----------------------------
(***************************************************************************)
(* The file descriptors of the HAL (alt_open.c, alt_close.c, alt_get_fd.c, *)
(* alt_release_fd.c, alt_fd_lock.c, alt_ioctl.c, alt_fcntl.c, ...) over    *)
(* the devices /dev/null and the JTAG UART and the host file system        *)
(* (altera_hostfs.c), whose files the host keeps.  The HAL runs a single   *)
(* thread, so a call is one step; what the host answers is a choice.       *)
(***************************************************************************)
EXTENDS Integers, FiniteSets, Sequences

CONSTANTS MaxFd,          (* ALT_MAX_FD                                      *)
          Devices,        (* registered devices                              *)
          FileSystems,    (* registered file systems                         *)
          Null, Console,  (* /dev/null and the device of the std. streams    *)
          Names,          (* names given to open, as sequences of parts      *)
          NameOf,         (* the name of each device, the mount point of     *)
                          (* each file system                                *)
          Handles,        (* file handles of the host                        *)
          Access,         (* access modes a descriptor may be opened with    *)
          NoDev, NoHandle

ASSUME FdsAssumption == MaxFd \in Nat \ 0..3
ASSUME DevicesAssumption ==
    /\ Null \in Devices /\ Console \in Devices
    /\ Devices \cap FileSystems = {}
    /\ NoDev \notin Devices \cup FileSystems
    /\ NoHandle \notin Handles
    /\ {"O_RDONLY", "O_WRONLY"} \subseteq Access
    /\ Access \subseteq {"O_RDONLY", "O_WRONLY", "O_RDWR"}
    /\ \A name \in Names : name \in Seq(STRING)
    /\ NameOf \in [Devices \cup FileSystems -> Seq(STRING)]

VARIABLES alt_fd_list,    (* dev, priv and fd_flags of every descriptor      *)
          alt_max_fd,     (* high water mark                                 *)
          open_files,     (* host: the handles of its open files             *)
          boot            (* standard streams redirected so far              *)

vars == <<alt_fd_list, alt_max_fd, open_files, boot>>

Fds == 0..(MaxFd - 1)
(* fd_flags: the access mode, O_NONBLOCK, ALT_FD_EXCL and ALT_FD_DEV.      *)
Flags == [acc : Access, nonblock : BOOLEAN, excl : BOOLEAN, dev : BOOLEAN]
NoFlags == [acc |-> "O_RDONLY", nonblock |-> FALSE, excl |-> FALSE, dev |-> FALSE]

Refers(f) == alt_fd_list[f].dev
Excl(f)   == alt_fd_list[f].flags.excl
Used      == {f \in Fds : Refers(f) # NoDev}

(* A device answers to its own name only, a file system to every name at   *)
(* or below its mount point; devices are looked for first.                 *)
alt_find_dev(name)  == {d \in Devices : NameOf[d] = name}
alt_find_file(name) ==
    {fs \in FileSystems : /\ Len(NameOf[fs]) <= Len(name)
                          /\ SubSeq(name, 1, Len(NameOf[fs])) = NameOf[fs]}
Found(name) == IF alt_find_dev(name) # {} THEN alt_find_dev(name)
                                          ELSE alt_find_file(name)
Owner == [name \in Names |-> IF Found(name) = {} THEN NoDev
                             ELSE CHOOSE d \in Found(name) : TRUE]

(* The first free descriptor of the pool.                                  *)
Free == Fds \ Used
FirstFree == CHOOSE f \in Free : \A g \in Free : f <= g

Greatest(a, b) == IF a > b THEN a ELSE b

(* The static initialisation: the standard streams go to /dev/null.        *)
Init ==
    /\ alt_fd_list = [f \in Fds |->
          [dev |-> IF f <= 2 THEN Null ELSE NoDev, priv |-> NoHandle,
           flags |-> NoFlags]]
    /\ alt_max_fd = -1
    /\ open_files = {}
    /\ boot = 0

-----------------------------------------------------------------------------
(* Mutated: the descriptor that holds the device is looked for below the   *)
(* high water mark only.                                                   *)
alt_file_unlocked_top(d) ==
    \E i \in 0..(alt_max_fd - 1) : Refers(i) = d /\ Excl(i)

(* alt_file_locked: a descriptor holds the device for itself.  The new     *)
(* descriptor has no ALT_FD_EXCL yet.                                      *)
alt_file_locked(d) ==
    \E i \in 0..alt_max_fd : i \in Fds /\ Refers(i) = d /\ Excl(i)

(* alt_release_fd: the standard streams stay.  The handle is left behind.  *)
alt_release_fd(list, f) ==
    IF f > 2 THEN [list EXCEPT ![f] = [@ EXCEPT !.dev = NoDev, !.flags = NoFlags]]
             ELSE list

(* Mutated: the file system's handle is not stored. *)
OpenedWithoutHandle(f, d, acc, nonblock, h) ==
    [alt_fd_list EXCEPT ![f] =
        [dev |-> d, priv |-> @.priv,
         flags |-> [acc |-> acc, nonblock |-> nonblock, excl |-> FALSE,
                    dev |-> d \in Devices]]]

(* The list with descriptor f opened for d; the file system stores the     *)
(* host's handle, a device leaves the one of an earlier file.              *)
Opened(f, d, acc, nonblock, h) ==
    [alt_fd_list EXCEPT ![f] =
        [dev |-> d, priv |-> IF h = NoHandle THEN @.priv ELSE h,
         flags |-> [acc |-> acc, nonblock |-> nonblock, excl |-> FALSE,
                    dev |-> d \in Devices]]]

(* The high water mark, raised by alt_get_fd.                              *)
Mark(f) == alt_max_fd' = Greatest(f, alt_max_fd)

(* ALT_OPEN.  The descriptor is taken before the lock is looked at and     *)
(* before the file system is asked, and given back if either refuses.      *)
OpenWorks ==
    /\ boot = 3 /\ Free # {}
    /\ \E name \in Names, acc \in Access, nonblock \in BOOLEAN :
          \/ /\ Owner[name] \in Devices
             /\ ~alt_file_locked(Owner[name])
             /\ alt_fd_list' = Opened(FirstFree, Owner[name], acc, nonblock, NoHandle)
             /\ UNCHANGED open_files
          \/ /\ Owner[name] \in FileSystems
             /\ \E h \in Handles \ open_files :
                   /\ open_files' = open_files \cup {h}
                   /\ alt_fd_list' = Opened(FirstFree, Owner[name], acc, nonblock, h)
    /\ Mark(FirstFree)
    /\ UNCHANGED boot

(* The calls that fail before they have a descriptor (ENODEV, EMFILE)      *)
(* change nothing.                                                         *)
OpenFails ==
    /\ boot = 3 /\ Free # {}
    /\ \E name \in Names :
          /\ \/ Owner[name] \in Devices /\ alt_file_locked(Owner[name])
             \/ Owner[name] \in FileSystems
          /\ alt_fd_list' = alt_release_fd(Opened(FirstFree, Owner[name],
                               "O_RDONLY", FALSE, NoHandle), FirstFree)
    /\ Mark(FirstFree)
    /\ UNCHANGED <<open_files, boot>>

(* alt_io_redirect: standard output, input and error in turn are opened    *)
(* on a spare descriptor, copied, and the spare one is released.           *)
Stream(n) == CASE n = 0 -> 1 [] n = 1 -> 0 [] n = 2 -> 2

Redirect ==
    /\ boot < 3
    /\ LET acc == IF Stream(boot) = 0 THEN "O_RDONLY" ELSE "O_WRONLY"
           opened == Opened(FirstFree, Console, acc, FALSE, NoHandle)
       IN  alt_fd_list' = alt_release_fd([opened EXCEPT ![Stream(boot)] =
                                             opened[FirstFree]], FirstFree)
    /\ Mark(FirstFree)
    /\ boot' = boot + 1
    /\ UNCHANGED open_files

-----------------------------------------------------------------------------
(* The calls on an open descriptor; any other would be followed through a  *)
(* null pointer.                                                           *)

(* ALT_CLOSE: the driver's close, then the release, whatever the driver    *)
(* said.  A host that fails may have kept the file open.                   *)
Close(f) ==
    /\ boot = 3 /\ f \in Used
    /\ alt_fd_list' = alt_release_fd(alt_fd_list, f)
    /\ \/ /\ Refers(f) \in FileSystems
          /\ open_files' = open_files \ {alt_fd_list[f].priv}
       \/ UNCHANGED open_files
    /\ UNCHANGED <<alt_max_fd, boot>>

(* alt_fd_lock refuses if another descriptor refers to the same device.    *)
(* The loop ends below the high water mark.                                *)
alt_fd_lock(f) == ~\E i \in 0..(alt_max_fd - 1) :
                      i # f /\ i \in Fds /\ Refers(i) = Refers(f)

(* ALT_IOCTL with TIOCEXCL and TIOCNXCL, which only devices know.          *)
Exclude(f) ==
    /\ boot = 3 /\ f \in Used /\ alt_fd_list[f].flags.dev
    /\ alt_fd_lock(f)
    /\ alt_fd_list' = [alt_fd_list EXCEPT ![f].flags.excl = TRUE]
    /\ UNCHANGED <<alt_max_fd, open_files, boot>>

Include(f) ==
    /\ boot = 3 /\ f \in Used /\ alt_fd_list[f].flags.dev
    /\ alt_fd_list' = [alt_fd_list EXCEPT ![f].flags.excl = FALSE]
    /\ UNCHANGED <<alt_max_fd, open_files, boot>>

(* ALT_FCNTL with F_SETFL: only O_NONBLOCK (and O_APPEND) may change.      *)
SetFlags(f) ==
    /\ boot = 3 /\ f \in Used
    /\ \E nb \in BOOLEAN :
          alt_fd_list' = [alt_fd_list EXCEPT ![f].flags.nonblock = nb]
    /\ UNCHANGED <<alt_max_fd, open_files, boot>>

Next ==
    \/ Redirect \/ OpenWorks \/ OpenFails
    \/ \E f \in Fds : Close(f) \/ Exclude(f) \/ Include(f) \/ SetFlags(f)

Spec == Init /\ [][Next]_vars
-----------------------------------------------------------------------------
(* Every variable keeps its type.                                          *)
FileTypeOK ==
    /\ alt_fd_list \in [Fds -> [dev : Devices \cup FileSystems \cup {NoDev},
                                priv : Handles \cup {NoHandle}, flags : Flags]]
    /\ alt_max_fd \in -1..(MaxFd - 1)
    /\ open_files \subseteq Handles
    /\ boot \in 0..3

(* The searches of alt_open and alt_fd_lock stop at alt_max_fd: from the   *)
(* first open on no descriptor in use lies above it, whatever was opened   *)
(* and closed since.                                                       *)
HighWater == boot > 0 => \A f \in Used : f <= alt_max_fd

(* Whatever is closed, the standard streams still reach the console, input *)
(* for reading and the two others for writing.                             *)
StandardStreams ==
    boot = 3 => \A f \in 0..2 :
        /\ Refers(f) = Console
        /\ alt_fd_list[f].flags.acc = IF f = 0 THEN "O_RDONLY" ELSE "O_WRONLY"

(* The host is only asked about files it has open, and no two descriptors  *)
(* share one: a handle left behind in priv by an earlier file is not used. *)
HandlesLive ==
    \A f \in Used : Refers(f) \in FileSystems =>
        /\ alt_fd_list[f].priv \in open_files
        /\ \A g \in Used \ {f} : Refers(g) \in FileSystems =>
               alt_fd_list[g].priv # alt_fd_list[f].priv

(* The table keeps the promises of Descriptors: no descriptor in use is    *)
(* handed out, the standard streams are kept, and while a device is held   *)
(* no open succeeds on it.                                                 *)
Promise == INSTANCE Descriptors
             WITH Standard <- 0..2, Things <- Devices \cup FileSystems,
                  refers <- [f \in Fds |-> Refers(f)],
                  holders <- {f \in Fds : Excl(f)}
ImplementsDescriptors == Promise!Spec

(* "If there are no other open file descriptors which reference the same   *)
(* device, then alt_fd_lock() will grant the lock": whoever has it is the  *)
(* only one.                                                               *)
LockedAlone ==
    \A f \in Fds : Excl(f) => \A g \in Fds \ {f} : Refers(g) # Refers(f)
=============================================================================
