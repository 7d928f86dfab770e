-------------------------- MODULE FileTable_proofs --------------------------
(***************************************************************************)
(* Proofs about FileTable, for a pool of any size, any devices and file    *)
(* systems, any names and any handles of the host.  TableInv is what makes *)
(* HandlesLive inductive and every step a step of Descriptors: the standard *)
(* streams stay with devices, what is in use lies below the high water     *)
(* mark, and only a device in use is held exclusively.                     *)
(***************************************************************************)
EXTENDS FileIO, TLAPS, WellFoundedInduction

(* Before the redirection is over nothing but it has happened.             *)
Booting == boot < 3 => \A f \in Fds : /\ (f > 2 <=> Refers(f) = NoDev)
                                      /\ ~Excl(f)

StreamsOnDevices == \A f \in 0..2 : Refers(f) \in Devices

HeldInUse == \A f \in Fds : Excl(f) => Refers(f) \in Devices
DeviceFlag == \A f \in Fds : alt_fd_list[f].flags.dev => Refers(f) \in Devices

TableInv == /\ FileTypeOK /\ Booting /\ StreamsOnDevices /\ HeldInUse /\ DeviceFlag
            /\ HighWater /\ HandlesLive

LEMMA Types ==
    /\ MaxFd \in Nat /\ MaxFd > 3 /\ 0..2 \subseteq Fds
    /\ Null \in Devices /\ Console \in Devices /\ NoDev \notin Devices \cup FileSystems
    /\ Devices \cap FileSystems = {} /\ NoHandle \notin Handles
    /\ "O_RDONLY" \in Access /\ "O_WRONLY" \in Access
    /\ NoFlags \in Flags
  BY FdsAssumption, DevicesAssumption DEF Fds, NoFlags, Flags

(* alt_get_fd finds a free descriptor if there is one.                     *)
LEMMA FirstFreeIsFree == Free # {} => FirstFree \in Free
<1> SUFFICES ASSUME Free # {} PROVE FirstFree \in Free
  OBVIOUS
<1>1. Free \subseteq Nat
  BY Types DEF Free, Fds
<1> DEFINE R == {ss \in Nat \X Nat : ss[1] < ss[2]}
<1>2. IsWellFoundedOn(R, Nat)
  BY NatLessThanWellFounded DEF OpToRel
<1>3. PICK x \in Free : \A y \in Free : ~(<<y, x>> \in R)
  <2> HIDE DEF R
  <2> QED BY <1>1, <1>2, WFMin
<1>4. \A y \in Free : x <= y
  <2> SUFFICES ASSUME NEW y \in Free PROVE x <= y
    OBVIOUS
  <2>1. ~(y < x)
    BY <1>1, <1>3
  <2> QED BY <2>1, <1>1
<1> QED BY <1>4 DEF FirstFree

LEMMA InitInv == Init => TableInv
<1> SUFFICES ASSUME Init PROVE TableInv
  OBVIOUS
<1>1. \A f \in Fds : /\ alt_fd_list[f].dev = (IF f <= 2 THEN Null ELSE NoDev)
                     /\ alt_fd_list[f].flags = NoFlags
  BY DEF Init
<1>2. FileTypeOK
  BY Types DEF Init, FileTypeOK
<1>3. Booting /\ HeldInUse /\ DeviceFlag
  BY <1>1, Types DEF Booting, HeldInUse, DeviceFlag, Refers, Excl, NoFlags, Fds
<1>4. StreamsOnDevices
  BY <1>1, Types DEF StreamsOnDevices, Refers
<1>5. HighWater
  BY DEF Init, HighWater
<1>6. HandlesLive
  BY <1>1, Types DEF HandlesLive, Used, Refers
<1> QED BY <1>2, <1>3, <1>4, <1>5, <1>6 DEF TableInv

(* What Opened and alt_release_fd do to every descriptor.                  *)
LEMMA OpenedEntry ==
    ASSUME TableInv, NEW f \in Fds, NEW d \in Devices \cup FileSystems,
           NEW acc \in Access, NEW nb \in BOOLEAN, NEW h \in Handles \cup {NoHandle},
           NEW list, list = Opened(f, d, acc, nb, h)
    PROVE      /\ list \in [Fds -> [dev : Devices \cup FileSystems \cup {NoDev},
                                    priv : Handles \cup {NoHandle}, flags : Flags]]
               /\ list[f].dev = d /\ ~list[f].flags.excl
               /\ list[f].flags.acc = acc
               /\ list[f].flags.dev => d \in Devices
               /\ h # NoHandle => list[f].priv = h
               /\ \A g \in Fds \ {f} : list[g] = alt_fd_list[g]
<1>1. alt_fd_list \in [Fds -> [dev : Devices \cup FileSystems \cup {NoDev},
                               priv : Handles \cup {NoHandle}, flags : Flags]]
  BY DEF TableInv, FileTypeOK
<1>2. [acc |-> acc, nonblock |-> nb, excl |-> FALSE, dev |-> d \in Devices] \in Flags
  BY DEF Flags
<1> QED BY <1>1, <1>2 DEF Opened

LEMMA ReleasedEntry ==
    ASSUME NEW list \in [Fds -> [dev : Devices \cup FileSystems \cup {NoDev},
                                 priv : Handles \cup {NoHandle}, flags : Flags]],
           NEW f \in Fds, NEW after, after = alt_release_fd(list, f)
    PROVE      /\ after \in [Fds -> [dev : Devices \cup FileSystems \cup {NoDev},
                                     priv : Handles \cup {NoHandle}, flags : Flags]]
               /\ f > 2 => after[f].dev = NoDev /\ after[f].flags = NoFlags
               /\ f <= 2 => after = list
               /\ \A g \in Fds \ {f} : after[g] = list[g]
<1>1. f \in Int /\ NoFlags \in Flags
  BY Types DEF Fds
<1>2. CASE f <= 2
  BY <1>1, <1>2 DEF alt_release_fd
<1>3. CASE f > 2
  <2> DEFINE entry == [list[f] EXCEPT !.dev = NoDev, !.flags = NoFlags]
  <2>1. /\ entry \in [dev : Devices \cup FileSystems \cup {NoDev},
                      priv : Handles \cup {NoHandle}, flags : Flags]
        /\ entry.dev = NoDev /\ entry.flags = NoFlags
    BY <1>1
  <2>2. alt_release_fd(list, f) = [list EXCEPT ![f] = entry]
    BY <1>1, <1>3 DEF alt_release_fd
  <2> HIDE DEF entry
  <2> QED BY <1>1, <1>3, <2>1, <2>2
<1> QED BY <1>1, <1>2, <1>3
-----------------------------------------------------------------------------
LEMMA FreeFacts ==
    ASSUME TableInv, NEW f \in Free
    PROVE  /\ f \in Fds /\ f \in Nat /\ f > 2 /\ alt_fd_list[f].dev = NoDev
           /\ ~alt_fd_list[f].flags.excl
<1>1. f \in Fds /\ f \in Nat /\ Refers(f) = NoDev
  BY Types DEF Free, Used, Fds
<1>2. f \notin 0..2
  BY <1>1, Types DEF TableInv, StreamsOnDevices
<1>3. ~Excl(f)
  BY <1>1, Types DEF TableInv, HeldInUse
<1> QED BY <1>1, <1>2, <1>3 DEF Refers, Excl

LEMMA MarkFacts ==
    ASSUME TableInv, NEW f \in Fds, Mark(f)
    PROVE  /\ alt_max_fd' \in -1..(MaxFd - 1)
           /\ f <= alt_max_fd' /\ alt_max_fd <= alt_max_fd'
  BY Types DEF TableInv, FileTypeOK, Mark, Greatest, Fds

(* A table that differs in one descriptor: what each part of TableInv asks *)
(* of it.                                                                  *)
LEMMA OneEntry ==
    ASSUME TableInv, FileTypeOK', NEW f \in Fds,
           \A g \in Fds \ {f} : alt_fd_list'[g] = alt_fd_list[g],
           boot = 3, boot' = 3, alt_max_fd <= alt_max_fd',
           f <= 2 => alt_fd_list'[f].dev \in Devices,
           alt_fd_list'[f].flags.excl => alt_fd_list'[f].dev \in Devices,
           alt_fd_list'[f].flags.dev => alt_fd_list'[f].dev \in Devices,
           alt_fd_list'[f].dev # NoDev => f <= alt_max_fd',
           HandlesLive'
    PROVE  TableInv'
<1>1. Booting'
  BY DEF Booting
<1>2. StreamsOnDevices'
  BY Types DEF TableInv, StreamsOnDevices, Refers
<1>3. HeldInUse' /\ DeviceFlag'
  BY DEF TableInv, HeldInUse, DeviceFlag, Refers, Excl
<1>4. HighWater'
  <2> SUFFICES ASSUME NEW g \in Fds, alt_fd_list'[g].dev # NoDev PROVE g <= alt_max_fd'
    BY DEF HighWater, Used, Refers
  <2>1. CASE g = f
    BY <2>1
  <2>2. CASE g # f
    <3>1. g <= alt_max_fd
      BY <2>2 DEF TableInv, HighWater, Used, Refers
    <3>2. g \in Int /\ alt_max_fd \in Int /\ alt_max_fd' \in Int
      BY Types DEF TableInv, FileTypeOK, Fds
    <3> QED BY <3>1, <3>2
  <2> QED BY <2>1, <2>2
<1> QED BY <1>1, <1>2, <1>3, <1>4 DEF TableInv

(* A successful open, of a device or of a file for which the host has      *)
(* given a handle it had not given to anybody.                             *)
LEMMA OpenedInv ==
    ASSUME TableInv, NEW f \in Free, NEW d \in Devices \cup FileSystems,
           NEW acc \in Access, NEW nb \in BOOLEAN, NEW h \in Handles \cup {NoHandle},
           alt_fd_list' = Opened(f, d, acc, nb, h),
           \/ d \in Devices /\ open_files' = open_files
           \/ d \in FileSystems /\ h \in Handles \ open_files
              /\ open_files' = open_files \cup {h},
           Mark(f), boot = 3, boot' = 3
    PROVE  TableInv'
<1>1. f \in Fds /\ f \in Nat /\ f > 2
  BY FreeFacts
<1>2. /\ alt_fd_list' \in [Fds -> [dev : Devices \cup FileSystems \cup {NoDev},
                                 priv : Handles \cup {NoHandle}, flags : Flags]]
      /\ alt_fd_list'[f].dev = d /\ ~alt_fd_list'[f].flags.excl
      /\ alt_fd_list'[f].flags.dev => d \in Devices
      /\ h # NoHandle => alt_fd_list'[f].priv = h
      /\ \A g \in Fds \ {f} : alt_fd_list'[g] = alt_fd_list[g]
  <2> DEFINE list == Opened(f, d, acc, nb, h)
  <2>1. /\ list \in [Fds -> [dev : Devices \cup FileSystems \cup {NoDev},
                             priv : Handles \cup {NoHandle}, flags : Flags]]
        /\ list[f].dev = d /\ ~list[f].flags.excl
        /\ list[f].flags.dev => d \in Devices
        /\ h # NoHandle => list[f].priv = h
        /\ \A g \in Fds \ {f} : list[g] = alt_fd_list[g]
    BY <1>1, OpenedEntry
  <2>2. alt_fd_list' = list
    OBVIOUS
  <2> HIDE DEF list
  <2> QED BY <2>1, <2>2
<1>3. /\ alt_max_fd' \in -1..(MaxFd - 1)
      /\ f <= alt_max_fd' /\ alt_max_fd <= alt_max_fd'
  BY <1>1, MarkFacts
<1>4. FileTypeOK'
  BY <1>2, <1>3 DEF TableInv, FileTypeOK
<1>5. HandlesLive'
  <2> SUFFICES ASSUME NEW g \in Fds, alt_fd_list'[g].dev \in FileSystems
               PROVE  /\ alt_fd_list'[g].priv \in open_files'
                      /\ \A k \in Fds \ {g} : alt_fd_list'[k].dev \in FileSystems =>
                             alt_fd_list'[k].priv # alt_fd_list'[g].priv
    BY Types DEF HandlesLive, Used, Refers
  <2>0. \A k \in Fds \ {f} : alt_fd_list'[k].dev \in FileSystems =>
            /\ alt_fd_list'[k].priv \in open_files
            /\ \A m \in Fds \ {k, f} : alt_fd_list'[m].dev \in FileSystems =>
                   alt_fd_list'[m].priv # alt_fd_list'[k].priv
    BY <1>2, Types DEF TableInv, HandlesLive, Used, Refers
  <2>1. CASE d \in Devices /\ open_files' = open_files
    BY <2>0, <2>1, <1>2, Types
  <2>2. CASE d \in FileSystems /\ h \in Handles \ open_files /\ open_files' = open_files \cup {h}
    <3>1. alt_fd_list'[f].priv = h /\ h \notin open_files
      BY <2>2, <1>2, Types
    <3> QED BY <2>0, <2>2, <3>1
  <2> QED BY <2>1, <2>2
<1>6. /\ ~(f <= 2) /\ ~alt_fd_list'[f].flags.excl
      /\ alt_fd_list'[f].flags.dev => alt_fd_list'[f].dev \in Devices
  BY <1>1, <1>2
<1> QED BY <1>1, <1>2, <1>3, <1>4, <1>5, <1>6, OneEntry

LEMMA OpenWorksInv == TableInv /\ OpenWorks => TableInv'
<1> SUFFICES ASSUME TableInv, OpenWorks PROVE TableInv'
  OBVIOUS
<1>1. FirstFree \in Free /\ boot = 3 /\ boot' = 3 /\ Mark(FirstFree)
  BY FirstFreeIsFree DEF OpenWorks
<1>2. PICK name \in Names, acc \in Access, nb \in BOOLEAN :
          \/ /\ Owner[name] \in Devices
             /\ alt_fd_list' = Opened(FirstFree, Owner[name], acc, nb, NoHandle)
             /\ open_files' = open_files
          \/ /\ Owner[name] \in FileSystems
             /\ \E h \in Handles \ open_files :
                   /\ open_files' = open_files \cup {h}
                   /\ alt_fd_list' = Opened(FirstFree, Owner[name], acc, nb, h)
  BY DEF OpenWorks
<1>3. CASE Owner[name] \in Devices /\ alt_fd_list' = Opened(FirstFree, Owner[name], acc, nb, NoHandle)
           /\ open_files' = open_files
  BY <1>1, <1>3, OpenedInv
<1>4. CASE Owner[name] \in FileSystems
           /\ \E h \in Handles \ open_files :
                   /\ open_files' = open_files \cup {h}
                   /\ alt_fd_list' = Opened(FirstFree, Owner[name], acc, nb, h)
  <2>1. PICK h \in Handles \ open_files :
                   /\ open_files' = open_files \cup {h}
                   /\ alt_fd_list' = Opened(FirstFree, Owner[name], acc, nb, h)
    BY <1>4
  <2> QED BY <1>1, <1>4, <2>1, OpenedInv
<1> QED BY <1>2, <1>3, <1>4

(* What is left of a descriptor that is given back at once.                *)
LEMMA GivenBack ==
    ASSUME TableInv, NEW f \in Free, NEW d \in Devices \cup FileSystems,
           NEW acc \in Access, NEW nb \in BOOLEAN, NEW after,
           after = alt_release_fd(Opened(f, d, acc, nb, NoHandle), f)
    PROVE  /\ after \in [Fds -> [dev : Devices \cup FileSystems \cup {NoDev},
                                 priv : Handles \cup {NoHandle}, flags : Flags]]
           /\ after[f].dev = NoDev /\ ~after[f].flags.excl /\ ~after[f].flags.dev
           /\ \A g \in Fds \ {f} : after[g] = alt_fd_list[g]
<1> DEFINE list == Opened(f, d, acc, nb, NoHandle)
<1>1. f \in Fds /\ f > 2
  BY FreeFacts
<1>2. /\ list \in [Fds -> [dev : Devices \cup FileSystems \cup {NoDev},
                           priv : Handles \cup {NoHandle}, flags : Flags]]
      /\ \A g \in Fds \ {f} : list[g] = alt_fd_list[g]
  BY <1>1, OpenedEntry
<1> HIDE DEF list
<1>3. /\ after \in [Fds -> [dev : Devices \cup FileSystems \cup {NoDev},
                            priv : Handles \cup {NoHandle}, flags : Flags]]
      /\ after[f].dev = NoDev /\ after[f].flags = NoFlags
      /\ \A g \in Fds \ {f} : after[g] = list[g]
  BY <1>1, <1>2, ReleasedEntry DEF list
<1> QED BY <1>2, <1>3 DEF NoFlags

LEMMA OpenFailsTable ==
    ASSUME TableInv, OpenFails
    PROVE  /\ boot = 3 /\ boot' = 3 /\ open_files' = open_files
           /\ FirstFree \in Free /\ Mark(FirstFree)
           /\ alt_fd_list' \in [Fds -> [dev : Devices \cup FileSystems \cup {NoDev},
                                        priv : Handles \cup {NoHandle}, flags : Flags]]
           /\ alt_fd_list'[FirstFree].dev = NoDev
           /\ ~alt_fd_list'[FirstFree].flags.excl /\ ~alt_fd_list'[FirstFree].flags.dev
           /\ \A g \in Fds \ {FirstFree} : alt_fd_list'[g] = alt_fd_list[g]
<1>1. FirstFree \in Free /\ boot = 3 /\ boot' = 3 /\ Mark(FirstFree) /\ open_files' = open_files
  BY FirstFreeIsFree DEF OpenFails
<1>2. PICK d \in Devices \cup FileSystems, acc \in Access, nb \in BOOLEAN :
        alt_fd_list' = alt_release_fd(Opened(FirstFree, d, acc, nb, NoHandle), FirstFree)
  <2>1. PICK d \in Devices \cup FileSystems :
          alt_fd_list' = alt_release_fd(Opened(FirstFree, d, "O_RDONLY", FALSE, NoHandle),
                                        FirstFree)
    BY DEF OpenFails
  <2>2. "O_RDONLY" \in Access /\ FALSE \in BOOLEAN
    BY Types
  <2> QED BY <2>1, <2>2, Zenon
<1> DEFINE after == alt_release_fd(Opened(FirstFree, d, acc, nb, NoHandle), FirstFree)
<1>3. /\ after \in [Fds -> [dev : Devices \cup FileSystems \cup {NoDev},
                            priv : Handles \cup {NoHandle}, flags : Flags]]
      /\ after[FirstFree].dev = NoDev
      /\ ~after[FirstFree].flags.excl /\ ~after[FirstFree].flags.dev
      /\ \A g \in Fds \ {FirstFree} : after[g] = alt_fd_list[g]
  BY <1>1, GivenBack
<1>4. alt_fd_list' = after
  BY <1>2
<1> HIDE DEF after
<1> QED BY <1>1, <1>3, <1>4

LEMMA OpenFailsInv == TableInv /\ OpenFails => TableInv'
<1> SUFFICES ASSUME TableInv, OpenFails PROVE TableInv'
  OBVIOUS
<1> DEFINE f == FirstFree
<1>1. /\ boot = 3 /\ boot' = 3 /\ open_files' = open_files
      /\ f \in Free /\ Mark(f)
      /\ alt_fd_list' \in [Fds -> [dev : Devices \cup FileSystems \cup {NoDev},
                                   priv : Handles \cup {NoHandle}, flags : Flags]]
      /\ alt_fd_list'[f].dev = NoDev
      /\ ~alt_fd_list'[f].flags.excl /\ ~alt_fd_list'[f].flags.dev
      /\ \A g \in Fds \ {f} : alt_fd_list'[g] = alt_fd_list[g]
  BY OpenFailsTable
<1> HIDE DEF f
<1>2. f \in Fds /\ f \in Nat /\ f > 2 /\ alt_fd_list[f].dev = NoDev
  BY <1>1, FreeFacts
<1>3. /\ alt_max_fd' \in -1..(MaxFd - 1)
      /\ f <= alt_max_fd' /\ alt_max_fd <= alt_max_fd'
  BY <1>1, <1>2, MarkFacts
<1>4. FileTypeOK'
  BY <1>1, <1>3 DEF TableInv, FileTypeOK
<1>5. HandlesLive'
  BY <1>1, <1>2, Types DEF TableInv, HandlesLive, Used, Refers
<1>6. ~(f <= 2)
  BY <1>2
<1> QED BY <1>1, <1>2, <1>3, <1>4, <1>5, <1>6, OneEntry

(* A redirected stream, and the spare descriptor that is free again.       *)
LEMMA RedirectTable ==
    ASSUME TableInv, Redirect
    PROVE  /\ boot < 3 /\ boot' = boot + 1 /\ open_files' = open_files
           /\ FirstFree \in Free /\ Mark(FirstFree) /\ Stream(boot) \in 0..2
           /\ alt_fd_list' \in [Fds -> [dev : Devices \cup FileSystems \cup {NoDev},
                                        priv : Handles \cup {NoHandle}, flags : Flags]]
           /\ alt_fd_list'[FirstFree].dev = NoDev
           /\ ~alt_fd_list'[FirstFree].flags.excl /\ ~alt_fd_list'[FirstFree].flags.dev
           /\ alt_fd_list'[Stream(boot)].dev = Console
           /\ alt_fd_list'[Stream(boot)].flags.acc =
                 (IF Stream(boot) = 0 THEN "O_RDONLY" ELSE "O_WRONLY")
           /\ ~alt_fd_list'[Stream(boot)].flags.excl
           /\ \A g \in Fds \ {FirstFree, Stream(boot)} : alt_fd_list'[g] = alt_fd_list[g]
<1> DEFINE f == FirstFree
           t == Stream(boot)
           mode == IF t = 0 THEN "O_RDONLY" ELSE "O_WRONLY"
<1>1. boot \in 0..2 /\ boot' = boot + 1 /\ Mark(f) /\ open_files' = open_files
  BY DEF Redirect, TableInv, FileTypeOK
<1>2. t \in 0..2 /\ t \in Fds
  BY <1>1, Types DEF Stream
<1>3. f \in Free
  <2>1. 3 \in Fds /\ Refers(3) = NoDev
    BY <1>1, Types DEF Fds, TableInv, Booting
  <2> QED BY <2>1, FirstFreeIsFree DEF Free, Used
<1>4. PICK acc \in Access, nb \in BOOLEAN :
        /\ acc = mode
        /\ alt_fd_list' = alt_release_fd([Opened(f, Console, acc, nb, NoHandle) EXCEPT
                             ![t] = Opened(f, Console, acc, nb, NoHandle)[f]], f)
  <2>1. alt_fd_list' = alt_release_fd([Opened(f, Console, mode, FALSE, NoHandle) EXCEPT
                             ![t] = Opened(f, Console, mode, FALSE, NoHandle)[f]], f)
    BY DEF Redirect
  <2>2. mode \in Access /\ FALSE \in BOOLEAN
    BY Types
  <2> HIDE DEF mode, f, t
  <2> QED BY <2>1, <2>2, Zenon
<1> DEFINE list == Opened(f, Console, acc, nb, NoHandle)
           mid == [list EXCEPT ![t] = list[f]]
           after == alt_release_fd(mid, f)
<1>5. f \in Fds /\ f > 2 /\ f # t
  BY <1>2, <1>3, FreeFacts
<1> HIDE DEF f, t, mode
<1>6. /\ list \in [Fds -> [dev : Devices \cup FileSystems \cup {NoDev},
                           priv : Handles \cup {NoHandle}, flags : Flags]]
      /\ list[f].dev = Console /\ ~list[f].flags.excl /\ list[f].flags.acc = acc
      /\ \A g \in Fds \ {f} : list[g] = alt_fd_list[g]
  BY <1>5, OpenedEntry, Types
<1> HIDE DEF list
<1>7. /\ mid \in [Fds -> [dev : Devices \cup FileSystems \cup {NoDev},
                          priv : Handles \cup {NoHandle}, flags : Flags]]
      /\ mid[t] = list[f] /\ mid[f] = list[f]
      /\ \A g \in Fds \ {f, t} : mid[g] = alt_fd_list[g]
  BY <1>2, <1>5, <1>6
<1> HIDE DEF mid
<1>8. /\ after \in [Fds -> [dev : Devices \cup FileSystems \cup {NoDev},
                            priv : Handles \cup {NoHandle}, flags : Flags]]
      /\ after[f].dev = NoDev /\ after[f].flags = NoFlags
      /\ \A g \in Fds \ {f} : after[g] = mid[g]
  BY <1>5, <1>7, ReleasedEntry
<1>9. alt_fd_list' = after
  BY <1>4 DEF mid, list
<1> HIDE DEF after
<1>10. /\ alt_fd_list'[f].dev = NoDev
       /\ ~alt_fd_list'[f].flags.excl /\ ~alt_fd_list'[f].flags.dev
  BY <1>8, <1>9 DEF NoFlags
<1>11. /\ alt_fd_list'[t].dev = Console /\ ~alt_fd_list'[t].flags.excl
       /\ alt_fd_list'[t].flags.acc = mode
  BY <1>2, <1>4, <1>5, <1>6, <1>7, <1>8, <1>9
<1>12. \A g \in Fds \ {f, t} : alt_fd_list'[g] = alt_fd_list[g]
  BY <1>7, <1>8, <1>9
<1>13. boot < 3
  BY <1>1
<1> QED BY <1>1, <1>2, <1>3, <1>8, <1>9, <1>10, <1>11, <1>12, <1>13 DEF f, t, mode

LEMMA RedirectInv == TableInv /\ Redirect => TableInv'
<1> SUFFICES ASSUME TableInv, Redirect PROVE TableInv'
  OBVIOUS
<1> DEFINE f == FirstFree
           t == Stream(boot)
<1>1. /\ boot < 3 /\ boot' = boot + 1 /\ open_files' = open_files
      /\ f \in Free /\ Mark(f) /\ t \in 0..2
      /\ alt_fd_list' \in [Fds -> [dev : Devices \cup FileSystems \cup {NoDev},
                                   priv : Handles \cup {NoHandle}, flags : Flags]]
      /\ alt_fd_list'[f].dev = NoDev
      /\ ~alt_fd_list'[f].flags.excl /\ ~alt_fd_list'[f].flags.dev
      /\ alt_fd_list'[t].dev = Console /\ ~alt_fd_list'[t].flags.excl
      /\ \A g \in Fds \ {f, t} : alt_fd_list'[g] = alt_fd_list[g]
  BY RedirectTable
<1> HIDE DEF f, t
<1>2. f \in Fds /\ f \in Nat /\ f > 2 /\ alt_fd_list[f].dev = NoDev /\ t \in Fds /\ f # t
  BY <1>1, FreeFacts, Types
<1>3. /\ alt_max_fd' \in -1..(MaxFd - 1)
      /\ f <= alt_max_fd' /\ alt_max_fd <= alt_max_fd'
  BY <1>1, <1>2, MarkFacts
<1>4. FileTypeOK'
  BY <1>1, <1>3 DEF TableInv, FileTypeOK
<1>5. \A g \in Fds : /\ g > 2 <=> alt_fd_list'[g].dev = NoDev
                     /\ ~alt_fd_list'[g].flags.excl
  <2> SUFFICES ASSUME NEW g \in Fds PROVE /\ g > 2 <=> alt_fd_list'[g].dev = NoDev
                                          /\ ~alt_fd_list'[g].flags.excl
    OBVIOUS
  <2>1. CASE g = f
    BY <1>1, <1>2, <2>1
  <2>2. CASE g = t
    BY <1>1, <2>2, Types
  <2>3. CASE g \notin {f, t}
    BY <1>1, <2>3 DEF TableInv, Booting, Refers, Excl
  <2> QED BY <2>1, <2>2, <2>3
<1>6. Booting' /\ HeldInUse'
  BY <1>5 DEF Booting, HeldInUse, Refers, Excl
<1>7. StreamsOnDevices'
  <2> SUFFICES ASSUME NEW g \in 0..2 PROVE alt_fd_list'[g].dev \in Devices
    BY DEF StreamsOnDevices, Refers
  <2>1. CASE g = t
    BY <1>1, <2>1, Types
  <2>2. CASE g # t
    <3>1. g \in Fds /\ g # f
      BY <1>2, Types
    <3> QED BY <1>1, <2>2, <3>1 DEF TableInv, StreamsOnDevices, Refers
  <2> QED BY <2>1, <2>2
<1>8. DeviceFlag'
  <2> SUFFICES ASSUME NEW g \in Fds, alt_fd_list'[g].flags.dev
               PROVE  alt_fd_list'[g].dev \in Devices
    BY DEF DeviceFlag, Refers
  <2>1. CASE g = t
    BY <1>1, <2>1, Types
  <2>2. CASE g # t
    <3>1. g # f
      BY <1>1
    <3> QED BY <1>1, <2>2, <3>1 DEF TableInv, DeviceFlag, Refers
  <2> QED BY <2>1, <2>2
<1>9. HighWater'
  <2> SUFFICES ASSUME NEW g \in Fds, alt_fd_list'[g].dev # NoDev PROVE g <= alt_max_fd'
    BY DEF HighWater, Used, Refers
  <2>1. g \in Int /\ ~(g > 2)
    BY <1>5, Types DEF Fds
  <2>2. alt_max_fd' \in Int
    BY <1>3, Types
  <2> QED BY <1>2, <1>3, <2>1, <2>2
<1>10. HandlesLive'
  <2>1. \A g \in Fds : alt_fd_list'[g].dev \in FileSystems => g \notin 0..2
    BY <1>7, Types DEF StreamsOnDevices, Refers
  <2>2. \A g \in Fds : ~(alt_fd_list'[g].dev \in FileSystems)
    BY <1>5, <2>1, Types DEF Fds
  <2> QED BY <2>2 DEF HandlesLive, Used, Refers
<1> QED BY <1>4, <1>6, <1>7, <1>8, <1>9, <1>10 DEF TableInv

LEMMA CloseTable ==
    ASSUME TableInv, NEW f \in Fds, Close(f)
    PROVE  /\ boot = 3 /\ boot' = 3 /\ alt_max_fd' = alt_max_fd /\ f \in Used
           /\ alt_fd_list' \in [Fds -> [dev : Devices \cup FileSystems \cup {NoDev},
                                        priv : Handles \cup {NoHandle}, flags : Flags]]
           /\ f > 2 => /\ alt_fd_list'[f].dev = NoDev
                       /\ ~alt_fd_list'[f].flags.excl /\ ~alt_fd_list'[f].flags.dev
           /\ f <= 2 => alt_fd_list' = alt_fd_list
           /\ \A g \in Fds \ {f} : alt_fd_list'[g] = alt_fd_list[g]
           /\ \/ open_files' = open_files
              \/ alt_fd_list[f].dev \in FileSystems
                 /\ open_files' = open_files \ {alt_fd_list[f].priv}
<1> DEFINE list == alt_fd_list
           after == alt_release_fd(list, f)
<1>1. list \in [Fds -> [dev : Devices \cup FileSystems \cup {NoDev},
                       priv : Handles \cup {NoHandle}, flags : Flags]]
  BY DEF TableInv, FileTypeOK
<1>2. /\ boot = 3 /\ boot' = 3 /\ alt_max_fd' = alt_max_fd /\ f \in Used
      /\ alt_fd_list' = after
      /\ \/ open_files' = open_files
         \/ list[f].dev \in FileSystems /\ open_files' = open_files \ {list[f].priv}
  BY DEF Close, Refers
<1> HIDE DEF list
<1>3. /\ after \in [Fds -> [dev : Devices \cup FileSystems \cup {NoDev},
                            priv : Handles \cup {NoHandle}, flags : Flags]]
      /\ f > 2 => after[f].dev = NoDev /\ after[f].flags = NoFlags
      /\ f <= 2 => after = list
      /\ \A g \in Fds \ {f} : after[g] = list[g]
  BY <1>1, ReleasedEntry
<1>4. ~NoFlags.excl /\ ~NoFlags.dev
  BY DEF NoFlags
<1> HIDE DEF after
<1> QED BY <1>2, <1>3, <1>4 DEF list

LEMMA CloseInv == ASSUME TableInv, NEW f \in Fds, Close(f) PROVE TableInv'
<1>1. /\ boot = 3 /\ boot' = 3 /\ alt_max_fd' = alt_max_fd /\ f \in Used
      /\ alt_fd_list' \in [Fds -> [dev : Devices \cup FileSystems \cup {NoDev},
                                   priv : Handles \cup {NoHandle}, flags : Flags]]
      /\ f > 2 => /\ alt_fd_list'[f].dev = NoDev
                  /\ ~alt_fd_list'[f].flags.excl /\ ~alt_fd_list'[f].flags.dev
      /\ f <= 2 => alt_fd_list' = alt_fd_list
      /\ \A g \in Fds \ {f} : alt_fd_list'[g] = alt_fd_list[g]
      /\ \/ open_files' = open_files
         \/ alt_fd_list[f].dev \in FileSystems
            /\ open_files' = open_files \ {alt_fd_list[f].priv}
  BY CloseTable
<1>2. FileTypeOK'
  BY <1>1 DEF TableInv, FileTypeOK
<1>3. f \in Nat /\ alt_max_fd \in Int
  BY Types DEF Fds, TableInv, FileTypeOK
<1>4. CASE f <= 2
  <2>1. alt_fd_list[f].dev \notin FileSystems
    BY <1>3, <1>4, Types DEF TableInv, StreamsOnDevices, Refers
  <2>2. alt_fd_list' = alt_fd_list /\ open_files' = open_files
    BY <1>1, <1>4, <2>1
  <2> QED BY <1>1, <1>2, <2>2 DEF TableInv, Booting, StreamsOnDevices, HeldInUse, DeviceFlag,
             HighWater, HandlesLive, Used, Refers, Excl
<1>5. CASE f > 2
  <2>1. HandlesLive'
    BY <1>1, <1>5, Types DEF TableInv, HandlesLive, Used, Refers
  <2> QED BY <1>1, <1>2, <1>3, <1>5, <2>1, OneEntry
<1> QED BY <1>3, <1>4, <1>5

(* The calls that set flags.                                               *)
LEMMA FlagsTable ==
    ASSUME TableInv, NEW f \in Fds, Exclude(f) \/ Include(f) \/ SetFlags(f)
    PROVE  /\ boot = 3 /\ boot' = 3 /\ f \in Used
           /\ alt_max_fd' = alt_max_fd /\ open_files' = open_files
           /\ alt_fd_list' \in [Fds -> [dev : Devices \cup FileSystems \cup {NoDev},
                                        priv : Handles \cup {NoHandle}, flags : Flags]]
           /\ alt_fd_list'[f].dev = alt_fd_list[f].dev
           /\ alt_fd_list'[f].priv = alt_fd_list[f].priv
           /\ alt_fd_list'[f].flags.acc = alt_fd_list[f].flags.acc
           /\ alt_fd_list'[f].flags.dev => alt_fd_list[f].flags.dev
           /\ alt_fd_list'[f].flags.excl =>
                 alt_fd_list[f].flags.excl \/ alt_fd_list[f].flags.dev
           /\ \A g \in Fds \ {f} : alt_fd_list'[g] = alt_fd_list[g]
<1>1. alt_fd_list \in [Fds -> [dev : Devices \cup FileSystems \cup {NoDev},
                               priv : Handles \cup {NoHandle}, flags : Flags]]
  BY DEF TableInv, FileTypeOK
<1>2. /\ boot = 3 /\ boot' = 3 /\ f \in Used
      /\ alt_max_fd' = alt_max_fd /\ open_files' = open_files
  BY DEF Exclude, Include, SetFlags
<1>3. CASE Exclude(f)
  <2>1. /\ alt_fd_list' = [alt_fd_list EXCEPT ![f].flags.excl = TRUE]
        /\ alt_fd_list[f].flags.dev
    BY <1>3 DEF Exclude
  <2>2. /\ alt_fd_list[f].flags \in Flags
        /\ alt_fd_list' = [alt_fd_list EXCEPT ![f] =
                              [alt_fd_list[f] EXCEPT !.flags =
                                 [alt_fd_list[f].flags EXCEPT !.excl = TRUE]]]
    BY <1>1, <2>1
  <2>3. [alt_fd_list[f].flags EXCEPT !.excl = TRUE] \in Flags
    BY <2>2 DEF Flags
  <2>4. /\ alt_fd_list'[f].dev = alt_fd_list[f].dev
        /\ alt_fd_list'[f].priv = alt_fd_list[f].priv
        /\ alt_fd_list'[f].flags = [alt_fd_list[f].flags EXCEPT !.excl = TRUE]
        /\ \A g \in Fds \ {f} : alt_fd_list'[g] = alt_fd_list[g]
    BY <1>1, <2>2
  <2>5. /\ alt_fd_list'[f].flags.acc = alt_fd_list[f].flags.acc
        /\ alt_fd_list'[f].flags.dev = alt_fd_list[f].flags.dev
    BY <2>2, <2>4 DEF Flags
  <2>6. alt_fd_list' \in [Fds -> [dev : Devices \cup FileSystems \cup {NoDev},
                                  priv : Handles \cup {NoHandle}, flags : Flags]]
    BY <1>1, <2>2, <2>3
  <2> QED BY <1>2, <2>1, <2>4, <2>5, <2>6
<1>4. CASE Include(f)
  <2>1. alt_fd_list' = [alt_fd_list EXCEPT ![f].flags.excl = FALSE]
    BY <1>4 DEF Include
  <2> QED BY <1>1, <1>2, <2>1 DEF Flags
<1>5. CASE SetFlags(f)
  <2>1. PICK nb \in BOOLEAN : alt_fd_list' = [alt_fd_list EXCEPT ![f].flags.nonblock = nb]
    BY <1>5 DEF SetFlags
  <2> QED BY <1>1, <1>2, <2>1 DEF Flags
<1> QED BY <1>3, <1>4, <1>5

LEMMA FlagsInv ==
    ASSUME TableInv, NEW f \in Fds, Exclude(f) \/ Include(f) \/ SetFlags(f)
    PROVE  TableInv'
<1>1. /\ boot = 3 /\ boot' = 3 /\ f \in Used
      /\ alt_max_fd' = alt_max_fd /\ open_files' = open_files
      /\ alt_fd_list' \in [Fds -> [dev : Devices \cup FileSystems \cup {NoDev},
                                   priv : Handles \cup {NoHandle}, flags : Flags]]
      /\ alt_fd_list'[f].dev = alt_fd_list[f].dev
      /\ alt_fd_list'[f].priv = alt_fd_list[f].priv
      /\ alt_fd_list'[f].flags.dev => alt_fd_list[f].flags.dev
      /\ alt_fd_list'[f].flags.excl =>
            alt_fd_list[f].flags.excl \/ alt_fd_list[f].flags.dev
      /\ \A g \in Fds \ {f} : alt_fd_list'[g] = alt_fd_list[g]
  BY FlagsTable
<1>2. FileTypeOK'
  BY <1>1 DEF TableInv, FileTypeOK
<1>3. HandlesLive'
  BY <1>1 DEF TableInv, HandlesLive, Used, Refers
<1>4. /\ f \in Nat /\ alt_max_fd \in Int /\ f <= alt_max_fd
      /\ f <= 2 => alt_fd_list[f].dev \in Devices
      /\ alt_fd_list[f].flags.excl => alt_fd_list[f].dev \in Devices
      /\ alt_fd_list[f].flags.dev => alt_fd_list[f].dev \in Devices
  BY <1>1, Types DEF Fds, TableInv, FileTypeOK, HighWater, StreamsOnDevices, HeldInUse,
             DeviceFlag, Refers, Excl
<1> QED BY <1>1, <1>2, <1>3, <1>4, OneEntry

LEMMA StepInv == TableInv /\ [Next]_vars => TableInv'
<1>1. TableInv /\ UNCHANGED vars => TableInv'
  BY DEF TableInv, FileTypeOK, Booting, StreamsOnDevices, HeldInUse, DeviceFlag, HighWater,
         HandlesLive, Used, Refers, Excl, vars
<1> QED BY <1>1, OpenWorksInv, OpenFailsInv, RedirectInv, CloseInv, FlagsInv DEF Next

THEOREM TableInvariant == Spec => []TableInv
<1> QED BY InitInv, StepInv, PTL DEF Spec

(* The host is asked about its open files only: priv of a descriptor in    *)
(* use for a file is the handle its alt_open was given, however often the  *)
(* descriptor has been released and reused (alt_release_fd.c leaves priv). *)
THEOREM TableHandlesLive == Spec => []HandlesLive
<1>1. TableInv => HandlesLive
  BY DEF TableInv
<1> QED BY <1>1, TableInvariant, PTL

(* alt_file_locked and alt_fd_lock, which stop at alt_max_fd, see every    *)
(* descriptor in use, or all but the last.                                 *)
THEOREM TableHighWater == Spec => []HighWater
<1>1. TableInv => HighWater
  BY DEF TableInv
<1> QED BY <1>1, TableInvariant, PTL
(* A stream that has been redirected is on the console, for reading or for *)
(* writing.                                                                *)
Redirected(f) == \E n \in 0..2 : n < boot /\ Stream(n) = f
Mode(f) == IF f = 0 THEN "O_RDONLY" ELSE "O_WRONLY"
StreamsSet == \A f \in 0..2 : Redirected(f) => /\ Refers(f) = Console
                                               /\ alt_fd_list[f].flags.acc = Mode(f)

LEMMA StreamsKept ==
    ASSUME StreamsSet, boot' = boot,
           \A g \in 0..2 : /\ alt_fd_list'[g].dev = alt_fd_list[g].dev
                           /\ alt_fd_list'[g].flags.acc = alt_fd_list[g].flags.acc
    PROVE  StreamsSet'
  BY DEF StreamsSet, Redirected, Refers

LEMMA StreamsStep == TableInv /\ StreamsSet /\ [Next]_vars => StreamsSet'
<1> SUFFICES ASSUME TableInv, StreamsSet, [Next]_vars PROVE StreamsSet'
  OBVIOUS
<1>0. 0..2 \subseteq Fds
  BY Types
<1>1. CASE UNCHANGED vars
  BY <1>1, StreamsKept DEF vars
<1>2. CASE OpenWorks
  <2>1. PICK d \in Devices \cup FileSystems, acc \in Access, nb \in BOOLEAN,
            h \in Handles \cup {NoHandle} :
          alt_fd_list' = Opened(FirstFree, d, acc, nb, h)
    BY <1>2, Types DEF OpenWorks
  <2> DEFINE list == Opened(FirstFree, d, acc, nb, h)
  <2>2. FirstFree \in Fds /\ FirstFree > 2 /\ boot' = boot
    BY <1>2, FirstFreeIsFree, FreeFacts DEF OpenWorks
  <2>3. \A g \in Fds \ {FirstFree} : list[g] = alt_fd_list[g]
    BY <2>2, OpenedEntry
  <2>4. alt_fd_list' = list
    BY <2>1
  <2> HIDE DEF list
  <2>5. \A g \in 0..2 : g \in Fds \ {FirstFree}
    BY <1>0, <2>2
  <2> QED BY <2>2, <2>3, <2>4, <2>5, StreamsKept
<1>3. CASE OpenFails
  <2>1. /\ FirstFree \in Free /\ boot' = boot
        /\ \A g \in Fds \ {FirstFree} : alt_fd_list'[g] = alt_fd_list[g]
    BY <1>3, OpenFailsTable
  <2>2. \A g \in 0..2 : g \in Fds \ {FirstFree}
    BY <1>0, <2>1, FreeFacts
  <2> QED BY <2>1, <2>2, StreamsKept
<1>4. CASE Redirect
  <2> DEFINE t == Stream(boot)
  <2>1. /\ boot < 3 /\ boot' = boot + 1 /\ FirstFree \in Free /\ t \in 0..2
        /\ alt_fd_list'[t].dev = Console /\ alt_fd_list'[t].flags.acc = Mode(t)
        /\ \A g \in Fds \ {FirstFree, t} : alt_fd_list'[g] = alt_fd_list[g]
    BY <1>4, RedirectTable DEF Mode
  <2>2. boot \in Nat
    BY DEF TableInv, FileTypeOK
  <2> SUFFICES ASSUME NEW g \in 0..2, Redirected(g)'
               PROVE  alt_fd_list'[g].dev = Console /\ alt_fd_list'[g].flags.acc = Mode(g)
    BY DEF StreamsSet, Refers
  <2>3. CASE g = t
    BY <2>1, <2>3
  <2>4. CASE g # t
    <3>1. g \in Fds \ {FirstFree, t}
      BY <1>0, <2>1, <2>4, FreeFacts
    <3>2. Redirected(g)
      <4>1. PICK n \in 0..2 : n < boot' /\ Stream(n) = g
        BY DEF Redirected
      <4>2. n # boot
        BY <2>4, <4>1
      <4>3. n < boot
        BY <2>1, <2>2, <4>1, <4>2
      <4> QED BY <4>1, <4>3 DEF Redirected
    <3> QED BY <2>1, <3>1, <3>2 DEF StreamsSet, Refers
  <2> QED BY <2>3, <2>4
<1>5. ASSUME NEW f \in Fds, Close(f) PROVE StreamsSet'
  <2>2. boot' = boot /\ f \in Nat
    BY <1>5, CloseTable, Types DEF Fds
  <2>3. CASE f <= 2
    BY <2>2, <2>3, <1>5, CloseTable, StreamsKept
  <2>4. CASE f > 2
    <3>1. \A g \in 0..2 : g \in Fds \ {f}
      BY <1>0, <2>4
    <3>2. \A g \in Fds \ {f} : alt_fd_list'[g] = alt_fd_list[g]
      BY <1>5, CloseTable
    <3> QED BY <2>2, <3>1, <3>2, StreamsKept
  <2> QED BY <2>2, <2>3, <2>4
<1>6. ASSUME NEW f \in Fds, Exclude(f) \/ Include(f) \/ SetFlags(f) PROVE StreamsSet'
  <2>1. /\ boot' = boot
        /\ alt_fd_list'[f].dev = alt_fd_list[f].dev
        /\ alt_fd_list'[f].flags.acc = alt_fd_list[f].flags.acc
        /\ \A g \in Fds \ {f} : alt_fd_list'[g] = alt_fd_list[g]
    BY <1>6, FlagsTable
  <2> QED BY <1>0, <2>1, StreamsKept
<1> QED BY <1>1, <1>2, <1>3, <1>4, <1>5, <1>6 DEF Next

(* Whatever is opened and closed after the start, standard input, output   *)
(* and error stay open on the console in their modes: alt_release_fd does  *)
(* not release them.                                                       *)
THEOREM TableStandardStreams == Spec => []StandardStreams
<1>1. Init => StreamsSet
  BY DEF Init, StreamsSet, Redirected
<1>2. TableInv /\ StreamsSet => StandardStreams
  <2> SUFFICES ASSUME StreamsSet, boot = 3, NEW f \in 0..2
               PROVE  Refers(f) = Console /\ alt_fd_list[f].flags.acc = Mode(f)
    BY DEF StandardStreams, Mode
  <2>1. Stream(1) = 0 /\ Stream(0) = 1 /\ Stream(2) = 2
    BY DEF Stream
  <2>2. Redirected(f)
    BY <2>1 DEF Redirected
  <2> QED BY <2>2 DEF StreamsSet
<1> QED BY <1>1, <1>2, StreamsStep, TableInvariant, PTL DEF Spec
-----------------------------------------------------------------------------
(* The table seen as a Descriptors.                                        *)
refs == [f \in Fds |-> Refers(f)]
held == {f \in Fds : Excl(f)}

LEMMA SameView ==
    ASSUME \A g \in Fds : /\ alt_fd_list'[g].dev = alt_fd_list[g].dev
                          /\ alt_fd_list'[g].flags.excl <=> alt_fd_list[g].flags.excl
    PROVE  refs' = refs /\ held' = held
  BY DEF refs, held, Refers, Excl

LEMMA OneView ==
    ASSUME NEW f \in Fds, \A g \in Fds \ {f} : alt_fd_list'[g] = alt_fd_list[g]
    PROVE  /\ refs' = [refs EXCEPT ![f] = alt_fd_list'[f].dev]
           /\ alt_fd_list'[f].flags.excl => held' = held \cup {f}
           /\ ~alt_fd_list'[f].flags.excl => held' = held \ {f}
<1>1. \A g \in Fds \ {f} : /\ alt_fd_list'[g].dev = alt_fd_list[g].dev
                          /\ alt_fd_list'[g].flags.excl <=> alt_fd_list[g].flags.excl
  OBVIOUS
<1>2. refs' = [refs EXCEPT ![f] = alt_fd_list'[f].dev]
  BY <1>1 DEF refs, Refers
<1>3. alt_fd_list'[f].flags.excl => held' = held \cup {f}
  BY <1>1 DEF held, Excl
<1>4. ~alt_fd_list'[f].flags.excl => held' = held \ {f}
  BY <1>1 DEF held, Excl
<1> QED BY <1>2, <1>3, <1>4

(* A device that is held is found by alt_file_locked, and nothing else is. *)
LEMMA HeldIsLocked ==
    ASSUME TableInv, boot = 3, NEW d \in Devices \cup FileSystems,
           \E h \in held : refs[h] = d
    PROVE  d \in Devices /\ alt_file_locked(d)
<1>1. PICK h \in Fds : Excl(h) /\ Refers(h) = d
  BY DEF held, refs
<1>2. Refers(h) \in Devices /\ h \in Used
  BY <1>1, Types DEF TableInv, HeldInUse, Used
<1>3. h <= alt_max_fd /\ h \in Nat /\ alt_max_fd \in Int
  BY <1>2, Types DEF TableInv, HighWater, FileTypeOK, Fds
<1>4. h \in 0..alt_max_fd
  BY <1>3
<1> QED BY <1>1, <1>2, <1>4 DEF alt_file_locked

LEMMA OpenWorksStep == TableInv /\ OpenWorks => Promise!Open
<1> SUFFICES ASSUME TableInv, OpenWorks PROVE Promise!Open
  OBVIOUS
<1>1. FirstFree \in Free /\ boot = 3
  BY FirstFreeIsFree DEF OpenWorks
<1>2. PICK d \in Devices \cup FileSystems, acc \in Access, nb \in BOOLEAN,
          h \in Handles \cup {NoHandle} :
        /\ d \in Devices => ~alt_file_locked(d)
        /\ alt_fd_list' = Opened(FirstFree, d, acc, nb, h)
  BY Types DEF OpenWorks
<1> DEFINE f == FirstFree
           list == Opened(f, d, acc, nb, h)
<1>3. f \in Fds /\ alt_fd_list[f].dev = NoDev /\ ~alt_fd_list[f].flags.excl
  BY <1>1, FreeFacts
<1>4. list[f].dev = d /\ ~list[f].flags.excl /\ \A g \in Fds \ {f} : list[g] = alt_fd_list[g]
  BY <1>3, OpenedEntry
<1>5. alt_fd_list' = list
  BY <1>2
<1> HIDE DEF list, f
<1>6. refs' = [refs EXCEPT ![f] = d] /\ held' = held \ {f}
  BY <1>3, <1>4, <1>5, OneView
<1>7. refs[f] = NoDev /\ f \notin held
  BY <1>3 DEF refs, held, Refers, Excl
<1>8. ~\E x \in held : refs[x] = d
  BY <1>1, <1>2, HeldIsLocked
<1> QED BY <1>3, <1>6, <1>7, <1>8 DEF Promise!Open, Promise!Held, refs, held

LEMMA OpenFailsStep == TableInv /\ OpenFails => refs' = refs /\ held' = held
<1> SUFFICES ASSUME TableInv, OpenFails PROVE refs' = refs /\ held' = held
  OBVIOUS
<1> DEFINE f == FirstFree
<1>1. /\ f \in Free /\ alt_fd_list'[f].dev = NoDev /\ ~alt_fd_list'[f].flags.excl
      /\ \A g \in Fds \ {f} : alt_fd_list'[g] = alt_fd_list[g]
  BY OpenFailsTable
<1> HIDE DEF f
<1>2. alt_fd_list[f].dev = NoDev /\ ~alt_fd_list[f].flags.excl
  BY <1>1, FreeFacts
<1> QED BY <1>1, <1>2, SameView

LEMMA RedirectStep == TableInv /\ Redirect => Promise!Redirect
<1> SUFFICES ASSUME TableInv, Redirect PROVE Promise!Redirect
  OBVIOUS
<1> DEFINE f == FirstFree
           t == Stream(boot)
<1>1. /\ boot < 3 /\ f \in Free /\ t \in 0..2
      /\ alt_fd_list'[f].dev = NoDev /\ ~alt_fd_list'[f].flags.excl
      /\ alt_fd_list'[t].dev = Console /\ ~alt_fd_list'[t].flags.excl
      /\ \A g \in Fds \ {f, t} : alt_fd_list'[g] = alt_fd_list[g]
  BY RedirectTable
<1> HIDE DEF f, t
<1>2. f \in Fds /\ f > 2 /\ alt_fd_list[f].dev = NoDev /\ t \in Fds /\ f # t
  BY <1>1, FreeFacts, Types
<1>3. held = {} /\ held' = {}
  <2>1. \A g \in Fds : ~alt_fd_list[g].flags.excl
    BY <1>1 DEF TableInv, Booting, Excl
  <2>2. \A g \in Fds : ~alt_fd_list'[g].flags.excl
    BY <1>1, <2>1
  <2> QED BY <2>1, <2>2 DEF held, Excl
<1>4. refs' = [refs EXCEPT ![t] = Console]
  <2>1. \A g \in Fds : alt_fd_list'[g].dev = (IF g = t THEN Console ELSE alt_fd_list[g].dev)
    BY <1>1, <1>2
  <2> QED BY <1>2, <2>1 DEF refs, Refers
<1> QED BY <1>1, <1>3, <1>4, Types DEF Promise!Redirect, refs, held

LEMMA CloseStep ==
    ASSUME TableInv, NEW f \in Fds, Close(f)
    PROVE  Promise!Close \/ (refs' = refs /\ held' = held)
<1>1. /\ f \in Used
      /\ f > 2 => alt_fd_list'[f].dev = NoDev /\ ~alt_fd_list'[f].flags.excl
      /\ f <= 2 => alt_fd_list' = alt_fd_list
      /\ \A g \in Fds \ {f} : alt_fd_list'[g] = alt_fd_list[g]
  BY CloseTable
<1>2. f \in Nat
  BY Types DEF Fds
<1>3. CASE f <= 2
  BY <1>1, <1>3, SameView
<1>4. CASE f > 2
  <2>1. refs' = [refs EXCEPT ![f] = NoDev] /\ held' = held \ {f}
    BY <1>1, <1>4, OneView
  <2>2. refs[f] # NoDev /\ f \notin 0..2
    BY <1>1, <1>4 DEF refs, Used
  <2> QED BY <2>1, <2>2 DEF Promise!Close, refs, held
<1> QED BY <1>2, <1>3, <1>4

(* The lock is granted though the highest descriptor refers to the device, *)
(* but not if a second one does.                                           *)
LEMMA LockedHighest ==
    ASSUME TableInv, boot = 3, NEW f \in Used, alt_fd_lock(f),
           NEW g \in Fds \ {f}, refs[g] = refs[f]
    PROVE  g = alt_max_fd
<1>1. Refers(g) = Refers(f) /\ g \in Used
  BY DEF refs, Used
<1>2. g \in Nat /\ alt_max_fd \in Int /\ g <= alt_max_fd
  BY <1>1, Types DEF TableInv, HighWater, FileTypeOK, Fds
<1>3. g \notin 0..(alt_max_fd - 1)
  BY <1>1 DEF alt_fd_lock
<1> QED BY <1>2, <1>3

LEMMA FlagsStep ==
    ASSUME TableInv, NEW f \in Fds, Exclude(f) \/ Include(f) \/ SetFlags(f)
    PROVE  Promise!Hold \/ Promise!Release \/ (refs' = refs /\ held' = held)
<1>1. /\ f \in Used /\ alt_fd_list'[f].dev = alt_fd_list[f].dev /\ boot = 3
      /\ \A g \in Fds \ {f} : alt_fd_list'[g] = alt_fd_list[g]
  BY FlagsTable
<1>2. refs' = refs
  BY <1>1 DEF refs, Refers
<1>3. refs[f] # NoDev
  BY <1>1 DEF refs, Used
<1>4. CASE Exclude(f) /\ alt_fd_list'[f].flags.excl
  <2>1. held' = held \cup {f}
    BY <1>1, <1>4, OneView
  <2>2. \A g, h \in Fds \ {f} : refs[g] = refs[f] /\ refs[h] = refs[f] => g = h
    BY <1>1, <1>4, LockedHighest DEF Exclude
  <2> QED BY <1>2, <1>3, <2>1, <2>2 DEF Promise!Hold, refs, held
<1>5. CASE ~alt_fd_list'[f].flags.excl
  <2>1. held' = held \ {f}
    BY <1>1, <1>5, OneView
  <2> QED BY <1>2, <2>1 DEF Promise!Release, refs, held
<1>6. CASE ~Exclude(f) /\ alt_fd_list'[f].flags.excl
  <2>1. alt_fd_list \in [Fds -> [dev : Devices \cup FileSystems \cup {NoDev},
                                 priv : Handles \cup {NoHandle}, flags : Flags]]
    BY DEF TableInv, FileTypeOK
  <2>2. ~Include(f)
    BY <1>6, <2>1 DEF Include, Flags
  <2>3. PICK nb \in BOOLEAN : alt_fd_list' = [alt_fd_list EXCEPT ![f].flags.nonblock = nb]
    BY <1>6, <2>2 DEF SetFlags
  <2>4. alt_fd_list'[f].flags.excl <=> alt_fd_list[f].flags.excl
    BY <2>1, <2>3 DEF Flags
  <2> QED BY <1>1, <2>4, SameView
<1> QED BY <1>4, <1>5, <1>6

(* Every step of the table is one of Descriptors, or nothing it sees.      *)
LEMMA PromiseStep == TableInv /\ [Next]_vars => [Promise!Next]_Promise!vars
<1>1. TableInv /\ UNCHANGED vars => refs' = refs /\ held' = held
  BY DEF vars, refs, held, Refers, Excl
<1>2. refs' = refs /\ held' = held => UNCHANGED Promise!vars
  BY DEF Promise!vars, refs, held
<1> QED BY <1>1, <1>2, OpenWorksStep, OpenFailsStep, RedirectStep, CloseStep, FlagsStep
        DEF Next, Promise!Next

LEMMA PromiseInit == Init => Promise!Init
<1> SUFFICES ASSUME Init PROVE Promise!Init
  OBVIOUS
<1>1. TableInv
  BY InitInv
<1>2. \A f \in 0..2 : Refers(f) # NoDev
  BY <1>1, Types DEF TableInv, StreamsOnDevices
<1>3. \A f \in Fds : ~Excl(f)
  BY <1>1 DEF Init, Excl, NoFlags
<1>4. \A f \in Fds : Refers(f) \in Devices \cup FileSystems \cup {NoDev}
  BY <1>1 DEF TableInv, FileTypeOK, Refers
<1> QED BY <1>2, <1>3, <1>4, Types DEF Promise!Init

(* alt_open, alt_close, the redirection of the standard streams and the    *)
(* calls that set flags keep the promises of Descriptors, with a pool of   *)
(* any size.                                                               *)
THEOREM TableImplementsDescriptors == Spec => ImplementsDescriptors
<1> QED BY PromiseInit, PromiseStep, TableInvariant, PTL
        DEF Spec, ImplementsDescriptors, Promise!Spec


-----------------------------------------------------------------------------
(* The calls on open files.  PlaceKnown says nothing of the host's handles *)
(* that no descriptor has, and is not inductive without the table's        *)
(* invariant: a call moves the place of a handle, which must be that of    *)
(* one descriptor only, and a descriptor begins with a handle nobody had.  *)
PlaceInv ==
    /\ size \in 0..MaxSize /\ pos \in [open_files -> 0..MaxSize]
    /\ counted \in [Fds -> Nat] /\ doubt \in [Fds -> 0..MaxSize]
    /\ PlaceKnown

LEMMA IOTypes == MaxSize \in Nat /\ \A e \in Errors : e \in Nat /\ e > 0
  BY IOAssumption

(* The handle of a descriptor for a file is open, and no other has it.     *)
LEMMA OwnHandle ==
    ASSUME TableInv, NEW f \in Fds, OnFile(f)
    PROVE  /\ handle(f) \in open_files
           /\ \A g \in Fds \ {f} : OnFile(g) => handle(g) # handle(f)
  BY DEF TableInv, HandlesLive, OnFile, handle

(* What a caller is told: the number of bytes moved, or that it failed.    *)
LEMMA Told ==
    ASSUME NEW error \in {0} \cup Errors, NEW rc \in Nat
    PROVE  \/ Result(HostReply(error, rc)) = rc
           \/ Result(HostReply(error, rc)) = -1
  BY IOTypes DEF Result, HostReply

(* A request moves the place of one handle, by what its caller is told or  *)
(* by no more than is in doubt afterwards.                                 *)
LEMMA TransferInv ==
    ASSUME TableInv, PlaceInv, NEW f \in Fds, OnFile(f), NEW room \in Nat,
           pos[handle(f)] + room <= MaxSize, Transfer(f, room), UNCHANGED vars,
           size' \in 0..MaxSize
    PROVE  PlaceInv'
<1> DEFINE h == handle(f)
<1>1. /\ h \in open_files /\ pos[h] \in 0..MaxSize /\ pos \in [open_files -> 0..MaxSize]
      /\ counted[f] \in Nat /\ doubt[f] \in 0..MaxSize /\ MaxSize \in Nat
      /\ counted \in [Fds -> Nat] /\ doubt \in [Fds -> 0..MaxSize]
      /\ counted[f] <= pos[h] /\ pos[h] <= counted[f] + doubt[f]
  BY OwnHandle, IOTypes DEF PlaceInv, PlaceKnown
<1>2. PICK n \in 0..MaxSize : \E moved \in 0..Least(n, room), error \in {0} \cup Errors :
          /\ pos' = [pos EXCEPT ![h] = @ + moved]
          /\ Count(f, n, Result(HostReply(error, Answer(n, moved))))
  BY DEF Transfer
<1>3. PICK moved \in 0..Least(n, room), error \in {0} \cup Errors :
          /\ pos' = [pos EXCEPT ![h] = @ + moved]
          /\ Count(f, n, Result(HostReply(error, Answer(n, moved))))
  BY <1>2
<1>4. moved \in Nat /\ moved <= n /\ moved <= room /\ n \in Nat
  BY <1>1 DEF Least
<1> HIDE DEF h
<1>5. pos'[h] = pos[h] + moved /\ pos[h] + moved \in 0..MaxSize
  <2>1. pos[h] + moved \in 0..MaxSize
    BY <1>1, <1>4 DEF h
  <2> QED BY <1>1, <1>3, <2>1
<1>6. pos' \in [open_files -> 0..MaxSize] /\ \A k \in open_files \ {h} : pos'[k] = pos[k]
  BY <1>1, <1>3, <1>5
<1>7. /\ counted' \in [Fds -> Nat] /\ doubt' \in [Fds -> 0..MaxSize]
      /\ \A g \in Fds \ {f} : counted'[g] = counted[g] /\ doubt'[g] = doubt[g]
      /\ counted'[f] <= pos'[h] /\ pos'[h] <= counted'[f] + doubt'[f]
  <2> DEFINE ret == Result(HostReply(error, moved))
  <2>1. Count(f, n, ret)
    BY <1>3 DEF Answer
  <2>2. ret = moved \/ ret = -1
    BY <1>4, Told
  <2> HIDE DEF ret
  <2>3. CASE ret = moved
    <3>1. counted' = [counted EXCEPT ![f] = counted[f] + moved] /\ doubt' = doubt
      BY <1>4, <2>1, <2>3 DEF Count
    <3> QED BY <1>1, <1>4, <1>5, <3>1
  <2>4. CASE ret = -1
    <3>1. counted' = counted /\ doubt' = [doubt EXCEPT ![f] = Least(doubt[f] + n, MaxSize)]
      BY <2>1, <2>4 DEF Count
    <3>2. /\ Least(doubt[f] + n, MaxSize) \in 0..MaxSize
          /\ pos'[h] <= counted[f] + Least(doubt[f] + n, MaxSize)
      BY <1>1, <1>4, <1>5 DEF Least
    <3> HIDE DEF Least
    <3> QED BY <1>1, <1>4, <1>5, <3>1, <3>2
  <2> QED BY <2>2, <2>3, <2>4
<1>8. PlaceKnown'
  <2> SUFFICES ASSUME NEW g \in Fds, OnFile(g)
               PROVE  counted'[g] <= pos'[handle(g)] /\ pos'[handle(g)] <= counted'[g] + doubt'[g]
    BY DEF PlaceKnown, OnFile, handle, Used, Refers, vars
  <2>1. CASE g = f
    BY <1>7, <2>1 DEF h
  <2>2. CASE g # f
    <3>1. handle(g) \in open_files \ {h}
      BY <2>2, OwnHandle DEF h
    <3> QED BY <1>6, <1>7, <2>2, <3>1 DEF PlaceInv, PlaceKnown
  <2> QED BY <2>1, <2>2
<1> QED BY <1>6, <1>7, <1>8 DEF PlaceInv, vars

LEMMA ReadInv ==
    ASSUME TableInv, PlaceInv, NEW f \in Fds, read(f)
    PROVE  PlaceInv'
<1> DEFINE room == IF pos[handle(f)] < size THEN size - pos[handle(f)] ELSE 0
<1>1. OnFile(f) /\ Transfer(f, room) /\ UNCHANGED <<vars, size>>
  BY DEF read
<1>2. pos[handle(f)] \in 0..MaxSize /\ size \in 0..MaxSize
  BY <1>1, OwnHandle DEF PlaceInv
<1>3. room \in Nat /\ pos[handle(f)] + room <= MaxSize
  BY <1>2, IOTypes
<1> HIDE DEF room
<1> QED BY <1>1, <1>2, <1>3, TransferInv

LEMMA WriteInv ==
    ASSUME TableInv, PlaceInv, NEW f \in Fds, write(f)
    PROVE  PlaceInv'
<1>1. /\ OnFile(f) /\ Transfer(f, MaxSize - pos[handle(f)]) /\ UNCHANGED vars
      /\ size' = Greatest(size, pos'[handle(f)])
  BY DEF write
<1>2. pos[handle(f)] \in 0..MaxSize /\ size \in 0..MaxSize /\ MaxSize \in Nat
  BY <1>1, OwnHandle, IOTypes DEF PlaceInv
<1>3. MaxSize - pos[handle(f)] \in Nat /\ pos[handle(f)] + (MaxSize - pos[handle(f)]) <= MaxSize
  BY <1>2
<1>4. pos'[handle(f)] \in 0..MaxSize
  <2>1. PICK n \in 0..MaxSize : \E moved \in 0..Least(n, MaxSize - pos[handle(f)]) :
            pos' = [pos EXCEPT ![handle(f)] = @ + moved]
    BY <1>1 DEF Transfer
  <2>2. PICK moved \in 0..Least(n, MaxSize - pos[handle(f)]) :
            pos' = [pos EXCEPT ![handle(f)] = @ + moved]
    BY <2>1
  <2>3. moved \in Nat /\ moved <= MaxSize - pos[handle(f)]
    BY <1>2, <2>1 DEF Least
  <2>4. pos'[handle(f)] = pos[handle(f)] + moved
    BY <1>1, <2>2, OwnHandle DEF PlaceInv
  <2> QED BY <1>2, <2>3, <2>4
<1>5. size' \in 0..MaxSize
  BY <1>1, <1>2, <1>4 DEF Greatest
<1> QED BY <1>1, <1>3, <1>5, TransferInv

LEMMA SeekInv ==
    ASSUME TableInv, PlaceInv, NEW f \in Fds, lseek(f)
    PROVE  PlaceInv'
<1>1. OnFile(f) /\ UNCHANGED <<vars, size>>
  BY DEF lseek
<1>2. PICK p \in 0..MaxSize, error \in {0} \cup Errors :
          LET ret == Result(HostReply(error, p)) IN
          /\ pos' = [pos EXCEPT ![handle(f)] = p]
          /\ counted' = [counted EXCEPT ![f] = IF ret < 0 THEN 0 ELSE ret]
          /\ doubt' = [doubt EXCEPT ![f] = IF ret < 0 THEN MaxSize ELSE 0]
  BY DEF lseek
<1> DEFINE ret == Result(HostReply(error, p))
           c == IF ret < 0 THEN 0 ELSE ret
           d == IF ret < 0 THEN MaxSize ELSE 0
<1>3. p \in Nat /\ MaxSize \in Nat /\ p <= MaxSize
  BY IOTypes
<1>4. ret = p \/ ret = -1
  BY <1>3, Told
<1>5. c \in Nat /\ d \in 0..MaxSize /\ c <= p /\ p <= c + d
  <2> HIDE DEF ret
  <2> QED BY <1>3, <1>4
<1>6. /\ pos' = [pos EXCEPT ![handle(f)] = p] /\ counted' = [counted EXCEPT ![f] = c]
      /\ doubt' = [doubt EXCEPT ![f] = d]
  BY <1>2
<1> HIDE DEF ret, c, d
<1>7. /\ pos' \in [open_files -> 0..MaxSize] /\ pos'[handle(f)] = p
      /\ \A k \in open_files \ {handle(f)} : pos'[k] = pos[k]
      /\ counted' \in [Fds -> Nat] /\ counted'[f] = c
      /\ doubt' \in [Fds -> 0..MaxSize] /\ doubt'[f] = d
      /\ \A g \in Fds \ {f} : counted'[g] = counted[g] /\ doubt'[g] = doubt[g]
  BY <1>1, <1>5, <1>6, OwnHandle DEF PlaceInv
<1>8. PlaceKnown'
  <2> SUFFICES ASSUME NEW g \in Fds, OnFile(g)
               PROVE  counted'[g] <= pos'[handle(g)] /\ pos'[handle(g)] <= counted'[g] + doubt'[g]
    BY <1>1 DEF PlaceKnown, OnFile, handle, Used, Refers, vars
  <2>1. CASE g = f
    BY <1>5, <1>7, <2>1
  <2>2. CASE g # f
    <3>1. handle(g) \in open_files \ {handle(f)}
      BY <1>1, <2>2, OwnHandle
    <3> QED BY <1>7, <2>2, <3>1 DEF PlaceInv, PlaceKnown
  <2> QED BY <2>1, <2>2
<1> QED BY <1>1, <1>7, <1>8 DEF PlaceInv, vars

(* A descriptor that refers to a file after a step of the table did so     *)
(* before with the same handle, or was free and has a new one.             *)
LEMMA FileHandles ==
    ASSUME TableInv, Next, NEW f \in Fds, OnFile(f)'
    PROVE  \/ OnFile(f) /\ handle(f)' = handle(f)
           \/ f \notin Used /\ handle(f)' \notin open_files
<1>1. alt_fd_list'[f].dev \in FileSystems /\ alt_fd_list'[f].dev \notin Devices \cup {NoDev}
  BY Types DEF OnFile, Refers
<1>2. ASSUME alt_fd_list'[f] = alt_fd_list[f] PROVE OnFile(f) /\ handle(f)' = handle(f)
  BY <1>1, <1>2, Types DEF OnFile, handle, Used, Refers
<1>3. CASE OpenWorks
  <2>1. FirstFree \in Free
    BY <1>3, FirstFreeIsFree DEF OpenWorks
  <2>2. FirstFree \in Fds /\ FirstFree \notin Used
    BY <2>1 DEF Free
  <2>3. PICK d \in Devices \cup FileSystems, acc \in Access, nb \in BOOLEAN,
             h \in Handles \cup {NoHandle} :
          /\ alt_fd_list' = Opened(FirstFree, d, acc, nb, h)
          /\ d \in Devices \/ h \in Handles \ open_files
    BY <1>3, Types DEF OpenWorks
  <2> DEFINE list == Opened(FirstFree, d, acc, nb, h)
  <2>4. /\ list[FirstFree].dev = d
        /\ h # NoHandle => list[FirstFree].priv = h
        /\ \A g \in Fds \ {FirstFree} : list[g] = alt_fd_list[g]
    BY <2>2, OpenedEntry
  <2>5. alt_fd_list' = list
    BY <2>3
  <2> HIDE DEF list
  <2>6. CASE f = FirstFree
    <3>1. alt_fd_list'[f].dev = d
      BY <2>4, <2>5, <2>6
    <3>2. d \notin Devices
      BY <1>1, <3>1
    <3>3. h \in Handles \ open_files /\ h # NoHandle
      BY <2>3, <3>2, DevicesAssumption
    <3>4. handle(f)' = h
      BY <2>4, <2>5, <2>6, <3>3 DEF handle
    <3> QED BY <2>2, <2>6, <3>3, <3>4
  <2>7. CASE f # FirstFree
    BY <1>2, <2>4, <2>5, <2>7
  <2> QED BY <2>6, <2>7
<1>4. CASE OpenFails
  BY <1>1, <1>2, <1>4, OpenFailsTable
<1>5. CASE Redirect
  BY <1>1, <1>2, <1>5, RedirectTable, Types
<1>6. ASSUME NEW g \in Fds, Close(g) PROVE OnFile(f) /\ handle(f)' = handle(f)
  <2>1. g \in Int
    BY Types DEF Fds
  <2> QED BY <1>1, <1>2, <1>6, <2>1, CloseTable
<1>7. ASSUME NEW g \in Fds, Exclude(g) \/ Include(g) \/ SetFlags(g)
      PROVE  OnFile(f) /\ handle(f)' = handle(f)
  <2>1. /\ alt_fd_list'[g].dev = alt_fd_list[g].dev /\ alt_fd_list'[g].priv = alt_fd_list[g].priv
        /\ \A k \in Fds \ {g} : alt_fd_list'[k] = alt_fd_list[k]
    BY <1>7, FlagsTable
  <2>2. CASE f = g
    BY <1>1, <2>1, <2>2, Types DEF OnFile, handle, Used, Refers
  <2>3. CASE f # g
    BY <1>2, <2>1, <2>3
  <2> QED BY <2>2, <2>3
<1> QED BY <1>3, <1>4, <1>5, <1>6, <1>7 DEF Next

LEMMA FollowInv ==
    ASSUME TableInv, TableInv', PlaceInv, Next, FilesFollow
    PROVE  PlaceInv'
<1>1. pos' \in [open_files' -> 0..MaxSize] /\ size' \in 0..MaxSize
  BY IOTypes DEF FilesFollow, PlaceInv
<1>2. counted' \in [Fds -> Nat] /\ doubt' \in [Fds -> 0..MaxSize]
  BY IOTypes DEF FilesFollow, PlaceInv
<1>3. PlaceKnown'
  <2> SUFFICES ASSUME NEW f \in Fds, OnFile(f)'
               PROVE  /\ counted'[f] <= pos'[handle(f)']
                      /\ pos'[handle(f)'] <= counted'[f] + doubt'[f]
    BY DEF PlaceKnown, handle
  <2>1. handle(f)' \in open_files'
    BY DEF TableInv, HandlesLive, OnFile, handle
  <2>2. CASE OnFile(f) /\ handle(f)' = handle(f)
    <3>1. Kept(f) /\ handle(f) \in open_files
      BY <2>2, OwnHandle DEF Kept, OnFile
    <3>2. pos'[handle(f)'] = pos[handle(f)] /\ counted'[f] = counted[f] /\ doubt'[f] = doubt[f]
      BY <2>1, <2>2, <3>1 DEF FilesFollow
    <3> QED BY <2>2, <3>2 DEF PlaceInv, PlaceKnown
  <2>3. CASE f \notin Used /\ handle(f)' \notin open_files
    <3>1. ~Kept(f)
      BY <2>3 DEF Kept
    <3>2. pos'[handle(f)'] = 0 /\ counted'[f] = 0 /\ doubt'[f] = 0
      BY <2>1, <2>3, <3>1 DEF FilesFollow
    <3> QED BY <3>2
  <2> QED BY <2>2, <2>3, FileHandles
<1> QED BY <1>1, <1>2, <1>3 DEF PlaceInv

(* The program knows its place in each of its files from what its calls    *)
(* returned, up to what calls that failed have put in doubt, for a table   *)
(* and files of any size, whatever the host serves and reports, and        *)
(* however descriptors and handles are closed and given out again          *)
(* (alt_read.c, alt_write.c, alt_lseek.c, altera_hostfs.c).                *)
THEOREM CallsPlaceKnown == CallsSpec => []PlaceKnown
<1>1. CallsInit => TableInv /\ PlaceInv
  <2> SUFFICES ASSUME CallsInit PROVE TableInv /\ PlaceInv
    OBVIOUS
  <2>1. TableInv
    BY InitInv DEF CallsInit
  <2>2. \A f \in Fds : ~OnFile(f)
    <3>1. open_files = {}
      BY DEF CallsInit, Init
    <3> QED BY <2>1, <3>1, OwnHandle
  <2>3. PlaceKnown
    BY <2>2 DEF PlaceKnown
  <2> QED BY <2>1, <2>3, IOTypes DEF CallsInit, PlaceInv
<1>2. TableInv /\ PlaceInv /\ [CallsNext]_callVars => (TableInv /\ PlaceInv)'
  <2> SUFFICES ASSUME TableInv, PlaceInv, [CallsNext]_callVars PROVE (TableInv /\ PlaceInv)'
    OBVIOUS
  <2>1. CASE UNCHANGED callVars
    <3>1. UNCHANGED vars /\ UNCHANGED fileVars
      BY <2>1 DEF callVars
    <3>2. TableInv'
      BY <3>1, StepInv
    <3>3. PlaceInv'
      BY <3>1 DEF vars, fileVars, PlaceInv, PlaceKnown, OnFile, handle, Used, Refers
    <3> QED BY <3>2, <3>3
  <2>2. CASE Next /\ FilesFollow
    BY <2>2, StepInv, FollowInv
  <2>3. ASSUME NEW f \in Fds, read(f) \/ write(f) \/ lseek(f) PROVE (TableInv /\ PlaceInv)'
    <3>1. UNCHANGED vars
      BY <2>3 DEF read, write, lseek
    <3> QED BY <2>3, <3>1, StepInv, ReadInv, WriteInv, SeekInv
  <2> QED BY <2>1, <2>2, <2>3 DEF CallsNext
<1>3. PlaceInv => PlaceKnown
  BY DEF PlaceInv
<1> QED BY <1>1, <1>2, <1>3, PTL DEF CallsSpec
=============================================================================
