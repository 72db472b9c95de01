-------------------------------- MODULE Files --------------------------------
(***************************************************************************)
(* The file descriptors of the HAL (alt_dev.c, alt_open.c, alt_close.c,    *)
(* alt_get_fd.c, alt_release_fd.c, alt_ioctl.c, alt_fd_lock.c,             *)
(* alt_fd_unlock.c, alt_fcntl.c, alt_io_redirect.c): the pool, its         *)
(* high-water mark and the locks for exclusive access, from the start of   *)
(* alt_main to the end of the program.                                     *)
(*                                                                         *)
(* The program has one thread and no interrupt routine uses descriptors:   *)
(* every call is a step.  A call is made with a descriptor in use.  The    *)
(* access mode is left out: it only decides whether read and write, which  *)
(* change nothing here, reach the driver.  Definitions named Bug... are    *)
(* mutations of the definition after them.                                 *)
(***************************************************************************)
EXTENDS Integers, Sequences

CONSTANTS ALT_MAX_FD,               \* 32
          Devices, Filesystems,     \* the alt_dev structures of the system
          dev_null, NIL,            \* alt_dev_null; the null pointer
          NameOf,                   \* their names, as sequences of components
          Names,                    \* what open is called with
          MayFail,                  \* those with an open() function that may fail
          ALT_STDIN, ALT_STDOUT, ALT_STDERR

ASSUME FilesAssumption ==
    /\ ALT_MAX_FD \in Nat /\ ALT_MAX_FD > 2
    /\ dev_null \in Devices /\ Devices \cap Filesystems = {}
    /\ NIL \notin Devices \cup Filesystems
    /\ MayFail \subseteq Devices \cup Filesystems

VARIABLES dev, fd_flags,   \* the fields of alt_fd_list
          alt_max_fd,
          registered,      \* alt_dev_list and alt_fs_list
          pc               \* where alt_main is

vars == <<dev, fd_flags, alt_max_fd, registered, pc>>

Fds      == 0 .. ALT_MAX_FD - 1
Std      == 0 .. 2
FlagBits == {"DEV", "EXCL", "NONBLOCK"}
InUse    == {f \in Fds : dev[f] # NIL}
Free     == Fds \ InUse

Init ==
    /\ dev = [f \in Fds |-> IF f \in Std THEN dev_null ELSE NIL]
    /\ fd_flags = [f \in Fds |-> {}]
    /\ alt_max_fd = -1
    /\ registered = {dev_null}
    /\ pc = "alt_sys_init"

---------------------------------------------------------------------------
(* Names.  A device is found by its whole name; if there is none, a file    *)
(* system by the components its own name has.                               *)

alt_find_dev(name)  == {d \in registered \cap Devices : NameOf[d] = name}
alt_find_file(name) == {d \in registered \cap Filesystems :
                          /\ Len(NameOf[d]) <= Len(name)
                          /\ SubSeq(name, 1, Len(NameOf[d])) = NameOf[d]}
Found(name) == IF alt_find_dev(name) # {} THEN alt_find_dev(name) ELSE alt_find_file(name)

(* alt_dev_reg and alt_fs_reg, which alt_sys_init calls. *)
Register(d) ==
    /\ pc = "alt_sys_init"
    /\ registered' = registered \cup {d}
    /\ UNCHANGED <<dev, fd_flags, alt_max_fd, pc>>

SysInitDone ==
    /\ pc = "alt_sys_init" /\ pc' = "stdout"
    /\ UNCHANGED <<dev, fd_flags, alt_max_fd, registered>>

---------------------------------------------------------------------------
(* open *)

alt_get_fd(f) == f \in Free /\ \A g \in 0 .. f - 1 : g \in InUse
Raised(f) == IF f > alt_max_fd THEN f ELSE alt_max_fd
OpenFlags(d, flags) == flags \cup (IF d \in Devices THEN {"DEV"} ELSE {})

BugFileLocked(f, d) ==
    \E i \in 0 .. alt_max_fd - 1 : dev[i] = d /\ "EXCL" \in fd_flags[i] /\ i # f

alt_file_locked(f, d) ==
    \E i \in 0 .. Raised(f) : dev[i] = d /\ "EXCL" \in fd_flags[i] /\ i # f

MayOpen(f, d) == alt_get_fd(f) /\ (d \in Devices => ~alt_file_locked(f, d))

OpenGranted(name, flags) ==
    \E d \in Found(name), f \in Fds :
        /\ MayOpen(f, d)
        /\ dev' = [dev EXCEPT ![f] = d]
        /\ fd_flags' = [fd_flags EXCEPT ![f] = OpenFlags(d, flags)]
        /\ alt_max_fd' = Raised(f)

(* The device is locked, or its open() fails: the descriptor is released,   *)
(* and the high-water mark stays where the allocation put it.               *)
OpenRefused(name) ==
    \E d \in Found(name), f \in Fds :
        /\ alt_get_fd(f)
        /\ d \in MayFail \/ ~MayOpen(f, d)
        /\ alt_max_fd' = Raised(f)
        /\ UNCHANGED <<dev, fd_flags>>

(* No such device or no descriptor. *)
OpenDenied(name) ==
    /\ Found(name) = {} \/ Free = {}
    /\ UNCHANGED <<dev, fd_flags, alt_max_fd>>

BugOpen(name, flags) ==
    /\ pc = "main"
    /\ \/ OpenGranted(name, flags)
       \/ \E d \in Found(name), f \in Fds :
             /\ alt_get_fd(f)
             /\ d \in MayFail \/ ~MayOpen(f, d)
             /\ dev' = [dev EXCEPT ![f] = d]
             /\ fd_flags' = [fd_flags EXCEPT ![f] = OpenFlags(d, flags)]
             /\ alt_max_fd' = Raised(f)
       \/ OpenDenied(name)
    /\ UNCHANGED <<registered, pc>>

Open(name, flags) ==
    /\ pc = "main"
    /\ \/ OpenGranted(name, flags)
       \/ OpenRefused(name)
       \/ OpenDenied(name)
    /\ UNCHANGED <<registered, pc>>

---------------------------------------------------------------------------
(* close, ioctl and fcntl, of a descriptor in use *)

BugReleaseFd(f) ==
    IF f > 2 THEN dev' = [dev EXCEPT ![f] = NIL] /\ UNCHANGED fd_flags
             ELSE UNCHANGED <<dev, fd_flags>>

alt_release_fd(f) ==
    IF f > 2 THEN /\ dev' = [dev EXCEPT ![f] = NIL]
                  /\ fd_flags' = [fd_flags EXCEPT ![f] = {}]
             ELSE UNCHANGED <<dev, fd_flags>>

(* Whatever the driver's close() says, the descriptor is released. *)
Close(f) ==
    /\ pc = "main"
    /\ alt_release_fd(f)
    /\ UNCHANGED <<alt_max_fd, registered, pc>>

(* The search stops short of the descriptor at the high-water mark.  If     *)
(* another descriptor has the device the call fails.                        *)
alt_fd_lock(f) ==
    IF \E i \in 0 .. alt_max_fd - 1 : i # f /\ dev[i] = dev[f]
    THEN UNCHANGED fd_flags
    ELSE fd_flags' = [fd_flags EXCEPT ![f] = @ \cup {"EXCL"}]

alt_fd_unlock(f) == fd_flags' = [fd_flags EXCEPT ![f] = @ \ {"EXCL"}]

(* Other requests, and all requests for files, are the driver's. *)
Ioctl(f, req) ==
    /\ pc = "main" /\ "DEV" \in fd_flags[f]
    /\ \/ req = "TIOCEXCL" /\ alt_fd_lock(f)
       \/ req = "TIOCNXCL" /\ alt_fd_unlock(f)
    /\ UNCHANGED <<dev, alt_max_fd, registered, pc>>

BugSetFl(f, flags) ==
    /\ pc = "main"
    /\ fd_flags' = [fd_flags EXCEPT ![f] = flags \cap {"NONBLOCK", "EXCL", "DEV"}]
    /\ UNCHANGED <<dev, alt_max_fd, registered, pc>>

(* fcntl(F_SETFL): the argument changes O_NONBLOCK (and O_APPEND) only. *)
SetFl(f, flags) ==
    /\ pc = "main"
    /\ fd_flags' = [fd_flags EXCEPT ![f] = (@ \ {"NONBLOCK"}) \cup (flags \cap {"NONBLOCK"})]
    /\ UNCHANGED <<dev, alt_max_fd, registered, pc>>

---------------------------------------------------------------------------
(* alt_open_fd: open the name, copy the descriptor's contents to f, release *)
(* it.  If the open fails f keeps what it had.                              *)

RedirectTo(f, name) ==
    \/ \E d \in Found(name), g \in Fds :
          /\ MayOpen(g, d)
          /\ dev' = [dev EXCEPT ![f] = d]
          /\ fd_flags' = [fd_flags EXCEPT ![f] = OpenFlags(d, {})]
          /\ alt_max_fd' = Raised(g)
    \/ OpenRefused(name)
    \/ OpenDenied(name)

Redirect ==
    /\ \/ pc = "stdout" /\ RedirectTo(1, ALT_STDOUT) /\ pc' = "stdin"
       \/ pc = "stdin"  /\ RedirectTo(0, ALT_STDIN)  /\ pc' = "stderr"
       \/ pc = "stderr" /\ RedirectTo(2, ALT_STDERR) /\ pc' = "main"
    /\ UNCHANGED registered

(* main returns: alt_main closes stdout and ALT_EXIT spins for ever. *)
MainReturns ==
    /\ pc = "main" /\ pc' = "exit"
    /\ alt_release_fd(1)
    /\ UNCHANGED <<alt_max_fd, registered>>

Exit == pc = "exit" /\ UNCHANGED vars

Next == \/ \E d \in Devices \cup Filesystems : Register(d)
        \/ SysInitDone
        \/ Redirect
        \/ \E name \in Names, flags \in SUBSET {"NONBLOCK"} : Open(name, flags)
        \/ \E f \in InUse : \/ Close(f)
                            \/ \E req \in {"TIOCEXCL", "TIOCNXCL"} : Ioctl(f, req)
                            \/ \E flags \in SUBSET FlagBits : SetFl(f, flags)
        \/ MainReturns
        \/ Exit

Spec == Init /\ [][Next]_vars

---------------------------------------------------------------------------
(* Properties *)

(* A free descriptor has no flags, and no descriptor in use is above the    *)
(* high-water mark, the standard ones excepted.                             *)
TypeOK ==
    /\ dev \in [Fds -> Devices \cup Filesystems \cup {NIL}]
    /\ fd_flags \in [Fds -> SUBSET FlagBits]
    /\ alt_max_fd \in -1 .. ALT_MAX_FD - 1
    /\ registered \subseteq Devices \cup Filesystems
    /\ pc \in {"alt_sys_init", "stdout", "stdin", "stderr", "main", "exit"}
    /\ \A f \in Free : fd_flags[f] = {}
    /\ \A f \in InUse \ Std : f <= alt_max_fd

Holders == {f \in Fds : "EXCL" \in fd_flags[f]}

(* Two descriptors never hold one device for exclusive access at the same   *)
(* time, whatever alt_fd_lock's search leaves out (alt_fd_lock.c:61).       *)
OneHolder == \A f, g \in Holders : dev[f] = dev[g] => f = g

(* While a descriptor holds a device locked, no call makes another          *)
(* descriptor refer to it: the search of open (alt_open.c:79-87) reaches    *)
(* every descriptor that may hold the lock, also the highest one.           *)
LockedStaysShut ==
    [][\A f \in Holders, g \in Fds : dev'[g] = dev[f] => dev[g] = dev[f]]_vars

(* "If there are no other open file descriptors which reference the same    *)
(* device, then alt_fd_lock() will grant the lock" (alt_fd_lock.c:43-44).   *)
LockIsExclusive ==
    \A f \in Holders, g \in InUse : dev[g] = dev[f] => g = f

(* The pool with its search and its mark is a table of descriptors with at  *)
(* most one holder of a lock: a failed open leaves nothing behind, a closed *)
(* descriptor and its lock are gone, a standard one stays.                  *)
Table == INSTANCE DescriptorTable WITH table <- dev, holders <- Holders
KeepsTable == Table!Spec
=============================================================================
