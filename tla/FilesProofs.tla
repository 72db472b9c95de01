----------------------------- MODULE FilesProofs -----------------------------
(***************************************************************************)
(* Proofs about Files, for every number of descriptors and every set of    *)
(* devices, file systems and names.                                        *)
(***************************************************************************)
EXTENDS Files, TLAPS

(* What makes the short search of alt_fd_lock safe enough: a descriptor     *)
(* that shares the device of a holder is above it.                          *)
LockOrder == \A f \in Holders, g \in InUse : dev[g] = dev[f] /\ g # f => f < g

(* Flags of a device are on descriptors of devices, they appear with the    *)
(* first allocation, and locks are not taken before main.                   *)
FlagsOK ==
    /\ \A f \in Fds : "DEV" \in fd_flags[f] => dev[f] \in Devices /\ alt_max_fd > 2
    /\ \A f \in Holders : "DEV" \in fd_flags[f]
    /\ pc \notin {"main", "exit"} => Holders = {}
    /\ Std \subseteq InUse

IInv == TypeOK /\ LockOrder /\ FlagsOK

THEOREM InitInv == Init => IInv
BY FilesAssumption DEF Init, IInv, TypeOK, LockOrder, FlagsOK, Holders, InUse, Free, Fds, Std,
                       FlagBits

---------------------------------------------------------------------------
(* Calls that change no descriptor keep the invariant. *)
LEMMA SameTable ==
    ASSUME IInv, UNCHANGED <<dev, fd_flags>>,
           alt_max_fd' \in -1 .. ALT_MAX_FD - 1, alt_max_fd' >= alt_max_fd,
           registered' \subseteq Devices \cup Filesystems,
           pc' \in {"alt_sys_init", "stdout", "stdin", "stderr", "main", "exit"},
           pc \in {"main", "exit"} => pc' \in {"main", "exit"}
    PROVE  IInv'
<1>1. TypeOK'
  BY FilesAssumption DEF IInv, TypeOK, InUse, Free, Fds, Std
<1>2. LockOrder'
  BY DEF IInv, LockOrder, Holders, InUse
<1>3. FlagsOK'
  BY FilesAssumption DEF IInv, TypeOK, FlagsOK, Holders, InUse, Fds
<1> QED BY <1>1, <1>2, <1>3 DEF IInv

(* A descriptor that is given out is free, lies above the standard ones and *)
(* is covered by the raised mark.                                           *)
LEMMA Allocated ==
    ASSUME IInv, NEW f \in Fds, alt_get_fd(f)
    PROVE  /\ dev[f] = NIL /\ f > 2
           /\ Raised(f) \in -1 .. ALT_MAX_FD - 1
           /\ Raised(f) >= f /\ Raised(f) >= alt_max_fd
BY FilesAssumption DEF IInv, TypeOK, FlagsOK, alt_get_fd, Raised, Free, InUse, Fds, Std

LEMMA FoundDevices ==
    ASSUME NEW name, NEW d \in Found(name)
    PROVE  d \in Devices \cup Filesystems /\ d # NIL
BY FilesAssumption DEF Found, alt_find_dev, alt_find_file

(* The search of open sees every holder. *)
LEMMA NoHolder ==
    ASSUME IInv, NEW f \in Fds, NEW d \in Devices \cup Filesystems, MayOpen(f, d)
    PROVE  \A g \in Holders : dev[g] # d
<1> SUFFICES ASSUME NEW g \in Holders, dev[g] = d PROVE FALSE
  OBVIOUS
<1>1. g \in Fds /\ "EXCL" \in fd_flags[g] /\ "DEV" \in fd_flags[g] /\ d \in Devices
  BY DEF IInv, FlagsOK, Holders
<1>2. g \in InUse /\ g # f
  BY <1>1, Allocated, FilesAssumption DEF MayOpen, InUse
<1>3. g \in 0 .. Raised(f)
  BY <1>1, <1>2, Allocated, FilesAssumption DEF IInv, TypeOK, MayOpen, Fds, Std
<1> QED BY <1>1, <1>2, <1>3 DEF MayOpen, alt_file_locked

---------------------------------------------------------------------------
(* One lemma per call that changes a descriptor. *)

LEMMA GrantedInv ==
    ASSUME IInv, NEW name, NEW flags \in SUBSET {"NONBLOCK"},
           pc = "main", OpenGranted(name, flags), UNCHANGED <<registered, pc>>
    PROVE  IInv'
<1>1. PICK d \in Found(name), f \in Fds :
        /\ MayOpen(f, d)
        /\ dev' = [dev EXCEPT ![f] = d]
        /\ fd_flags' = [fd_flags EXCEPT ![f] = OpenFlags(d, flags)]
        /\ alt_max_fd' = Raised(f)
  BY DEF OpenGranted
<1>2. /\ dev[f] = NIL /\ f > 2 /\ Raised(f) \in -1 .. ALT_MAX_FD - 1
      /\ Raised(f) >= f /\ Raised(f) >= alt_max_fd
  BY <1>1, Allocated DEF MayOpen
<1>3. d \in Devices \cup Filesystems /\ d # NIL
  BY <1>1, FoundDevices
<1>4. /\ OpenFlags(d, flags) \in SUBSET FlagBits /\ "EXCL" \notin OpenFlags(d, flags)
      /\ "DEV" \in OpenFlags(d, flags) => d \in Devices
  BY DEF OpenFlags, FlagBits
<1>5. \A g \in Holders : dev[g] # d
  BY <1>1, <1>3, NoHolder
<1>6. dev \in [Fds -> Devices \cup Filesystems \cup {NIL}] /\ fd_flags \in [Fds -> SUBSET FlagBits]
  BY DEF IInv, TypeOK
<1>7. InUse' = InUse \cup {f} /\ f \notin InUse
  BY <1>1, <1>2, <1>3, <1>6 DEF InUse
<1>8. Holders' = Holders \ {f} /\ f \notin Holders
  BY <1>1, <1>2, <1>4, <1>6, FilesAssumption DEF Holders, IInv, TypeOK, FlagsOK
<1>9. TypeOK'
  <2>1. /\ dev' \in [Fds -> Devices \cup Filesystems \cup {NIL}]
        /\ fd_flags' \in [Fds -> SUBSET FlagBits]
        /\ alt_max_fd' \in -1 .. ALT_MAX_FD - 1
    BY <1>1, <1>2, <1>3, <1>4, <1>6
  <2>2. \A g \in Free' : fd_flags'[g] = {}
    BY <1>1, <1>6, <1>7 DEF IInv, TypeOK, Free
  <2>3. \A g \in (InUse \ Std)' : g <= alt_max_fd'
    BY <1>1, <1>2, <1>7 DEF IInv, TypeOK, Std, Fds, InUse
  <2> QED BY <2>1, <2>2, <2>3 DEF IInv, TypeOK
<1>10. LockOrder'
  BY <1>1, <1>5, <1>6, <1>7, <1>8 DEF IInv, LockOrder, Holders
<1>11. FlagsOK'
  BY <1>1, <1>2, <1>4, <1>6, <1>7, <1>8, FilesAssumption DEF IInv, TypeOK, FlagsOK, Holders, Fds
<1> QED BY <1>9, <1>10, <1>11 DEF IInv

LEMMA RefusedInv ==
    ASSUME IInv, NEW name, OpenRefused(name) \/ OpenDenied(name),
           registered' \subseteq Devices \cup Filesystems,
           pc' \in {"alt_sys_init", "stdout", "stdin", "stderr", "main", "exit"},
           pc \in {"main", "exit"} => pc' \in {"main", "exit"}
    PROVE  IInv'
<1>1. /\ UNCHANGED <<dev, fd_flags>>
      /\ alt_max_fd' \in -1 .. ALT_MAX_FD - 1 /\ alt_max_fd' >= alt_max_fd
  BY Allocated, FilesAssumption DEF IInv, TypeOK, OpenRefused, OpenDenied
<1> QED BY <1>1, SameTable

LEMMA ReleaseInv ==
    ASSUME IInv, NEW f \in InUse, alt_release_fd(f),
           UNCHANGED <<alt_max_fd, registered>>, pc = "main", pc' \in {"main", "exit"}
    PROVE  IInv'
<1>1. CASE f > 2
  <2>1. /\ dev' = [dev EXCEPT ![f] = NIL] /\ fd_flags' = [fd_flags EXCEPT ![f] = {}]
    BY <1>1 DEF alt_release_fd
  <2>2. dev \in [Fds -> Devices \cup Filesystems \cup {NIL}] /\ fd_flags \in [Fds -> SUBSET FlagBits]
        /\ f \in Fds
    BY DEF IInv, TypeOK, InUse
  <2>3. InUse' = InUse \ {f} /\ Holders' = Holders \ {f}
    BY <2>1, <2>2 DEF InUse, Holders
  <2>4. TypeOK'
    BY <2>1, <2>2, <2>3, FilesAssumption DEF IInv, TypeOK, Free
  <2>5. LockOrder'
    BY <2>1, <2>2, <2>3 DEF IInv, LockOrder, Holders, InUse
  <2>6. FlagsOK'
    BY <1>1, <2>1, <2>2, <2>3, FilesAssumption DEF IInv, TypeOK, FlagsOK, Holders, Std, Fds
  <2> QED BY <2>4, <2>5, <2>6 DEF IInv
<1>2. CASE ~(f > 2)
  BY <1>2, SameTable, FilesAssumption DEF alt_release_fd, IInv, TypeOK
<1> QED BY <1>1, <1>2

(* alt_fd_lock grants a lock only if no descriptor below the mark shares    *)
(* the device: the one it misses is above the caller.                       *)
LEMMA LockGranted ==
    ASSUME IInv, NEW f \in InUse, "DEV" \in fd_flags[f],
           ~\E i \in 0 .. alt_max_fd - 1 : i # f /\ dev[i] = dev[f]
    PROVE  \A g \in InUse : dev[g] = dev[f] /\ g # f => f < g
<1> SUFFICES ASSUME NEW g \in InUse, dev[g] = dev[f], g # f PROVE f < g
  OBVIOUS
<1>1. alt_max_fd > 2 /\ alt_max_fd \in Int /\ f \in Fds /\ g \in Fds
  BY DEF IInv, TypeOK, FlagsOK, InUse
<1>2. f <= alt_max_fd /\ g <= alt_max_fd
  BY <1>1, FilesAssumption DEF IInv, TypeOK, Std, Fds
<1>3. ~(g < alt_max_fd)
  BY <1>1, FilesAssumption DEF Fds
<1> QED BY <1>1, <1>2, <1>3, FilesAssumption DEF Fds

LEMMA FlagsInv ==
    ASSUME IInv, NEW f \in InUse, NEW bits \in SUBSET FlagBits,
           fd_flags' = [fd_flags EXCEPT ![f] = bits],
           "DEV" \in bits <=> "DEV" \in fd_flags[f],
           "EXCL" \in bits =>
               "EXCL" \in fd_flags[f]
               \/ /\ "DEV" \in bits
                  /\ \A g \in InUse : dev[g] = dev[f] /\ g # f => f < g
                  /\ \A g \in Holders : dev[g] = dev[f] => g = f,
           UNCHANGED <<dev, alt_max_fd, registered, pc>>, pc = "main"
    PROVE  IInv'
<1>1. dev \in [Fds -> Devices \cup Filesystems \cup {NIL}] /\ fd_flags \in [Fds -> SUBSET FlagBits]
      /\ f \in Fds
  BY DEF IInv, TypeOK, InUse
<1>2. InUse' = InUse /\ Free' = Free /\ f \notin Free
  BY DEF InUse, Free
<1>3. TypeOK'
  BY <1>1, <1>2 DEF IInv, TypeOK
<1>4. Holders' \subseteq Holders \cup {f} /\ (f \in Holders' <=> "EXCL" \in bits)
  BY <1>1 DEF Holders
<1>5. LockOrder'
  BY <1>1, <1>2, <1>4 DEF IInv, LockOrder, Holders
<1>6. FlagsOK'
  BY <1>1, <1>2, <1>4 DEF IInv, FlagsOK, Holders
<1> QED BY <1>3, <1>5, <1>6 DEF IInv

LEMMA IoctlInv ==
    ASSUME IInv, NEW f \in InUse, NEW req, Ioctl(f, req)
    PROVE  IInv'
<1>0. fd_flags[f] \in SUBSET FlagBits /\ fd_flags \in [Fds -> SUBSET FlagBits]
  BY DEF IInv, TypeOK, InUse
<1>1. CASE alt_fd_unlock(f)
  <2>1. fd_flags[f] \ {"EXCL"} \in SUBSET FlagBits
    BY <1>0
  <2> QED BY <1>1, <1>0, <2>1, FlagsInv DEF Ioctl, alt_fd_unlock
<1>2. CASE alt_fd_lock(f)
  <2>1. CASE \E i \in 0 .. alt_max_fd - 1 : i # f /\ dev[i] = dev[f]
    BY <1>2, <2>1, SameTable DEF Ioctl, alt_fd_lock, IInv, TypeOK
  <2>2. CASE ~\E i \in 0 .. alt_max_fd - 1 : i # f /\ dev[i] = dev[f]
    <3>1. fd_flags' = [fd_flags EXCEPT ![f] = fd_flags[f] \cup {"EXCL"}]
      BY <1>2, <2>2, <1>0 DEF alt_fd_lock
    <3>2. \A g \in InUse : dev[g] = dev[f] /\ g # f => f < g
      BY <2>2, LockGranted DEF Ioctl
    <3>3. \A g \in Holders : dev[g] = dev[f] => g = f
      <4> SUFFICES ASSUME NEW g \in Holders, dev[g] = dev[f], g # f PROVE FALSE
        OBVIOUS
      <4>1. g \in InUse /\ g \in Fds /\ f \in Fds
        BY DEF InUse, Holders
      <4>2. g < f
        BY <4>1 DEF IInv, LockOrder
      <4> QED BY <3>2, <4>1, <4>2 DEF Fds
    <3>4. fd_flags[f] \cup {"EXCL"} \in SUBSET FlagBits
      BY <1>0 DEF FlagBits
    <3> QED BY <3>1, <3>2, <3>3, <3>4, <1>0, FlagsInv DEF Ioctl
  <2> QED BY <2>1, <2>2
<1> QED BY <1>1, <1>2 DEF Ioctl

LEMMA SetFlInv ==
    ASSUME IInv, NEW f \in InUse, NEW flags \in SUBSET FlagBits, SetFl(f, flags)
    PROVE  IInv'
<1> DEFINE bits == (fd_flags[f] \ {"NONBLOCK"}) \cup (flags \cap {"NONBLOCK"})
<1>1. fd_flags[f] \in SUBSET FlagBits
  BY DEF IInv, TypeOK, InUse
<1>2. bits \in SUBSET FlagBits /\ ("DEV" \in bits <=> "DEV" \in fd_flags[f])
      /\ ("EXCL" \in bits => "EXCL" \in fd_flags[f])
  BY <1>1
<1>3. fd_flags' = [fd_flags EXCEPT ![f] = bits]
  BY DEF SetFl
<1> QED BY <1>2, <1>3, FlagsInv DEF SetFl

LEMMA RedirectInv ==
    ASSUME IInv, Redirect
    PROVE  IInv'
<1>1. PICK f, name : f \in Std /\ RedirectTo(f, name)
  BY DEF Redirect, Std
<1>2. /\ pc \notin {"main", "exit"} /\ pc' \in {"stdin", "stderr", "main"}
      /\ UNCHANGED registered
  BY DEF Redirect
<1>3. CASE OpenRefused(name) \/ OpenDenied(name)
  BY <1>2, <1>3, RefusedInv DEF IInv, TypeOK
<1>4. CASE \E d \in Found(name), g \in Fds :
             /\ MayOpen(g, d)
             /\ dev' = [dev EXCEPT ![f] = d]
             /\ fd_flags' = [fd_flags EXCEPT ![f] = OpenFlags(d, {})]
             /\ alt_max_fd' = Raised(g)
  <2>1. PICK d \in Found(name), g \in Fds :
             /\ MayOpen(g, d)
             /\ dev' = [dev EXCEPT ![f] = d]
             /\ fd_flags' = [fd_flags EXCEPT ![f] = OpenFlags(d, {})]
             /\ alt_max_fd' = Raised(g)
    BY <1>4
  <2>2. /\ g > 2 /\ Raised(g) \in -1 .. ALT_MAX_FD - 1
        /\ Raised(g) >= g /\ Raised(g) >= alt_max_fd
    BY <2>1, Allocated DEF MayOpen
  <2>3. d \in Devices \cup Filesystems /\ d # NIL
    BY <2>1, FoundDevices
  <2>4. /\ OpenFlags(d, {}) \in SUBSET FlagBits /\ "EXCL" \notin OpenFlags(d, {})
        /\ "DEV" \in OpenFlags(d, {}) => d \in Devices
    BY DEF OpenFlags, FlagBits
  <2>5. /\ dev \in [Fds -> Devices \cup Filesystems \cup {NIL}]
        /\ fd_flags \in [Fds -> SUBSET FlagBits] /\ f \in Fds
    BY <1>1, FilesAssumption DEF IInv, TypeOK, Fds, Std
  <2>6. InUse' = InUse /\ Free' = Free /\ f \in InUse
    BY <1>1, <2>1, <2>3, <2>5 DEF IInv, FlagsOK, InUse, Free
  <2>7. Holders = {} /\ Holders' = {}
    BY <1>2, <2>1, <2>4, <2>5 DEF IInv, FlagsOK, Holders
  <2>8. TypeOK'
    <3>1. \A h \in Free' : fd_flags'[h] = {}
      BY <2>1, <2>5, <2>6 DEF IInv, TypeOK, Free
    <3>2. \A h \in (InUse \ Std)' : h <= alt_max_fd'
      BY <2>1, <2>2, <2>6, FilesAssumption DEF IInv, TypeOK, InUse, Fds, Std
    <3> QED BY <1>2, <2>1, <2>2, <2>3, <2>4, <2>5, <3>1, <3>2 DEF IInv, TypeOK
  <2>9. LockOrder'
    BY <2>7 DEF LockOrder
  <2>10. FlagsOK'
    BY <2>1, <2>2, <2>4, <2>5, <2>6, <2>7, FilesAssumption DEF IInv, TypeOK, FlagsOK, Fds, Std
  <2> QED BY <2>8, <2>9, <2>10 DEF IInv
<1> QED BY <1>1, <1>3, <1>4 DEF RedirectTo

---------------------------------------------------------------------------
THEOREM StepInv == IInv /\ [Next]_vars => IInv'
<1> SUFFICES ASSUME IInv, [Next]_vars PROVE IInv'
  OBVIOUS
<1>0. /\ registered \subseteq Devices \cup Filesystems
      /\ alt_max_fd \in -1 .. ALT_MAX_FD - 1
      /\ pc \in {"alt_sys_init", "stdout", "stdin", "stderr", "main", "exit"}
  BY DEF IInv, TypeOK
<1>1. CASE UNCHANGED vars
  BY <1>0, <1>1, SameTable DEF vars
<1>2. CASE \E d \in Devices \cup Filesystems : Register(d)
  BY <1>0, <1>2, SameTable DEF Register
<1>3. CASE SysInitDone
  BY <1>0, <1>3, SameTable DEF SysInitDone
<1>4. CASE Redirect
  BY <1>4, RedirectInv
<1>5. CASE \E name \in Names, flags \in SUBSET {"NONBLOCK"} : Open(name, flags)
  BY <1>0, <1>5, GrantedInv, RefusedInv DEF Open
<1>6. CASE \E f \in InUse : Close(f)
  BY <1>6, ReleaseInv DEF Close
<1>7. CASE \E f \in InUse, req \in {"TIOCEXCL", "TIOCNXCL"} : Ioctl(f, req)
  BY <1>7, IoctlInv
<1>8. CASE \E f \in InUse, flags \in SUBSET FlagBits : SetFl(f, flags)
  BY <1>8, SetFlInv
<1>9. CASE MainReturns
  <2>1. 1 \in InUse
    BY DEF IInv, FlagsOK, Std
  <2> QED BY <1>9, <2>1, ReleaseInv DEF MainReturns
<1>10. CASE Exit
  BY <1>0, <1>10, SameTable DEF Exit, vars
<1> QED BY <1>1, <1>2, <1>3, <1>4, <1>5, <1>6, <1>7, <1>8, <1>9, <1>10 DEF Next

THEOREM InvHolds == Spec => []IInv
BY InitInv, StepInv, PTL DEF Spec

(* A free descriptor carries no flags and descriptors in use are within the *)
(* high-water mark.                                                         *)
THEOREM TypeCorrect == Spec => []TypeOK
<1>1. IInv => TypeOK
  BY DEF IInv
<1> QED BY <1>1, InvHolds, PTL

(* No device ever has two exclusive holders. *)
THEOREM OneHolderOnly == Spec => []OneHolder
<1>1. ASSUME IInv PROVE OneHolder
  <2> SUFFICES ASSUME NEW f \in Holders, NEW g \in Holders, dev[f] = dev[g], f # g PROVE FALSE
    BY DEF OneHolder
  <2>1. f \in Fds /\ g \in Fds /\ dev[f] # NIL /\ dev[g] # NIL
    BY FilesAssumption, <1>1 DEF Holders, IInv, FlagsOK
  <2>2. f < g /\ g < f
    BY <1>1, <2>1 DEF IInv, LockOrder, InUse
  <2> QED BY <2>1, <2>2 DEF Fds
<1> QED BY <1>1, InvHolds, PTL

---------------------------------------------------------------------------
(* Every step of the code is a step of the table, or changes no descriptor. *)

LEMMA HoldersOf ==
    ASSUME IInv
    PROVE  \A g \in Holders : g \in Fds /\ g \in InUse /\ dev[g] \in Devices
BY FilesAssumption DEF IInv, FlagsOK, Holders, InUse

LEMMA OpenMaps ==
    ASSUME IInv, NEW name, NEW flags \in SUBSET {"NONBLOCK"}, OpenGranted(name, flags)
    PROVE  \E f \in Fds, d \in Devices \cup Filesystems : Table!Open(f, d)
<1>1. PICK d \in Found(name), f \in Fds :
        /\ MayOpen(f, d)
        /\ dev' = [dev EXCEPT ![f] = d]
        /\ fd_flags' = [fd_flags EXCEPT ![f] = OpenFlags(d, flags)]
  BY DEF OpenGranted
<1>2. d \in Devices \cup Filesystems
  BY <1>1, FoundDevices
<1>3. \A g \in Holders : dev[g] # d
  BY <1>1, <1>2, NoHolder
<1>4. dev[f] = NIL /\ f > 2 /\ \A g \in 0 .. f - 1 : dev[g] # NIL
  BY <1>1, Allocated DEF MayOpen, alt_get_fd, InUse
<1>5. fd_flags \in [Fds -> SUBSET FlagBits] /\ "EXCL" \notin OpenFlags(d, flags)
  BY DEF IInv, TypeOK, OpenFlags
<1>6. f \notin Holders
  BY <1>4, HoldersOf DEF InUse
<1>7. Holders' = Holders
  BY <1>1, <1>5, <1>6 DEF Holders
<1>8. Table!Open(f, d)
  BY <1>1, <1>3, <1>4, <1>7 DEF Table!Open, Table!Held
<1> QED BY <1>2, <1>8

LEMMA RedirectMaps ==
    ASSUME IInv, Redirect
    PROVE  \/ \E f \in Fds, d \in Devices \cup Filesystems : Table!Redirect(f, d)
           \/ UNCHANGED <<dev, Holders>>
<1>1. PICK f, name : f \in Std /\ RedirectTo(f, name)
  BY DEF Redirect, Std
<1>2. CASE OpenRefused(name) \/ OpenDenied(name)
  BY <1>2 DEF OpenRefused, OpenDenied, Holders
<1>3. ASSUME NEW d \in Found(name), NEW g \in Fds,
             dev' = [dev EXCEPT ![f] = d],
             fd_flags' = [fd_flags EXCEPT ![f] = OpenFlags(d, {})]
      PROVE  \E h \in Fds, e \in Devices \cup Filesystems : Table!Redirect(h, e)
  <2>1. d \in Devices \cup Filesystems /\ "EXCL" \notin OpenFlags(d, {})
    BY FoundDevices DEF OpenFlags
  <2>2. Holders = {} /\ fd_flags \in [Fds -> SUBSET FlagBits] /\ f \in Fds
    BY <1>1, FilesAssumption DEF Redirect, IInv, TypeOK, FlagsOK, Fds, Std
  <2>3. Holders' = {}
    BY <1>3, <2>1, <2>2 DEF Holders
  <2>4. Table!Redirect(f, d)
    BY <1>1, <1>3, <2>2, <2>3 DEF Table!Redirect, Table!Std, Std
  <2> QED BY <2>1, <2>2, <2>4
<1> QED BY <1>1, <1>2, <1>3 DEF RedirectTo

LEMMA ReleaseMaps ==
    ASSUME IInv, NEW f \in InUse, alt_release_fd(f)
    PROVE  Table!Close(f) \/ UNCHANGED <<dev, Holders>>
<1>1. CASE f > 2
  <2>1. Holders' = Holders \ {f}
    BY <1>1 DEF alt_release_fd, Holders, InUse, IInv, TypeOK
  <2> QED BY <1>1, <2>1 DEF alt_release_fd, Table!Close, Table!Std
<1>2. CASE ~(f > 2)
  BY <1>2 DEF alt_release_fd, Holders
<1> QED BY <1>1, <1>2

LEMMA IoctlMaps ==
    ASSUME IInv, NEW f \in InUse, NEW req, Ioctl(f, req)
    PROVE  Table!Lock(f) \/ Table!Unlock(f) \/ UNCHANGED <<dev, Holders>>
<1>0. fd_flags \in [Fds -> SUBSET FlagBits] /\ f \in Fds /\ dev' = dev
  BY DEF IInv, TypeOK, InUse, Ioctl
<1>1. CASE alt_fd_unlock(f)
  <2>1. Holders' = Holders \ {f}
    BY <1>0, <1>1 DEF alt_fd_unlock, Holders
  <2> QED BY <1>0, <2>1 DEF Table!Unlock
<1>2. CASE alt_fd_lock(f)
  <2>1. CASE \E i \in 0 .. alt_max_fd - 1 : i # f /\ dev[i] = dev[f]
    BY <1>0, <1>2, <2>1 DEF alt_fd_lock, Holders
  <2>2. CASE ~\E i \in 0 .. alt_max_fd - 1 : i # f /\ dev[i] = dev[f]
    <3>1. Holders' = Holders \cup {f}
      BY <1>0, <1>2, <2>2 DEF alt_fd_lock, Holders
    <3>2. dev[f] \in Devices
      BY <1>0 DEF Ioctl, IInv, FlagsOK
    <3>3. \A g \in InUse : dev[g] = dev[f] /\ g # f => f < g
      BY <2>2, LockGranted DEF Ioctl
    <3>4. \A g \in Holders : dev[g] = dev[f] => g = f
      <4> SUFFICES ASSUME NEW g \in Holders, dev[g] = dev[f], g # f PROVE FALSE
        OBVIOUS
      <4>1. g \in InUse /\ g \in Fds
        BY HoldersOf
      <4>2. g < f
        BY <4>1 DEF IInv, LockOrder
      <4> QED BY <1>0, <3>3, <4>1, <4>2 DEF Fds
    <3> QED BY <1>0, <3>1, <3>2, <3>4 DEF Table!Lock, Table!Held
  <2> QED BY <2>1, <2>2
<1> QED BY <1>1, <1>2 DEF Ioctl

LEMMA SetFlMaps ==
    ASSUME IInv, NEW f \in InUse, NEW flags \in SUBSET FlagBits, SetFl(f, flags)
    PROVE  UNCHANGED <<dev, Holders>>
<1>1. fd_flags \in [Fds -> SUBSET FlagBits] /\ f \in Fds
  BY DEF IInv, TypeOK, InUse
<1> QED BY <1>1 DEF SetFl, Holders

LEMMA StepMaps == IInv /\ [Next]_vars => [Table!Next]_(Table!tableVars)
<1> SUFFICES ASSUME IInv, [Next]_vars, ~UNCHANGED <<dev, Holders>> PROVE Table!Next
  BY DEF Table!tableVars
<1>0. Table!Fds = Fds /\ InUse \subseteq Fds
  BY DEF Table!Fds, Fds, InUse
<1>1. CASE UNCHANGED vars
  BY <1>1 DEF vars, Holders
<1>2. CASE \E d \in Devices \cup Filesystems : Register(d)
  BY <1>2 DEF Register, Holders
<1>3. CASE SysInitDone
  BY <1>3 DEF SysInitDone, Holders
<1>4. CASE Redirect
  BY <1>0, <1>4, RedirectMaps DEF Table!Next
<1>5. ASSUME NEW name \in Names, NEW flags \in SUBSET {"NONBLOCK"}, Open(name, flags)
      PROVE  Table!Next
  <2>1. OpenGranted(name, flags)
    BY <1>5 DEF Open, OpenRefused, OpenDenied, Holders
  <2> QED BY <1>0, <2>1, OpenMaps DEF Table!Next
<1>6. CASE \E f \in InUse : Close(f)
  BY <1>0, <1>6, ReleaseMaps DEF Close, Table!Next
<1>7. CASE \E f \in InUse, req \in {"TIOCEXCL", "TIOCNXCL"} : Ioctl(f, req)
  BY <1>0, <1>7, IoctlMaps DEF Table!Next
<1>8. CASE \E f \in InUse, flags \in SUBSET FlagBits : SetFl(f, flags)
  BY <1>8, SetFlMaps
<1>9. CASE MainReturns
  <2>1. 1 \in InUse
    BY DEF IInv, FlagsOK, Std
  <2> QED BY <1>0, <1>9, <2>1, ReleaseMaps DEF MainReturns, Table!Next
<1>10. CASE Exit
  BY <1>10 DEF Exit, vars, Holders
<1> QED BY <1>1, <1>2, <1>3, <1>4, <1>5, <1>6, <1>7, <1>8, <1>9, <1>10 DEF Next

(* The pool implements the table of descriptors and exclusive holders.      *)
THEOREM ImplementsTable == Spec => KeepsTable
<1>1. Init => Table!Init
  BY DEF Init, Table!Init, Table!Fds, Table!Std, Fds, Std, Holders
<1>2. IInv /\ [Next]_vars => [Table!Next]_(Table!tableVars)
  BY StepMaps
<1> QED BY <1>1, <1>2, InvHolds, PTL DEF Spec, Table!Spec, KeepsTable

(* While a descriptor holds a device, no step makes another refer to it.    *)
THEOREM LockedNotReopened == Spec => LockedStaysShut
<1> DEFINE Shut == \A f \in Holders, g \in Fds : dev'[g] = dev[f] => dev[g] = dev[f]
<1>1. ASSUME IInv, [Next]_vars PROVE Shut
  <2>0. dev \in [Fds -> Devices \cup Filesystems \cup {NIL}] /\ Table!Fds = Fds
    BY <1>1 DEF IInv, TypeOK, Table!Fds, Fds
  <2>1. CASE UNCHANGED <<dev, Holders>>
    BY <2>1
  <2>2. ASSUME NEW h \in Fds, NEW d \in Devices \cup Filesystems, Table!Open(h, d)
        PROVE  Shut
    BY <2>0, <2>2 DEF Table!Open, Table!Held
  <2>3. ASSUME NEW h \in Fds, NEW d \in Devices \cup Filesystems, Table!Redirect(h, d)
        PROVE  Shut
    BY <2>3 DEF Table!Redirect
  <2>4. ASSUME NEW h \in Fds, Table!Close(h) PROVE Shut
    <3> SUFFICES ASSUME NEW f \in Holders, NEW g \in Fds, dev'[g] = dev[f]
                 PROVE  dev[g] = dev[f]
      OBVIOUS
    <3>1. dev[f] # NIL
      BY <1>1, HoldersOf DEF InUse
    <3> QED BY <2>0, <2>4, <3>1 DEF Table!Close
  <2>5. ASSUME NEW h \in Fds, Table!Lock(h) \/ Table!Unlock(h) PROVE Shut
    BY <2>5 DEF Table!Lock, Table!Unlock
  <2>6. [Table!Next]_(Table!tableVars)
    BY <1>1, StepMaps
  <2> QED BY <2>0, <2>1, <2>2, <2>3, <2>4, <2>5, <2>6 DEF Table!Next, Table!tableVars
<1>2. ASSUME IInv, [Next]_vars PROVE [Shut]_vars
  BY <1>1, <1>2
<1> QED BY <1>2, InvHolds, PTL DEF Spec, LockedStaysShut
=============================================================================
