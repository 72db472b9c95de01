--------------------------- MODULE DescriptorTable ---------------------------
(***************************************************************************)
(* What open, close and the lock requests of ioctl promise a program about *)
(* its file descriptors: a descriptor is the lowest free number, it is     *)
(* given back by close, a locked device is not opened, and of the          *)
(* descriptors of a device one at most holds the lock.  The three standard *)
(* descriptors are never given back; they are turned to their devices      *)
(* before anything is locked.                                              *)
(***************************************************************************)
EXTENDS Naturals

CONSTANTS ALT_MAX_FD, Devices, Filesystems, dev_null, NIL

VARIABLES table,    \* what each descriptor refers to; NIL is free
          holders   \* the descriptors that hold their device locked

tableVars == <<table, holders>>

Fds   == 0 .. ALT_MAX_FD - 1
Std   == 0 .. 2
Held(d) == {g \in holders : table[g] = d}

Init == /\ table = [f \in Fds |-> IF f \in Std THEN dev_null ELSE NIL]
        /\ holders = {}

Open(f, d) ==
    /\ table[f] = NIL /\ \A g \in 0 .. f - 1 : table[g] # NIL
    /\ Held(d) = {}
    /\ table' = [table EXCEPT ![f] = d]
    /\ UNCHANGED holders

Close(f) ==
    /\ f \notin Std
    /\ table' = [table EXCEPT ![f] = NIL]
    /\ holders' = holders \ {f}

Lock(f) ==
    /\ table[f] \in Devices /\ Held(table[f]) \subseteq {f}
    /\ holders' = holders \cup {f}
    /\ UNCHANGED table

Unlock(f) == holders' = holders \ {f} /\ UNCHANGED table

Redirect(f, d) ==
    /\ f \in Std /\ holders = {}
    /\ table' = [table EXCEPT ![f] = d]
    /\ UNCHANGED holders

Next == \E f \in Fds :
           \/ \E d \in Devices \cup Filesystems : Open(f, d) \/ Redirect(f, d)
           \/ Close(f)
           \/ Lock(f)
           \/ Unlock(f)

Spec == Init /\ [][Next]_tableVars
=============================================================================
