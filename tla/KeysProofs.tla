----------------------------- MODULE KeysProofs -----------------------------
(***************************************************************************)
(* The push buttons, for every number of presses, every start value and    *)
(* every depth of the UART: the dispatcher always finds a routine to run,  *)
(* no press counts twice and time_sleep follows the handled presses.       *)
(***************************************************************************)
EXTENDS Keys, TLAPS

(* What the routine still owes time_sleep: it has counted the press (at the *)
(* clear) and not yet made the step.                                        *)
Owing == ipc \in {"keyPrint", "keyBefore"}
RoutineOK ==
    /\ ipc = "keyClear" => edge_pin \subseteq edge_capture
    /\ ipc = "keyBefore" => Steps
    /\ Owing /\ edge_pin = {0} => StartSteps + 1 <= time_sleep + handled[0]
    /\ Owing /\ edge_pin = {1} => time_sleep + 1 <= StartSteps + handled[1]

(* Only what has a routine is enabled. *)
ControllerOK == ienable \subseteq registered

IInv == /\ TypeOK /\ DispatchFindsOne /\ NoPressTwice /\ SleepInReach
        /\ RoutineOK /\ ControllerOK

LEMMA InitIInv == Init => IInv
<1> SUFFICES ASSUME Init PROVE IInv
  OBVIOUS
<1>1. TypeOK
  <2>1. presses \in [Keys -> Nat] /\ handled \in [Keys -> Nat]
    BY DEF Init
  <2>2. time_sleep \in Nat /\ wfifo \in 0 .. FifoDepth
    BY KeysAssumption DEF Init
  <2>3. ienable \subseteq Irqs /\ registered \subseteq Irqs /\ active \subseteq Irqs
    BY DEF Init, Irqs
  <2>4. timeout \in BOOLEAN
    BY DEF Init
  <2> QED
    BY <2>1, <2>2, <2>3, <2>4 DEF Init, TypeOK
<1>2. NoPressTwice
  BY DEF Init, NoPressTwice, One, edge_detect, Keys
<1>3. SleepInReach /\ RoutineOK /\ DispatchFindsOne /\ ControllerOK
  BY KeysAssumption
  DEF Init, SleepInReach, RoutineOK, Owing, DispatchFindsOne, ControllerOK, Keys
<1> QED
  BY <1>1, <1>2, <1>3 DEF IInv

---------------------------------------------------------------------------
(* One clock of the PIO. *)

LEMMA PioTypes ==
  ASSUME TypeOK, NEW s, PioClock(s)
  PROVE  /\ in_port' \subseteq Keys /\ d1' \subseteq Keys /\ d2' \subseteq Keys
         /\ edge_capture' \subseteq Keys
         /\ presses' \in [Keys -> Nat]
<1>1. /\ d1' \subseteq Keys /\ d2' \subseteq Keys /\ edge_capture' \subseteq Keys
  BY DEF PioClock, EdgeCapture, edge_detect, TypeOK
<1>2. in_port' \subseteq Keys /\ presses' \in [Keys -> Nat]
  BY DEF PioClock, Buttons, TypeOK
<1> QED
  BY <1>1, <1>2

LEMMA TimerTypes == TypeOK /\ TimerTicks => timeout' \in BOOLEAN
BY DEF TypeOK, TimerTicks

(* A clock moves each press on by one place: from the button to the first   *)
(* sample, to the edge detector, to the capture register.                   *)
LEMMA PressesMoveOn ==
  ASSUME TypeOK, NEW s, PioClock(s), NEW k \in Keys
  PROVE  /\ presses'[k] = presses[k] + One(k \in in_port \ in_port')
         /\ (k \in d1' \ in_port') <=> (k \in in_port \ in_port')
         /\ (k \in edge_detect') <=> (k \in d1 \ in_port)
         /\ s = FALSE => (k \in edge_capture' <=> k \in edge_capture \cup edge_detect)
         /\ s = TRUE => k \notin edge_capture'
<1>1. /\ (k \in d1' \ in_port') <=> (k \in in_port \ in_port')
      /\ (k \in edge_detect') <=> (k \in d1 \ in_port)
      /\ s = FALSE => (k \in edge_capture' <=> k \in edge_capture \cup edge_detect)
      /\ s = TRUE => k \notin edge_capture'
  BY DEF PioClock, EdgeCapture, edge_detect
<1>2. presses'[k] = presses[k] + One(k \in in_port \ in_port')
  <2>1. PICK moved \in SUBSET {j \in Keys : MayMove(j)} :
          /\ in_port' = (in_port \ moved) \cup (moved \ in_port)
          /\ presses' = [j \in Keys |-> IF j \in moved \cap in_port
                                        THEN presses[j] + 1 ELSE presses[j]]
    BY DEF PioClock, Buttons
  <2>2. k \in in_port \ in_port' <=> k \in moved \cap in_port
    BY <2>1
  <2>3. presses'[k] = IF k \in moved \cap in_port THEN presses[k] + 1 ELSE presses[k]
    BY <2>1
  <2> QED
    BY <2>2, <2>3 DEF One, TypeOK
<1> QED
  BY <1>1, <1>2

LEMMA QuietClock ==
  ASSUME TypeOK, NoPressTwice, PioClock(FALSE), handled' = handled
  PROVE  NoPressTwice'
<1> SUFFICES ASSUME NEW k \in Keys
             PROVE  handled[k] + One(k \in edge_capture') + One(k \in edge_detect')
                      + One(k \in d1' \ in_port') <= presses'[k]
  BY DEF NoPressTwice
<1>1. /\ presses'[k] = presses[k] + One(k \in in_port \ in_port')
      /\ (k \in d1' \ in_port') <=> (k \in in_port \ in_port')
      /\ (k \in edge_detect') <=> (k \in d1 \ in_port)
      /\ k \in edge_capture' <=> k \in edge_capture \cup edge_detect
  BY PressesMoveOn
<1>2. handled[k] \in Nat /\ presses[k] \in Nat
  BY DEF TypeOK
<1>3. handled[k] + One(k \in edge_capture) + One(k \in edge_detect)
        + One(k \in d1 \ in_port) <= presses[k]
  BY DEF NoPressTwice
<1> QED
  BY <1>1, <1>2, <1>3 DEF One

LEMMA StrobeClock ==
  ASSUME TypeOK, NoPressTwice, PioClock(TRUE),
         NEW S, S \subseteq edge_capture,
         handled' = [k \in Keys |-> IF k \in S THEN handled[k] + 1 ELSE handled[k]]
  PROVE  NoPressTwice'
<1> SUFFICES ASSUME NEW k \in Keys
             PROVE  handled'[k] + One(k \in edge_capture') + One(k \in edge_detect')
                      + One(k \in d1' \ in_port') <= presses'[k]
  BY DEF NoPressTwice
<1>1. /\ presses'[k] = presses[k] + One(k \in in_port \ in_port')
      /\ (k \in d1' \ in_port') <=> (k \in in_port \ in_port')
      /\ (k \in edge_detect') <=> (k \in d1 \ in_port)
      /\ k \notin edge_capture'
  BY PressesMoveOn
<1>2. handled[k] \in Nat /\ presses[k] \in Nat
  BY DEF TypeOK
<1>3. handled[k] + One(k \in edge_capture) + One(k \in edge_detect)
        + One(k \in d1 \ in_port) <= presses[k]
  BY DEF NoPressTwice
<1>4. handled'[k] <= handled[k] + One(k \in edge_capture) /\ handled'[k] \in Nat
  BY <1>2 DEF One
<1> QED
  BY <1>1, <1>2, <1>3, <1>4 DEF One

(* Nothing that is pending goes away in a clock without a strobe. *)
LEMMA PendingGrows ==
  ASSUME TypeOK, PioClock(FALSE), TimerTicks,
         irq_mask' = irq_mask, ienable' = ienable
  PROVE  Pending \subseteq Pending'
<1>1. edge_capture \subseteq edge_capture'
  BY DEF PioClock, EdgeCapture
<1>2. timeout => timeout'
  BY DEF TimerTicks, TypeOK
<1>3. pio_irq => pio_irq'
  BY <1>1 DEF pio_irq
<1> QED
  BY <1>2, <1>3 DEF Pending

---------------------------------------------------------------------------
(* The hardware's part of a step, whatever the processor does in it. *)

Clock == /\ \E s \in BOOLEAN : PioClock(s)
         /\ TimerTicks \/ timeout' = FALSE

LEMMA ClockTypes ==
  ASSUME TypeOK, Clock
  PROVE  /\ in_port' \subseteq Keys /\ d1' \subseteq Keys /\ d2' \subseteq Keys
         /\ edge_capture' \subseteq Keys /\ presses' \in [Keys -> Nat]
         /\ timeout' \in BOOLEAN
BY PioTypes, TimerTypes DEF Clock

LEMMA NextClock == Next => Clock
BY DEF Next, InitStep, Dispatch, KeyRoutine, Clock, Hello, SetMask, ClearEdges,
       Register, Ready, Exception, ReadPending, Scan, TimerRoutine, KeyRead,
       KeyClear, KeyPrint, KeyStep, KeyDone, Stall, HostReads

LEMMA PrintFits == TypeOK /\ PutMessage => wfifo' \in 0 .. FifoDepth
BY KeysAssumption DEF TypeOK, PutMessage

LEMMA StepTypeOK == IInv /\ [Next]_vars => TypeOK'
<1> SUFFICES ASSUME IInv, [Next]_vars PROVE TypeOK'
  OBVIOUS
<1>0. TypeOK /\ RoutineOK /\ ControllerOK
  BY DEF IInv
<1>1. CASE UNCHANGED vars
  BY <1>0, <1>1 DEF TypeOK, vars, pioVars, cpuVars
<1>2. CASE Next
  <2>1. /\ in_port' \subseteq Keys /\ d1' \subseteq Keys /\ d2' \subseteq Keys
        /\ edge_capture' \subseteq Keys /\ presses' \in [Keys -> Nat]
        /\ timeout' \in BOOLEAN
    BY <1>0, <1>2, NextClock, ClockTypes
  <2> SUFFICES /\ irq_mask' \subseteq Keys /\ edge_pin' \subseteq Keys
               /\ context' \subseteq Keys /\ global_edge_capture' \subseteq Keys
               /\ ienable' \subseteq Irqs /\ registered' \subseteq Irqs
               /\ active' \subseteq Irqs
               /\ wfifo' \in 0 .. FifoDepth
               /\ fpc' \in {"hello", "mask", "clear", "register", "ready", "loop"}
               /\ ipc' \in {"off", "entry", "pending", "scan", "timer", "keyRead",
                            "keyClear", "keyPrint", "keyBefore", "keyAfter"}
               /\ time_sleep' \in Nat /\ handled' \in [Keys -> Nat]
    BY <2>1 DEF TypeOK
  <2>3. CASE Hello
    BY <1>0, <2>3, PrintFits DEF Hello, Foreground, TypeOK
  <2>4. CASE SetMask
    BY <1>0, <2>4 DEF SetMask, Foreground, TypeOK
  <2>5. CASE ClearEdges
    BY <1>0, <2>5 DEF ClearEdges, Foreground, TypeOK
  <2>6. CASE Register
    BY <1>0, <2>6 DEF Register, Foreground, Irqs, TypeOK
  <2>7. CASE Ready
    BY <1>0, <2>7, PrintFits DEF Ready, Foreground, TypeOK
  <2>8. CASE Exception
    BY <1>0, <2>8 DEF Exception, TypeOK
  <2>9. CASE ReadPending
    BY <1>0, <2>9 DEF ReadPending, Pending, TypeOK
  <2>10. CASE Scan
    BY <1>0, <2>10 DEF Scan, TypeOK
  <2>11. CASE TimerRoutine
    BY <1>0, <2>11 DEF TimerRoutine, TypeOK
  <2>12. CASE KeyRead
    BY <1>0, <2>12 DEF KeyRead, TypeOK
  <2>13. CASE KeyClear
    BY <1>0, <2>13 DEF KeyClear, TypeOK
  <2>14. CASE KeyPrint
    BY <1>0, <2>14, PrintFits DEF KeyPrint, TypeOK
  <2>15. CASE KeyStep
    <3>1. edge_pin = {0} => time_sleep # 0
      BY <1>0, <2>15 DEF KeyStep, RoutineOK, Steps
    <3>2. time_sleep' \in Nat
      BY <1>0, <2>15, <3>1 DEF KeyStep, TypeOK
    <3> QED
      BY <1>0, <2>15, <3>2, PrintFits DEF KeyStep, TypeOK
  <2>16. CASE KeyDone
    BY <1>0, <2>16, PrintFits DEF KeyDone, TypeOK
  <2>17. CASE Stall
    BY <1>0, <2>17 DEF Stall, cpuVars, TypeOK
  <2>18. CASE HostReads
    <3>1. wfifo' \in 0 .. FifoDepth
      BY <1>0, <2>18, KeysAssumption DEF HostReads, TypeOK
    <3> QED
      BY <1>0, <2>18, <3>1 DEF HostReads, cpuVars, TypeOK
  <2> QED
    BY <1>2, <2>3, <2>4, <2>5, <2>6, <2>7, <2>8, <2>9, <2>10,
       <2>11, <2>12, <2>13, <2>14, <2>15, <2>16, <2>17, <2>18
    DEF Next, InitStep, Dispatch, KeyRoutine
<1> QED
  BY <1>1, <1>2

(* Only the clear of init and that of the routine strobe the register. *)
LEMMA StepNoPressTwice == IInv /\ [Next]_vars => NoPressTwice'
<1> SUFFICES ASSUME IInv, [Next]_vars PROVE NoPressTwice'
  OBVIOUS
<1>0. TypeOK /\ NoPressTwice /\ RoutineOK
  BY DEF IInv
<1>1. CASE PioClock(FALSE) /\ handled' = handled
  BY <1>0, <1>1, QuietClock
<1>2. CASE ClearEdges
  <2> DEFINE none == {k \in edge_capture : FALSE}
  <2>1. handled' = [k \in Keys |-> IF k \in none THEN handled[k] + 1 ELSE handled[k]]
    BY <1>0, <1>2 DEF ClearEdges, TypeOK
  <2>2. PioClock(TRUE) /\ none \subseteq edge_capture
    BY <1>2 DEF ClearEdges
  <2> HIDE DEF none
  <2> QED
    BY <1>0, <2>1, <2>2, StrobeClock
<1>3. CASE KeyClear
  <2>1. edge_pin \subseteq edge_capture
    BY <1>0, <1>3 DEF KeyClear, RoutineOK
  <2> QED
    BY <1>0, <1>3, <2>1, StrobeClock DEF KeyClear
<1>4. CASE UNCHANGED vars
  BY <1>0, <1>4 DEF vars, pioVars, cpuVars, NoPressTwice, edge_detect
<1>5. Next => ClearEdges \/ KeyClear \/ (PioClock(FALSE) /\ handled' = handled)
  BY DEF Next, InitStep, Dispatch, KeyRoutine, Hello, SetMask, Register, Ready,
         Exception, ReadPending, Scan, TimerRoutine, KeyRead, KeyPrint, KeyStep,
         KeyDone, Stall, HostReads, cpuVars
<1> QED
  BY <1>1, <1>2, <1>3, <1>4, <1>5

(* While the dispatcher is on its way to its scan, no clear is, so what     *)
(* was pending still is when it looks.                                      *)
LEMMA StepDispatch == IInv /\ [Next]_vars => (DispatchFindsOne /\ ControllerOK)'
<1> SUFFICES ASSUME IInv, [Next]_vars PROVE (DispatchFindsOne /\ ControllerOK)'
  OBVIOUS
<1>0. TypeOK /\ DispatchFindsOne /\ ControllerOK
  BY DEF IInv
<1>1. ControllerOK'
  BY <1>0 DEF ControllerOK, Next, InitStep, Dispatch, KeyRoutine, Hello, SetMask,
         ClearEdges, Register, Ready, Exception, ReadPending, Scan, TimerRoutine,
         KeyRead, KeyClear, KeyPrint, KeyStep, KeyDone, Stall, HostReads,
         vars, pioVars, cpuVars
<1>2. Pending' \subseteq ienable'
  BY DEF Pending
<1>3. CASE ipc' = "entry"
  <2>1. CASE UNCHANGED vars
    <3>1. Pending' = Pending
      BY <2>1 DEF Pending, pio_irq, vars, pioVars, cpuVars
    <3>2. ipc = "entry" /\ registered' = registered
      BY <1>3, <2>1 DEF vars, cpuVars
    <3>3. Pending # {} /\ Pending \subseteq registered
      BY <1>0, <3>2 DEF DispatchFindsOne
    <3> QED
      BY <1>1, <1>3, <3>1, <3>2, <3>3 DEF DispatchFindsOne
  <2>2. CASE Exception \/ (ipc = "entry" /\ (Stall \/ HostReads))
    <3>1. Pending # {} /\ Pending \subseteq Pending'
      <4>1. Pending # {}
        BY <1>0, <2>2 DEF Exception, DispatchFindsOne
      <4>2. PioClock(FALSE) /\ TimerTicks /\ UNCHANGED <<irq_mask, ienable>>
        BY <2>2 DEF Exception, Stall, HostReads, cpuVars
      <4> QED
        BY <1>0, <4>1, <4>2, PendingGrows
    <3> QED
      BY <1>1, <1>2, <1>3, <3>1 DEF DispatchFindsOne, ControllerOK
  <2>3. Next => Exception \/ (ipc = "entry" /\ (Stall \/ HostReads))
    BY <1>3 DEF Next, InitStep, Dispatch, KeyRoutine, Hello, SetMask,
         ClearEdges, Register, Ready, ReadPending, Scan, TimerRoutine, Foreground,
         KeyRead, KeyClear, KeyPrint, KeyStep, KeyDone, Stall, HostReads, cpuVars
  <2> QED
    BY <2>1, <2>2, <2>3
<1>4. CASE ipc' = "scan"
  <2>1. CASE ReadPending
    <3>1. active' = Pending /\ Pending # {} /\ Pending \subseteq ienable
      BY <1>0, <1>4, <2>1 DEF ReadPending, DispatchFindsOne, Pending
    <3>2. registered' = registered
      BY <2>1 DEF ReadPending
    <3>3. active' # {} /\ active' \subseteq registered'
      BY <1>0, <3>1, <3>2 DEF ControllerOK
    <3> QED
      BY <1>1, <1>4, <3>3 DEF DispatchFindsOne
  <2>2. CASE ipc = "scan" /\ UNCHANGED <<active, registered>>
    <3>1. active # {} /\ active \subseteq registered
      BY <1>0, <2>2 DEF DispatchFindsOne
    <3>2. active' # {} /\ active' \subseteq registered'
      BY <2>2, <3>1
    <3> QED
      BY <1>1, <1>4, <3>2 DEF DispatchFindsOne
  <2>3. ReadPending \/ (ipc = "scan" /\ UNCHANGED <<active, registered>>)
    BY <1>4 DEF Next, InitStep, Dispatch, KeyRoutine, Hello, SetMask,
         ClearEdges, Register, Ready, Scan, TimerRoutine, Foreground, Exception,
         KeyRead, KeyClear, KeyPrint, KeyStep, KeyDone, Stall, HostReads, cpuVars,
         vars
  <2> QED
    BY <2>1, <2>2, <2>3
<1>5. CASE ipc' \notin {"entry", "scan"}
  BY <1>1, <1>5 DEF DispatchFindsOne
<1> QED
  BY <1>1, <1>3, <1>4, <1>5

(* time_sleep is stepped once for the press that was counted, and a step    *)
(* down is made only from a positive value.                                 *)
LEMMA StepRoutine == IInv /\ [Next]_vars => (RoutineOK /\ SleepInReach)'
<1> SUFFICES ASSUME IInv, [Next]_vars PROVE (RoutineOK /\ SleepInReach)'
  OBVIOUS
<1>0. TypeOK /\ RoutineOK /\ SleepInReach
  BY DEF IInv
<1>00. /\ time_sleep \in Nat /\ StartSteps \in Nat
       /\ handled[0] \in Nat /\ handled[1] \in Nat
  BY <1>0, KeysAssumption DEF TypeOK, Keys
<1>1. ASSUME UNCHANGED <<ipc, edge_pin, time_sleep, handled>>,
             edge_capture \subseteq edge_capture' \/ ipc # "keyClear"
      PROVE  (RoutineOK /\ SleepInReach)'
  BY <1>0, <1>1 DEF RoutineOK, SleepInReach, Owing, Steps
<1>2. ASSUME ipc' \notin {"keyClear", "keyPrint", "keyBefore"},
             UNCHANGED <<time_sleep, handled>>
      PROVE  (RoutineOK /\ SleepInReach)'
  BY <1>0, <1>2 DEF RoutineOK, SleepInReach, Owing
<1>3. CASE UNCHANGED vars
  BY <1>1, <1>3 DEF vars, pioVars, cpuVars
<1>4. CASE InitStep \/ Exception \/ ReadPending \/ Scan \/ TimerRoutine \/ KeyDone
  <2>1. ipc' \notin {"keyClear", "keyPrint", "keyBefore"}
    BY <1>4 DEF InitStep, Hello, SetMask, ClearEdges, Register, Ready, Foreground,
                Exception, ReadPending, Scan, TimerRoutine, KeyDone
  <2>2. UNCHANGED <<time_sleep, handled>>
    BY <1>4 DEF InitStep, Hello, SetMask, ClearEdges, Register, Ready,
                Exception, ReadPending, Scan, TimerRoutine, KeyDone
  <2> QED
    BY <1>2, <2>1, <2>2
<1>5. CASE Stall \/ HostReads
  <2>1. PioClock(FALSE) /\ UNCHANGED cpuVars
    BY <1>5 DEF Stall, HostReads
  <2>2. edge_capture \subseteq edge_capture'
    BY <2>1 DEF PioClock, EdgeCapture
  <2> QED
    BY <1>1, <2>1, <2>2 DEF cpuVars
<1>6. CASE KeyRead
  <2>1. edge_pin' = edge_capture /\ edge_capture \subseteq edge_capture'
    BY <1>6 DEF KeyRead, PioClock, EdgeCapture
  <2> QED
    BY <1>0, <1>6, <2>1 DEF KeyRead, RoutineOK, SleepInReach, Owing
<1>7. CASE KeyClear
  <2>1. /\ ipc' = "keyPrint" /\ edge_pin' = edge_pin /\ time_sleep' = time_sleep
        /\ handled'[0] = IF 0 \in edge_pin THEN handled[0] + 1 ELSE handled[0]
        /\ handled'[1] = IF 1 \in edge_pin THEN handled[1] + 1 ELSE handled[1]
    BY <1>7 DEF KeyClear, Keys
  <2>2. SleepInReach'
    BY <1>0, <1>00, <2>1 DEF SleepInReach
  <2>3. edge_pin = {0} => StartSteps + 1 <= time_sleep + handled'[0]
    BY <1>0, <1>00, <2>1 DEF SleepInReach
  <2>4. edge_pin = {1} => time_sleep + 1 <= StartSteps + handled'[1]
    BY <1>0, <1>00, <2>1 DEF SleepInReach
  <2> QED
    BY <2>1, <2>2, <2>3, <2>4 DEF RoutineOK
<1>8. CASE KeyPrint
  <2>1. /\ ipc = "keyPrint" /\ ipc' = IF Steps THEN "keyBefore" ELSE "pending"
        /\ UNCHANGED <<edge_pin, time_sleep, handled>>
    BY <1>8 DEF KeyPrint
  <2> QED
    BY <1>0, <2>1 DEF RoutineOK, SleepInReach, Owing, Steps
<1>9. CASE KeyStep
  <2>1. /\ ipc = "keyBefore" /\ ipc' = "keyAfter" /\ handled' = handled
        /\ time_sleep' = IF edge_pin = {0} THEN time_sleep - 1 ELSE time_sleep + 1
    BY <1>9 DEF KeyStep
  <2>2. edge_pin = {0} => StartSteps + 1 <= time_sleep + handled[0]
    BY <1>0, <2>1 DEF RoutineOK, Owing
  <2>3. edge_pin # {0} => time_sleep + 1 <= StartSteps + handled[1]
    BY <1>0, <2>1 DEF RoutineOK, Owing, Steps
  <2>4. SleepInReach'
    <3>1. CASE edge_pin = {0}
      BY <1>0, <1>00, <2>1, <2>2, <3>1 DEF SleepInReach
    <3>2. CASE edge_pin # {0}
      BY <1>0, <1>00, <2>1, <2>3, <3>2 DEF SleepInReach
    <3> QED
      BY <3>1, <3>2
  <2> QED
    BY <2>1, <2>4 DEF RoutineOK, Owing
<1> QED
  BY <1>3, <1>4, <1>5, <1>6, <1>7, <1>8, <1>9 DEF Next, Dispatch, KeyRoutine

---------------------------------------------------------------------------
(* The theorems. *)

LEMMA Inductive == Spec => []IInv
<1>1. IInv /\ [Next]_vars => IInv'
  BY StepTypeOK, StepNoPressTwice, StepDispatch, StepRoutine DEF IInv
<1> QED
  BY <1>1, InitIInv, PTL DEF Spec

(* Registers and variables stay in range; time_sleep never goes below zero  *)
(* (main.c:40-44).                                                          *)
THEOREM TypeCorrect == Spec => []TypeOK
<1>1. IInv => TypeOK
  BY DEF IInv
<1> QED
  BY <1>1, Inductive, PTL

(* The scan of alt_irq_handler always finds a bit, with a routine behind it *)
(* (alt_irq_handler.c:141-155).                                             *)
THEOREM DispatcherNeverLost == Spec => []DispatchFindsOne
<1>1. IInv => DispatchFindsOne
  BY DEF IInv
<1> QED
  BY <1>1, Inductive, PTL

(* A press is handled at most once (main.c:19-25).                          *)
THEOREM PressCountsOnce == Spec => []NoPressTwice
<1>1. IInv => NoPressTwice
  BY DEF IInv
<1> QED
  BY <1>1, Inductive, PTL

(* time_sleep moves by the handled presses only (main.c:40-49).             *)
THEOREM SleepFollowsPresses == Spec => []SleepInReach
<1>1. IInv => SleepInReach
  BY DEF IInv
<1> QED
  BY <1>1, Inductive, PTL
=============================================================================
