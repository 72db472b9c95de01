-------------------------------- MODULE Keys --------------------------------
(***************************************************************************)
(* The push buttons of nios2leds: the edge-capturing PIO of                *)
(* HostSystem_key_pio.v, the interrupt dispatcher alt_irq_handler, and     *)
(* init and handle_key_interrupts of main.c.                               *)
(*                                                                         *)
(* A step is one clock of the PIO.  In it the processor makes at most one  *)
(* of its accesses (it may stall), the buttons may move, the timer may     *)
(* time out and the host may take a byte.  A set of keys stands for a      *)
(* two-bit register: the bits that are 1.  Definitions named Bug... are     *)
(* mutations of the definition after them.                                 *)
(*                                                                         *)
(* The committed main.c has a main that does not call init; the logbook has *)
(* one that does.  The module models init and what it sets going.         *)
(***************************************************************************)
EXTENDS Naturals, FiniteSets

CONSTANTS StartSteps,   \* time_sleep at start, in its steps of 10000 (5)
          FifoDepth,    \* messages the JTAG UART holds for the host
          MaxPress      \* bound: how often each key is pressed

ASSUME KeysAssumption ==
    /\ StartSteps \in Nat
    /\ FifoDepth \in Nat \ {0}
    /\ MaxPress \in Nat

Keys     == {0, 1}
TIMER    == 0            \* interrupt numbers: system.h
KEY_PIO  == 3
Irqs     == {TIMER, KEY_PIO}

VARIABLES
    in_port, d1, d2, edge_capture, irq_mask,      \* the PIO
    timeout,                                      \* the timer's TO bit
    ienable, registered,                          \* interrupt controller
    wfifo,                                        \* messages in the UART
    fpc, ipc, active,                             \* foreground; dispatcher
    edge_pin, context, global_edge_capture,       \* handle_key_interrupts
    time_sleep,
    presses, handled                              \* history, per key

pioVars == <<in_port, d1, d2, edge_capture, presses>>
cpuVars == <<irq_mask, ienable, registered, fpc, ipc, active, edge_pin,
             context, global_edge_capture, time_sleep, handled>>
vars == <<pioVars, cpuVars, timeout, wfifo>>

Init ==
    /\ in_port = Keys /\ d1 = {} /\ d2 = {}
    /\ edge_capture = {} /\ irq_mask = {}
    /\ timeout = FALSE
    /\ ienable = {TIMER} /\ registered = {TIMER}
    /\ wfifo = 0
    /\ fpc = "hello" /\ ipc = "off" /\ active = {}
    /\ edge_pin = {} /\ context = {} /\ global_edge_capture = {}
    /\ time_sleep = StartSteps
    /\ presses = [k \in Keys |-> 0] /\ handled = [k \in Keys |-> 0]

---------------------------------------------------------------------------
(* The hardware around the processor. *)

(* The debouncer works in one direction: it shows the 0 of a pressed key    *)
(* after TIMEOUT clocks, when the PIO's samples have long seen the 1, and   *)
(* the 1 of a released key at once.                                         *)
MayMove(k) == k \in in_port => k \in d1 /\ k \in d2

Buttons ==
    \E moved \in SUBSET {k \in Keys : MayMove(k)} :
        LET pressed == moved \cap in_port IN
        /\ \A k \in pressed : presses[k] < MaxPress
        /\ in_port' = (in_port \ moved) \cup (moved \ in_port)
        /\ presses' = [k \in Keys |->
                          IF k \in pressed THEN presses[k] + 1 ELSE presses[k]]

edge_detect == d2 \ d1

(* A write strobe clears both bits, whatever the data, and beats an edge.  *)
EdgeCapture(strobe) ==
    edge_capture' = IF strobe THEN {} ELSE edge_capture \cup edge_detect

PioClock(strobe) ==
    /\ Buttons
    /\ d1' = in_port /\ d2' = d1
    /\ EdgeCapture(strobe)

pio_irq == edge_capture \cap irq_mask # {}

(* The timer's period is far longer than its interrupt routine. *)
TimerTicks ==
    IF ipc \in {"timer", "pending"} THEN UNCHANGED timeout
    ELSE timeout' \in {timeout, TRUE}

(* alt_irq_pending *)
Pending == ienable \cap
    ((IF timeout THEN {TIMER} ELSE {}) \cup (IF pio_irq THEN {KEY_PIO} ELSE {}))

(* The polled UART driver: a message waits for room. *)
PutMessage == wfifo < FifoDepth /\ wfifo' = wfifo + 1

---------------------------------------------------------------------------
(* init of main.c, and then nothing: the buttons do the work.              *)

Foreground(from, to) == fpc = from /\ ipc = "off" /\ fpc' = to

Hello ==
    /\ Foreground("hello", "mask")
    /\ PutMessage
    /\ PioClock(FALSE) /\ TimerTicks
    /\ UNCHANGED <<irq_mask, ienable, registered, ipc, active, edge_pin,
                   context, global_edge_capture, time_sleep, handled>>

BugMaskOneKey ==
    /\ Foreground("mask", "clear")
    /\ irq_mask' = {0}
    /\ PioClock(FALSE) /\ TimerTicks
    /\ UNCHANGED <<ienable, registered, wfifo, ipc, active, edge_pin,
                   context, global_edge_capture, time_sleep, handled>>

SetMask ==
    /\ Foreground("mask", "clear")
    /\ irq_mask' = Keys
    /\ PioClock(FALSE) /\ TimerTicks
    /\ UNCHANGED <<ienable, registered, wfifo, ipc, active, edge_pin,
                   context, global_edge_capture, time_sleep, handled>>

BugEnableBeforeHandler ==
    /\ Foreground("clear", "register")
    /\ ienable' = ienable \cup {KEY_PIO}
    /\ PioClock(FALSE) /\ TimerTicks
    /\ UNCHANGED <<irq_mask, registered, wfifo, ipc, active, edge_pin,
                   context, global_edge_capture, time_sleep, handled>>

ClearEdges ==
    /\ Foreground("clear", "register")
    /\ PioClock(TRUE) /\ TimerTicks
    /\ UNCHANGED <<irq_mask, ienable, registered, wfifo, ipc, active, edge_pin,
                   context, global_edge_capture, time_sleep, handled>>

(* alt_ic_isr_register: interrupts are off from the store of the handler to *)
(* the enabling of the interrupt, so the two are one step.                  *)
Register ==
    /\ Foreground("register", "ready")
    /\ registered' = registered \cup {KEY_PIO}
    /\ ienable' = ienable \cup {KEY_PIO}
    /\ PioClock(FALSE) /\ TimerTicks
    /\ UNCHANGED <<irq_mask, wfifo, ipc, active, edge_pin,
                   context, global_edge_capture, time_sleep, handled>>

Ready ==
    /\ Foreground("ready", "loop")
    /\ PutMessage
    /\ PioClock(FALSE) /\ TimerTicks
    /\ UNCHANGED <<irq_mask, ienable, registered, ipc, active, edge_pin,
                   context, global_edge_capture, time_sleep, handled>>

---------------------------------------------------------------------------
(* alt_irq_entry and alt_irq_handler *)

(* The exception entry looks at ipending first; the handler reads it again. *)
Exception ==
    /\ ipc = "off" /\ Pending # {}
    /\ ipc' = "entry"
    /\ PioClock(FALSE) /\ TimerTicks
    /\ UNCHANGED <<irq_mask, ienable, registered, wfifo, fpc, active, edge_pin,
                   context, global_edge_capture, time_sleep, handled>>

ReadPending ==
    /\ ipc \in {"entry", "pending"}
    /\ active' = Pending
    /\ ipc' = IF ipc = "pending" /\ Pending = {} THEN "off" ELSE "scan"
    /\ PioClock(FALSE) /\ TimerTicks
    /\ UNCHANGED <<irq_mask, ienable, registered, wfifo, fpc, edge_pin,
                   context, global_edge_capture, time_sleep, handled>>

(* The lowest bit of active chooses the routine.  With no bit set the scan  *)
(* never ends: there is no step.                                            *)
Scan ==
    /\ ipc = "scan" /\ active # {}
    /\ ipc' = IF TIMER \in active THEN "timer" ELSE "keyRead"
    /\ PioClock(FALSE) /\ TimerTicks
    /\ UNCHANGED <<irq_mask, ienable, registered, wfifo, fpc, active, edge_pin,
                   context, global_edge_capture, time_sleep, handled>>

(* alt_avalon_timer_sc_irq; this program starts no alarm. *)
TimerRoutine ==
    /\ ipc = "timer"
    /\ timeout' = FALSE
    /\ ipc' = "pending"
    /\ PioClock(FALSE)
    /\ UNCHANGED <<irq_mask, ienable, registered, wfifo, fpc, active, edge_pin,
                   context, global_edge_capture, time_sleep, handled>>

---------------------------------------------------------------------------
(* handle_key_interrupts *)

KeyRead ==
    /\ ipc = "keyRead"
    /\ edge_pin' = edge_capture
    /\ ipc' = "keyClear"
    /\ PioClock(FALSE) /\ TimerTicks
    /\ UNCHANGED <<irq_mask, ienable, registered, wfifo, fpc, active,
                   context, global_edge_capture, time_sleep, handled>>

BugKeyNoClear ==
    /\ ipc = "keyClear"
    /\ context' = edge_pin /\ global_edge_capture' = edge_pin
    /\ handled' = [k \in Keys |->
                      IF k \in edge_pin THEN handled[k] + 1 ELSE handled[k]]
    /\ ipc' = "keyPrint"
    /\ PioClock(FALSE) /\ TimerTicks
    /\ UNCHANGED <<irq_mask, ienable, registered, wfifo, fpc, active, edge_pin,
                   time_sleep>>

(* The two stores that follow the clear are to memory nobody else uses.    *)
KeyClear ==
    /\ ipc = "keyClear"
    /\ context' = edge_pin /\ global_edge_capture' = edge_pin
    /\ handled' = [k \in Keys |->
                      IF k \in edge_pin THEN handled[k] + 1 ELSE handled[k]]
    /\ ipc' = "keyPrint"
    /\ PioClock(TRUE) /\ TimerTicks
    /\ UNCHANGED <<irq_mask, ienable, registered, wfifo, fpc, active, edge_pin,
                   time_sleep>>

BugSteps == edge_pin = {0} \/ edge_pin = {1}
Steps == (edge_pin = {0} /\ time_sleep # 0) \/ edge_pin = {1}

KeyPrint ==
    /\ ipc = "keyPrint"
    /\ PutMessage
    /\ ipc' = IF Steps THEN "keyBefore" ELSE "pending"
    /\ PioClock(FALSE) /\ TimerTicks
    /\ UNCHANGED <<irq_mask, ienable, registered, fpc, active, edge_pin,
                   context, global_edge_capture, time_sleep, handled>>

BugKeyStepSwapped ==
    /\ ipc = "keyBefore"
    /\ PutMessage
    /\ time_sleep' = IF edge_pin = {1} THEN time_sleep - 1 ELSE time_sleep + 1
    /\ ipc' = "keyAfter"
    /\ PioClock(FALSE) /\ TimerTicks
    /\ UNCHANGED <<irq_mask, ienable, registered, fpc, active, edge_pin,
                   context, global_edge_capture, handled>>

(* "Before ..." is printed and the step made; both keys at once do nothing. *)
KeyStep ==
    /\ ipc = "keyBefore"
    /\ PutMessage
    /\ time_sleep' = IF edge_pin = {0} THEN time_sleep - 1 ELSE time_sleep + 1
    /\ ipc' = "keyAfter"
    /\ PioClock(FALSE) /\ TimerTicks
    /\ UNCHANGED <<irq_mask, ienable, registered, fpc, active, edge_pin,
                   context, global_edge_capture, handled>>

KeyDone ==
    /\ ipc = "keyAfter"
    /\ PutMessage
    /\ ipc' = "pending"
    /\ PioClock(FALSE) /\ TimerTicks
    /\ UNCHANGED <<irq_mask, ienable, registered, fpc, active, edge_pin,
                   context, global_edge_capture, time_sleep, handled>>

---------------------------------------------------------------------------
(* A clock in which the processor makes no access; the host may read. *)
Stall ==
    /\ PioClock(FALSE) /\ TimerTicks
    /\ UNCHANGED <<cpuVars, wfifo>>

HostReads ==
    /\ wfifo > 0 /\ wfifo' = wfifo - 1
    /\ PioClock(FALSE) /\ TimerTicks
    /\ UNCHANGED cpuVars

InitStep == Hello \/ SetMask \/ ClearEdges \/ Register \/ Ready
KeyRoutine == KeyRead \/ KeyClear \/ KeyPrint \/ KeyStep \/ KeyDone
Dispatch == Exception \/ ReadPending \/ Scan \/ TimerRoutine \/ KeyRoutine

Next == InitStep \/ Dispatch \/ Stall \/ HostReads

Spec == Init /\ [][Next]_vars

(* Stall lets the clock run while the processor waits.  The processor gets  *)
(* its accesses, and a terminal keeps reading.                              *)
FairSpec == Spec /\ WF_vars(InitStep) /\ WF_vars(Dispatch) /\ WF_vars(HostReads)

---------------------------------------------------------------------------
(* Properties *)

(* Registers and variables in range; time_sleep, an int that is decremented, *)
(* never goes below zero.                                                   *)
TypeOK ==
    /\ in_port \subseteq Keys /\ d1 \subseteq Keys /\ d2 \subseteq Keys
    /\ edge_capture \subseteq Keys /\ irq_mask \subseteq Keys
    /\ edge_pin \subseteq Keys /\ context \subseteq Keys
    /\ global_edge_capture \subseteq Keys
    /\ timeout \in BOOLEAN
    /\ ienable \subseteq Irqs /\ registered \subseteq Irqs /\ active \subseteq Irqs
    /\ wfifo \in 0 .. FifoDepth
    /\ fpc \in {"hello", "mask", "clear", "register", "ready", "loop"}
    /\ ipc \in {"off", "entry", "pending", "scan", "timer", "keyRead",
                "keyClear", "keyPrint", "keyBefore", "keyAfter"}
    /\ time_sleep \in Nat
    /\ presses \in [Keys -> Nat] /\ handled \in [Keys -> Nat]

(* alt_irq_handler scans active for a bit without an end test              *)
(* (alt_irq_handler.c:141-155): whenever it scans there must be one, and    *)
(* its routine must be installed.  It depends on the order of init.         *)
DispatchFindsOne ==
    ipc \in {"entry", "scan"} =>
        /\ ipc = "scan" => active # {} /\ active \subseteq registered
        /\ ipc = "entry" => Pending # {} /\ Pending \subseteq registered

One(b) == IF b THEN 1 ELSE 0

(* No press counts twice: what was handled, what is captured and what is on *)
(* its way through the two samples never exceeds what was pressed.          *)
NoPressTwice ==
    \A k \in Keys :
        handled[k] + One(k \in edge_capture)
                   + One(k \in edge_detect) + One(k \in d1 \ in_port)
            <= presses[k]

(* time_sleep is what the handled presses make it: it lies between the      *)
(* start less all presses of key 0 and the start plus all of key 1.         *)
SleepInReach ==
    /\ time_sleep <= StartSteps + handled[1]
    /\ StartSteps <= time_sleep + handled[0]

(* Once init has returned a captured edge is served and cleared, although   *)
(* the routine prints and the timer has priority.                           *)
EdgeServed ==
    \A k \in Keys : (fpc = "loop" /\ k \in edge_capture) ~> k \notin edge_capture

(* "we'll write the pin bit to the edge capture register.  It will then be  *)
(* reset" (main.c:23-24): a captured edge goes away only when the handler   *)
(* has read it and writes its bit.                                          *)
OnlyReadEdgesReset ==
    [][\A k \in edge_capture \ edge_capture' :
          fpc = "clear" \/ (ipc = "keyClear" /\ k \in edge_pin)]_vars
=============================================================================
