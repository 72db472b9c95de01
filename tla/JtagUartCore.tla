---------------------------- MODULE JtagUartCore ----------------------------
(***************************************************************************)
(* The JTAG UART slave of HostSystem_jtag_uart.v: two FIFOs between the    *)
(* Avalon bus and the JTAG host, two interrupt enables, the pause          *)
(* interrupt and the activity bit.  The register pipeline (fifo_wr,        *)
(* fifo_AE, fifo_AF are one clock late) is abstracted: a bus access takes  *)
(* effect in one step.  The host side of the FIFOs is the Atlantic link of *)
(* the FPGA vendor: external, any host behaviour allowed.                  *)
(*                                                                         *)
(* Bytes are numbered by their position in their stream.                   *)
(***************************************************************************)
EXTENDS Naturals, Sequences

CONSTANTS FifoDepth,       \* words of each hardware FIFO (64 in the code)
          AlmostLevel      \* the interrupt threshold (8 in the code)

ASSUME FifoAssumption ==
    /\ FifoDepth \in Nat /\ AlmostLevel \in Nat
    /\ AlmostLevel < FifoDepth

VARIABLES wfifo,      \* bytes on their way to the host
          rfifo,      \* bytes from the host not yet read
          ien_AE,     \* write-interrupt enable
          ien_AF,     \* read-interrupt enable
          pause_irq,  \* the host paused with bytes in rfifo
          ac,         \* the host was active since the bit was cleared
          connected,  \* a host terminal is attached
          hostSent,   \* how many bytes the host has put into rfifo
          hostGot     \* every byte the host has taken from wfifo, in order

coreVars == <<wfifo, rfifo, ien_AE, ien_AF, pause_irq, ac, connected,
              hostSent, hostGot>>
hostVars == <<connected, hostSent, hostGot>>

CoreInit ==
    /\ wfifo = <<>> /\ rfifo = <<>>
    /\ ien_AE = FALSE /\ ien_AF = FALSE
    /\ pause_irq = FALSE /\ ac = FALSE
    /\ connected = TRUE
    /\ hostSent = 0 /\ hostGot = <<>>

---------------------------------------------------------------------------
(* What a bus access sees. *)

WSpace  == FifoDepth - Len(wfifo)
ipen_AE == ien_AE /\ Len(wfifo) <= AlmostLevel
ipen_AF == ien_AF /\ (pause_irq \/ FifoDepth - Len(rfifo) <= AlmostLevel)
av_irq  == ipen_AE \/ ipen_AF

(* A write of the control register; clearAC is its bit 10. *)
WriteControl(re, we, clearAC) ==
    /\ ien_AF' = re /\ ien_AE' = we
    /\ ac' = (ac /\ ~clearAC)
    /\ UNCHANGED <<wfifo, rfifo, pause_irq, hostVars>>

(* A write of the data register: a full FIFO drops the byte (woverflow). *)
WriteData(b) ==
    /\ wfifo' = IF Len(wfifo) < FifoDepth THEN Append(wfifo, b) ELSE wfifo
    /\ UNCHANGED <<rfifo, ien_AE, ien_AF, pause_irq, ac, hostVars>>

(* A read of the data register pops rfifo, if it can, and ends a pause. *)
ReadData ==
    /\ rfifo' = IF rfifo = <<>> THEN rfifo ELSE Tail(rfifo)
    /\ pause_irq' = FALSE
    /\ UNCHANGED <<wfifo, ien_AE, ien_AF, ac, hostVars>>

---------------------------------------------------------------------------
(* The host. *)

HostTake ==
    /\ connected /\ wfifo # <<>>
    /\ hostGot' = Append(hostGot, Head(wfifo))
    /\ wfifo' = Tail(wfifo)
    /\ UNCHANGED <<rfifo, ien_AE, ien_AF, pause_irq, ac, connected, hostSent>>

HostPut ==
    /\ connected /\ Len(rfifo) < FifoDepth
    /\ rfifo' = Append(rfifo, hostSent + 1)
    /\ hostSent' = hostSent + 1
    /\ ac' = TRUE
    /\ UNCHANGED <<wfifo, ien_AE, ien_AF, pause_irq, connected, hostGot>>

(* t_pause: sets the interrupt only when the read FIFO is not empty. *)
HostPause ==
    /\ connected
    /\ ac' = TRUE
    /\ pause_irq' = (pause_irq \/ rfifo # <<>>)
    /\ UNCHANGED <<wfifo, rfifo, ien_AE, ien_AF, hostVars>>

HostPlug ==
    /\ connected' = ~connected
    /\ UNCHANGED <<wfifo, rfifo, ien_AE, ien_AF, pause_irq, ac, hostSent,
                   hostGot>>
=============================================================================
