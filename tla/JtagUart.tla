------------------------------ MODULE JtagUart ------------------------------
(***************************************************************************)
(* The interrupt-driven JTAG UART driver of the HAL                        *)
(* (altera_avalon_jtag_uart_{init,read,write}.c) on top of the hardware of *)
(* JtagUartCore.  Three actors interleave:                                 *)
(*   - the foreground, the one thread of a program without an OS, which    *)
(*     calls write, read and close;                                        *)
(*   - the interrupt routine, and the once-a-second timeout alarm, which   *)
(*     stop the foreground between any two of its memory accesses and are  *)
(*     not themselves interrupted by software;                             *)
(*   - the host, at any time.                                              *)
(* The programs are built with -O0, so accesses happen in program order.   *)
(*                                                                         *)
(* The definitions named Bug... are wrong on purpose: each is a mutation   *)
(* of the definition after it, which the properties must tell apart.       *)
(***************************************************************************)
EXTENDS JtagUartCore, Integers

CONSTANTS BUF_LEN,     \* ALTERA_AVALON_JTAG_UART_BUF_LEN (2048)
          TIMEOUT,     \* ALTERA_AVALON_JTAG_UART_DEFAULT_TIMEOUT (10)
          INT_MAX,     \* the host_inactive counter stops at INT_MAX - 2
          Timeouts,    \* what ioctl is asked to set
          Counts,      \* the byte counts callers pass to write and read
          MaxTx,       \* bound: bytes ever accepted from the callers
          MaxRx        \* bound: bytes ever sent by the host

ASSUME DriverAssumption ==
    /\ BUF_LEN \in Nat /\ BUF_LEN > 1
    /\ TIMEOUT \in Nat /\ INT_MAX \in Nat /\ 0 < TIMEOUT /\ TIMEOUT <= INT_MAX - 2
    /\ Counts \subseteq Nat /\ Timeouts \subseteq Int
    /\ MaxTx \in Nat /\ MaxRx \in Nat

VARIABLES
    tx_buf, tx_in, tx_out, rx_buf, rx_in, rx_out,   \* the two rings
    irq_RE, irq_WE,                                 \* sp->irq_enable
    host_inactive, timeout,
    alarm,                                          \* the timeout alarm was started
    fpc, count, nonblock, in, out, n, i,            \* the foreground's call
    start, accepted,                                \* write: bytes taken in
    tmp, app,                                       \* read: bytes handed out
    ipc, ri, wi, space, ravail                      \* the interrupt routine

tx    == <<tx_buf, tx_in, tx_out>>
rx    == <<rx_buf, rx_in, rx_out>>
irq   == <<irq_RE, irq_WE>>
fgVars  == <<fpc, count, nonblock, in, out, n, i, start, accepted, tmp, app>>
isrVars == <<ipc, ri, wi, space, ravail>>
host  == <<host_inactive, timeout, alarm>>
vars == <<coreVars, tx, rx, irq, host, fgVars, isrVars>>

Slots   == 0 .. BUF_LEN - 1
BugIncNoWrap(k) == k + 1
Inc(k)  == (k + 1) % BUF_LEN

Init ==
    /\ CoreInit
    /\ tx_buf = [k \in Slots |-> 0] /\ tx_in = 0 /\ tx_out = 0
    /\ rx_buf = [k \in Slots |-> 0] /\ rx_in = 0 /\ rx_out = 0
    /\ irq_RE = FALSE /\ irq_WE = FALSE
    /\ host_inactive = 0 /\ timeout = TIMEOUT /\ alarm = FALSE
    /\ fpc = "init" /\ count = 0 /\ nonblock = FALSE
    /\ in = 0 /\ out = 0 /\ n = 0 /\ i = 0
    /\ start = 0 /\ accepted = 0 /\ tmp = <<>> /\ app = <<>>
    /\ ipc = "off" /\ ri = FALSE /\ wi = FALSE /\ space = 0 /\ ravail = FALSE

(* altera_avalon_jtag_uart_init: enable receive interrupts, install the    *)
(* interrupt routine and start the alarm; without one there is no timeout.  *)
(* fpc = "init" stands for "not installed yet".                            *)
DriverInit ==
    /\ fpc = "init"
    /\ irq_RE' = TRUE /\ UNCHANGED irq_WE
    /\ WriteControl(TRUE, irq_WE, FALSE)
    /\ host_inactive' = 0
    /\ \/ alarm' = TRUE /\ UNCHANGED timeout
       \/ alarm' = FALSE /\ timeout' = INT_MAX
    /\ fpc' = "idle"
    /\ UNCHANGED <<tx, rx, count, nonblock, in, out, n, i, start, accepted,
                   tmp, app, isrVars>>

(* The foreground runs only while no interrupt routine does. *)
Foreground(from) == fpc = from /\ ipc = "off"

GoTo(label) == fpc' = label

---------------------------------------------------------------------------
(* altera_avalon_jtag_uart_write *)

WriteCall ==
    /\ Foreground("idle")
    /\ \E c \in Counts, nb \in BOOLEAN :
          /\ accepted + c <= MaxTx
          /\ count' = c /\ nonblock' = nb
    /\ start' = accepted
    /\ out' = 0
    /\ GoTo("wLoad")
    /\ UNCHANGED <<coreVars, tx, rx, irq, host, in, n, i, accepted,
                   tmp, app, isrVars>>

BugWriteRoomNoGap(tin, tout) ==
    IF tin < tout THEN tout - tin ELSE BUF_LEN - tin

(* The contiguous room after in, which never lets in catch up with out. *)
WriteRoom(tin, tout) ==
    IF tin < tout THEN tout - 1 - tin
    ELSE IF tout > 0 THEN BUF_LEN - tin
    ELSE BUF_LEN - 1 - tin

AtMost(a, b) == IF a > b THEN b ELSE a

WriteLoad ==
    /\ Foreground("wLoad")
    /\ IF count = 0
       THEN /\ GoTo("wKick")
            /\ UNCHANGED <<in, out, n, i>>
       ELSE /\ in' = tx_in /\ out' = tx_out
            /\ n' = AtMost(WriteRoom(tx_in, tx_out), count)
            /\ i' = 0
            /\ IF WriteRoom(tx_in, tx_out) = 0
               THEN GoTo("wKick") ELSE GoTo("wCopy")
    /\ UNCHANGED <<coreVars, tx, rx, irq, host, count, nonblock,
                   start, accepted, tmp, app, isrVars>>

(* memcpy, a byte at a time, and then the one store that publishes them *)
WriteCopy ==
    /\ Foreground("wCopy") /\ i < n
    /\ tx_buf' = [tx_buf EXCEPT ![in + i] = accepted + i + 1]
    /\ i' = i + 1
    /\ UNCHANGED <<coreVars, tx_in, tx_out, rx, irq, host, fpc, count,
                   nonblock, in, out, n, start, accepted, tmp, app, isrVars>>

WritePublish ==
    /\ Foreground("wCopy") /\ i = n
    /\ accepted' = accepted + n
    /\ count' = count - n
    /\ tx_in' = (in + n) % BUF_LEN
    /\ GoTo("wLoad")
    /\ UNCHANGED <<coreVars, tx_buf, tx_out, rx, irq, host, nonblock,
                   in, out, n, i, start, tmp, app, isrVars>>

BugKickOnlyWhenFull ==
    /\ Foreground("wKick")
    /\ IF count > 0
       THEN irq_WE' = TRUE /\ UNCHANGED irq_RE /\ WriteControl(irq_RE, TRUE, FALSE)
       ELSE UNCHANGED <<irq, coreVars>>
    /\ IF count > 0 /\ ~nonblock THEN GoTo("wSpin") ELSE GoTo("wRet")
    /\ UNCHANGED <<tx, rx, host, count, nonblock, in, out, n, i,
                   start, accepted, tmp, app, isrVars>>

(* Interrupts are disabled around the update of irq_enable: one step. *)
WriteKick ==
    /\ Foreground("wKick")
    /\ irq_WE' = TRUE /\ UNCHANGED irq_RE
    /\ WriteControl(irq_RE, TRUE, FALSE)
    /\ IF count > 0 /\ ~nonblock THEN GoTo("wSpin") ELSE GoTo("wRet")
    /\ UNCHANGED <<tx, rx, host, count, nonblock, in, out, n, i,
                   start, accepted, tmp, app, isrVars>>

BugWriteSpinNoTimeout ==
    /\ Foreground("wSpin")
    /\ out # tx_out
    /\ GoTo("wCheck")
    /\ UNCHANGED <<coreVars, tx, rx, irq, host, count, nonblock, in,
                   out, n, i, start, accepted, tmp, app, isrVars>>

(* The spin loop ends when a byte left the ring or the host timed out ... *)
WriteSpin ==
    /\ Foreground("wSpin")
    /\ out # tx_out \/ host_inactive >= timeout
    /\ GoTo("wCheck")
    /\ UNCHANGED <<coreVars, tx, rx, irq, host, count, nonblock, in,
                   out, n, i, start, accepted, tmp, app, isrVars>>

(* ... and host_inactive, read once more, decides whether to go on. *)
WriteCheck ==
    /\ Foreground("wCheck")
    /\ IF host_inactive # 0 THEN GoTo("wRet") ELSE GoTo("wLoad")
    /\ UNCHANGED <<coreVars, tx, rx, irq, host, count, nonblock, in,
                   out, n, i, start, accepted, tmp, app, isrVars>>

(* write returns -EIO, or -EWOULDBLOCK to a nonblocking caller, when it     *)
(* has taken nothing, and else the number of bytes taken.                   *)
WriteFails == accepted = start

(* The foreground's locals die with the call. *)
Return ==
    /\ GoTo("idle")
    /\ count' = 0 /\ nonblock' = FALSE
    /\ in' = 0 /\ out' = 0 /\ n' = 0 /\ i' = 0 /\ tmp' = <<>>
    /\ start' = 0

WriteReturn ==
    /\ Foreground("wRet")
    /\ Return
    /\ UNCHANGED <<coreVars, tx, rx, irq, host, accepted, app,
                   isrVars>>

---------------------------------------------------------------------------
(* altera_avalon_jtag_uart_read *)

ReadCall ==
    /\ Foreground("idle")
    /\ \E c \in Counts, nb \in BOOLEAN :
          count' = c /\ nonblock' = nb
    /\ GoTo("rWhile")
    /\ UNCHANGED <<coreVars, tx, rx, irq, host, in, out, n, i, start,
                   accepted, tmp, app, isrVars>>

(* while (space > 0), reached from the call and from a fruitful wait *)
ReadWhile ==
    /\ Foreground("rWhile")
    /\ IF count > 0 THEN GoTo("rLoad") ELSE GoTo("rRet")
    /\ UNCHANGED <<coreVars, tx, rx, irq, host, count, nonblock, in,
                   out, n, i, start, accepted, tmp, app, isrVars>>

(* The contiguous bytes from out on. *)
ReadAvail(rin, rout) == IF rin >= rout THEN rin - rout ELSE BUF_LEN - rout

(* start doubles as "ptr # buffer": how many bytes this call has read. *)
ReadLoad ==
    /\ Foreground("rLoad")
    /\ in' = rx_in /\ out' = rx_out
    /\ n' = AtMost(ReadAvail(rx_in, rx_out), count)
    /\ i' = 0
    /\ IF ReadAvail(rx_in, rx_out) = 0 THEN GoTo("rEmpty") ELSE GoTo("rCopy")
    /\ UNCHANGED <<coreVars, tx, rx, irq, host, count, nonblock,
                   start, accepted, tmp, app, isrVars>>

ReadCopy ==
    /\ Foreground("rCopy") /\ i < n
    /\ tmp' = Append(tmp, rx_buf[out + i])
    /\ i' = i + 1
    /\ UNCHANGED <<coreVars, tx, rx, irq, host, fpc, count, nonblock,
                   in, out, n, start, accepted, app, isrVars>>

ReadPublish ==
    /\ Foreground("rCopy") /\ i = n
    /\ app' = app \o tmp /\ tmp' = <<>>
    /\ start' = start + n
    /\ count' = count - n
    /\ rx_out' = (out + n) % BUF_LEN
    /\ IF count' > 0 THEN GoTo("rLoad") ELSE GoTo("rRearm")
    /\ UNCHANGED <<coreVars, tx, rx_buf, rx_in, irq, host, nonblock,
                   in, out, n, i, accepted, isrVars>>

BugReadEmptyNoRearm ==
    /\ Foreground("rEmpty")
    /\ IF start > 0 \/ nonblock THEN GoTo("rRet") ELSE GoTo("rSpin")
    /\ UNCHANGED <<coreVars, tx, rx, irq, host, count, nonblock, in,
                   out, n, i, start, accepted, tmp, app, isrVars>>

ReadEmpty ==
    /\ Foreground("rEmpty")
    /\ IF start > 0 THEN GoTo("rRearm")
       ELSE IF nonblock THEN GoTo("rRet") ELSE GoTo("rSpin")
    /\ UNCHANGED <<coreVars, tx, rx, irq, host, count, nonblock, in,
                   out, n, i, start, accepted, tmp, app, isrVars>>

BugReadSpinNoTimeout ==
    /\ Foreground("rSpin")
    /\ in # rx_in
    /\ GoTo("rCheck")
    /\ UNCHANGED <<coreVars, tx, rx, irq, host, count, nonblock, in,
                   out, n, i, start, accepted, tmp, app, isrVars>>

ReadSpin ==
    /\ Foreground("rSpin")
    /\ in # rx_in \/ host_inactive >= timeout
    /\ GoTo("rCheck")
    /\ UNCHANGED <<coreVars, tx, rx, irq, host, count, nonblock, in,
                   out, n, i, start, accepted, tmp, app, isrVars>>

ReadCheck ==
    /\ Foreground("rCheck")
    /\ IF in = rx_in THEN GoTo("rRet") ELSE GoTo("rWhile")
    /\ UNCHANGED <<coreVars, tx, rx, irq, host, count, nonblock, in,
                   out, n, i, start, accepted, tmp, app, isrVars>>

(* Bytes were read, so there is room in the ring: interrupts on again. *)
ReadRearm ==
    /\ Foreground("rRearm")
    /\ irq_RE' = TRUE /\ UNCHANGED irq_WE
    /\ WriteControl(TRUE, irq_WE, FALSE)
    /\ GoTo("rRet")
    /\ UNCHANGED <<tx, rx, host, count, nonblock, in, out, n, i,
                   start, accepted, tmp, app, isrVars>>

ReadReturn ==
    /\ Foreground("rRet")
    /\ Return
    /\ UNCHANGED <<coreVars, tx, rx, irq, host, accepted, app,
                   isrVars>>

---------------------------------------------------------------------------
(* altera_avalon_jtag_uart_close: wait for the ring to drain.              *)

CloseCall ==
    /\ Foreground("idle")
    /\ nonblock' \in BOOLEAN
    /\ GoTo("cDrain")
    /\ UNCHANGED <<coreVars, tx, rx, irq, host, count, in, out, n, i,
                   start, accepted, tmp, app, isrVars>>

CloseDrain ==
    /\ Foreground("cDrain")
    /\ tx_out = tx_in \/ host_inactive >= timeout \/ nonblock
    /\ Return
    /\ UNCHANGED <<coreVars, tx, rx, irq, host, accepted, app,
                   isrVars>>

---------------------------------------------------------------------------
(* altera_avalon_jtag_uart_ioctl with TIOCSTIMEOUT: a value out of range    *)
(* asks for no timeout.  TIOCGCONNECTED changes nothing.                    *)

BugSetTimeout ==
    /\ Foreground("idle") /\ timeout # INT_MAX
    /\ \E v \in Timeouts : timeout' = IF v >= 2 THEN v ELSE INT_MAX - 1
    /\ UNCHANGED <<coreVars, tx, rx, irq, host_inactive, alarm, fgVars, isrVars>>

SetTimeout ==
    /\ Foreground("idle") /\ timeout # INT_MAX
    /\ \E v \in Timeouts : timeout' = IF v >= 2 /\ v < INT_MAX THEN v ELSE INT_MAX - 1
    /\ UNCHANGED <<coreVars, tx, rx, irq, host_inactive, alarm, fgVars, isrVars>>

---------------------------------------------------------------------------
(* altera_avalon_jtag_uart_irq *)

IsrEnter ==
    /\ ipc = "off" /\ fpc # "init" /\ av_irq
    /\ ipc' = "top"
    /\ UNCHANGED <<coreVars, tx, rx, irq, host, fgVars, ri, wi,
                   space, ravail>>

(* One read of the control register decides what this round serves. *)
IsrTop ==
    /\ ipc = "top"
    /\ ri' = ipen_AF /\ wi' = ipen_AE
    /\ space' = IF ipen_AE THEN WSpace ELSE 0
    /\ ravail' = ipen_AF
    /\ ipc' = IF ipen_AF THEN "rx" ELSE IF ipen_AE THEN "tx" ELSE "off"
    /\ UNCHANGED <<coreVars, tx, rx, irq, host, fgVars>>

(* No room in the ring: leave the byte in the FIFO. *)
IsrRxFull ==
    /\ ipc = "rx" /\ Inc(rx_in) = rx_out
    /\ ipc' = "rxEnd"
    /\ UNCHANGED <<coreVars, tx, rx, irq, host, fgVars, ri, wi,
                   space, ravail>>

BugRxByteNoRoomCheck ==
    /\ ipc = "rx" /\ rfifo # <<>>
    /\ ReadData
    /\ ravail' = (Len(rfifo) > 1)
    /\ rx_buf' = [rx_buf EXCEPT ![rx_in] = Head(rfifo)]
    /\ rx_in' = Inc(rx_in)
    /\ UNCHANGED <<tx, rx_out, irq, host, fgVars, ipc, ri, wi, space>>

IsrRxByte ==
    /\ ipc = "rx" /\ Inc(rx_in) # rx_out /\ rfifo # <<>>
    /\ ReadData
    /\ ravail' = (Len(rfifo) > 1)
    /\ rx_buf' = [rx_buf EXCEPT ![rx_in] = Head(rfifo)]
    /\ rx_in' = Inc(rx_in)
    /\ UNCHANGED <<tx, rx_out, irq, host, fgVars, ipc, ri, wi, space>>

(* A read without RVALID: the FIFO was empty. *)
IsrRxNone ==
    /\ ipc = "rx" /\ Inc(rx_in) # rx_out /\ rfifo = <<>>
    /\ ReadData
    /\ ravail' = FALSE
    /\ ipc' = "rxEnd"
    /\ UNCHANGED <<tx, rx, irq, host, fgVars, ri, wi, space>>

BugRxEndNoShadow ==
    /\ ipc = "rxEnd"
    /\ IF ravail THEN WriteControl(FALSE, irq_WE, FALSE)
                 ELSE UNCHANGED coreVars
    /\ ipc' = IF wi THEN "tx" ELSE "top"
    /\ UNCHANGED <<tx, rx, irq, host, fgVars, ri, wi, space, ravail>>

(* Data left behind means that the ring is full: receive interrupts off. *)
IsrRxEnd ==
    /\ ipc = "rxEnd"
    /\ IF ravail
       THEN irq_RE' = FALSE /\ UNCHANGED irq_WE /\ WriteControl(FALSE, irq_WE, FALSE)
       ELSE UNCHANGED <<irq, coreVars>>
    /\ ipc' = IF wi THEN "tx" ELSE "top"
    /\ UNCHANGED <<tx, rx, host, fgVars, ri, wi, space, ravail>>

IsrTxByte ==
    /\ ipc = "tx" /\ space > 0 /\ tx_out # tx_in
    /\ WriteData(tx_buf[tx_out])
    /\ tx_out' = Inc(tx_out)
    /\ space' = space - 1
    /\ UNCHANGED <<tx_buf, tx_in, rx, irq, host, fgVars, ipc, ri, wi,
                   ravail>>

BugTxEndAlwaysOff ==
    /\ ipc = "tx" /\ (space = 0 \/ tx_out = tx_in)
    /\ irq_WE' = FALSE /\ UNCHANGED irq_RE
    /\ WriteControl(irq_RE, FALSE, FALSE)
    /\ ipc' = "top"
    /\ UNCHANGED <<tx, rx, host, fgVars, ri, wi, space, ravail>>

(* Room left in the FIFO means that the ring is empty: write interrupts off. *)
IsrTxEnd ==
    /\ ipc = "tx" /\ (space = 0 \/ tx_out = tx_in)
    /\ IF space > 0
       THEN irq_WE' = FALSE /\ UNCHANGED irq_RE /\ WriteControl(irq_RE, FALSE, FALSE)
       ELSE UNCHANGED <<irq, coreVars>>
    /\ ipc' = "top"
    /\ UNCHANGED <<tx, rx, host, fgVars, ri, wi, space, ravail>>

---------------------------------------------------------------------------
(* altera_avalon_jtag_uart_timeout, called by the tick interrupt.  It ends  *)
(* before the foreground or the other routine runs; a host active between  *)
(* its two register accesses is absorbed, as host_inactive is cleared.     *)
TimeoutAlarm ==
    /\ ipc = "off" /\ alarm
    /\ IF ac
       THEN /\ WriteControl(irq_RE, irq_WE, TRUE)
            /\ host_inactive' = 0
       ELSE /\ host_inactive' = IF host_inactive < INT_MAX - 2
                                THEN host_inactive + 1 ELSE host_inactive
            /\ UNCHANGED coreVars
    /\ UNCHANGED <<tx, rx, irq, timeout, alarm, fgVars, isrVars>>

HostStep ==
    /\ \/ HostTake
       \/ HostPut /\ hostSent < MaxRx
       \/ HostPause
       \/ HostPlug
    /\ UNCHANGED <<tx, rx, irq, host, fgVars, isrVars>>

WriteStep == WriteLoad \/ WriteCopy \/ WritePublish \/ WriteKick \/ WriteSpin
             \/ WriteCheck \/ WriteReturn
ReadStep  == ReadWhile \/ ReadLoad \/ ReadCopy \/ ReadPublish \/ ReadEmpty
             \/ ReadSpin \/ ReadCheck \/ ReadRearm \/ ReadReturn
IsrStep   == IsrTop \/ IsrRxFull \/ IsrRxByte \/ IsrRxNone \/ IsrRxEnd
             \/ IsrTxByte \/ IsrTxEnd

Next == \/ DriverInit \/ WriteCall \/ ReadCall \/ CloseCall \/ SetTimeout
        \/ WriteStep \/ ReadStep \/ CloseDrain
        \/ IsrEnter \/ IsrStep
        \/ TimeoutAlarm \/ HostStep

Spec == Init /\ [][Next]_vars

(* The foreground keeps executing, the processor takes a pending interrupt  *)
(* and finishes its routine, and the tick keeps coming.  A terminal that    *)
(* is attached again and again reads again and again, and the link reports  *)
(* a pause while bytes wait.                                                *)
LinkStep(A) == A /\ UNCHANGED <<tx, rx, irq, host, fgVars, isrVars>>

Fairness ==
    /\ WF_vars(DriverInit)
    /\ WF_vars(WriteStep \/ ReadStep \/ CloseDrain)
    /\ WF_vars(IsrEnter \/ IsrStep)
    /\ WF_vars(TimeoutAlarm)
    /\ SF_vars(LinkStep(HostTake))
    /\ WF_vars(LinkStep(HostPause /\ rfifo # <<>>))

FairSpec == Spec /\ Fairness

---------------------------------------------------------------------------
(* Properties *)

(* The bytes of a ring from out up to in. *)
RingSeq(buf, o, p) ==
    [k \in 1 .. (p + BUF_LEN - o) % BUF_LEN |-> buf[(o + k - 1) % BUF_LEN]]

(* Every variable stays in its range; host_inactive stops before INT_MAX    *)
(* and no index of the two rings leaves its buffer.                         *)
FlagsTypeOK ==
    /\ ien_AE \in BOOLEAN /\ ien_AF \in BOOLEAN
    /\ pause_irq \in BOOLEAN /\ ac \in BOOLEAN /\ connected \in BOOLEAN
    /\ irq_RE \in BOOLEAN /\ irq_WE \in BOOLEAN /\ nonblock \in BOOLEAN
    /\ ri \in BOOLEAN /\ wi \in BOOLEAN /\ ravail \in BOOLEAN

StreamTypeOK ==
    /\ wfifo \in Seq(Nat) /\ Len(wfifo) <= FifoDepth
    /\ rfifo \in Seq(Nat) /\ Len(rfifo) <= FifoDepth
    /\ hostSent \in Nat /\ hostGot \in Seq(Nat)
    /\ accepted \in Nat /\ app \in Seq(Nat) /\ tmp \in Seq(Nat)

RingTypeOK ==
    /\ tx_buf \in [Slots -> Nat] /\ tx_in \in Slots /\ tx_out \in Slots
    /\ rx_buf \in [Slots -> Nat] /\ rx_in \in Slots /\ rx_out \in Slots

ForegroundTypeOK ==
    /\ fpc \in {"init", "idle", "wLoad", "wCopy", "wKick", "wSpin", "wCheck",
                "wRet", "rWhile", "rLoad", "rCopy", "rEmpty", "rSpin",
                "rCheck", "rRearm", "rRet", "cDrain"}
    /\ count \in Nat /\ start \in Nat
    /\ in \in Slots /\ out \in Slots /\ n \in 0 .. BUF_LEN /\ i \in 0 .. n

IsrTypeOK ==
    /\ ipc \in {"off", "top", "rx", "rxEnd", "tx"}
    /\ space \in 0 .. FifoDepth
    /\ host_inactive \in 0 .. INT_MAX - 2
    /\ timeout \in 1 .. INT_MAX /\ alarm \in BOOLEAN

TypeOK ==
    FlagsTypeOK /\ StreamTypeOK /\ RingTypeOK /\ ForegroundTypeOK /\ IsrTypeOK

(* Transmitting keeps the promise of a byte stream of bounded capacity:     *)
(* whatever write accepted reaches the host once and in order, although the *)
(* interrupt routine empties the ring while write fills it and feeds the    *)
(* FIFO from one reading of its free space.                                 *)
TxChannel == INSTANCE ByteChannel WITH
    Capacity <- BUF_LEN - 1 + FifoDepth,
    transit <- wfifo \o RingSeq(tx_buf, tx_out, tx_in),
    delivered <- hostGot
TxIsAStream == TxChannel!Spec

(* Receiving keeps it too: the callers of read get what the host sent, once *)
(* and in order, although the interrupt routine fills the ring while read   *)
(* copies out of it and stops when it is full.                              *)
RxChannel == INSTANCE ByteChannel WITH
    Capacity <- BUF_LEN - 1 + FifoDepth,
    accepted <- hostSent,
    transit <- RingSeq(rx_buf, rx_out, rx_in) \o rfifo,
    delivered <- app
RxIsAStream == RxChannel!Spec

(* Bytes waiting in the transmit ring always have the write interrupt on,   *)
(* unless write is about to turn it on: the interrupt routine's switching   *)
(* off never leaves the bytes of an interrupted write behind.               *)
TxArmed ==
    tx_in # tx_out => ien_AE \/ fpc \in {"wLoad", "wCopy", "wKick"}

(* The receive interrupt is off only while the ring holds something for     *)
(* read to take, or a read that took it is about to turn it on again.       *)
RxArmed ==
    ~ien_AF => \/ fpc = "init"
               \/ rx_in # rx_out
               \/ start > 0 /\ fpc \in {"rLoad", "rEmpty", "rRearm"}

(* The copy of the enable bits that all three writers of the control        *)
(* register start from is what the register holds.                          *)
ShadowInSync ==
    fpc # "init" => irq_RE = ien_AF /\ irq_WE = ien_AE

(* The timeout says whether the alarm that counts it is running, which is   *)
(* what lets ioctl change it; and a caller who asked for no timeout, or had *)
(* to do without one, never sees the host counted as inactive: the counter  *)
(* stops short of both values that mean "none".                             *)
TimeoutKnown ==
    fpc # "init" => /\ timeout = INT_MAX <=> ~alarm
                    /\ timeout >= INT_MAX - 1 => host_inactive < timeout

(* A blocking write that took nothing reports "Host not connected"          *)
(* (altera_avalon_jtag_uart_write.c:214).  It must not do so when the host  *)
(* has just made room in the ring and is not counted inactive.              *)
EioMeansTimeout ==
    [][fpc = "wCheck" /\ fpc' = "wRet" /\ WriteFails
          => out = tx_out \/ host_inactive >= timeout]_vars

(* A blocking write never waits for ever: the ring drains, or the host      *)
(* counts as inactive.  Only a driver without an alarm, or one that was     *)
(* asked for no timeout, may wait for a host that never comes.              *)
WriteReturns == (fpc = "wSpin" /\ timeout < INT_MAX - 1) ~> fpc = "idle"

(* A blocking read returns once the host counts as inactive, be it silent   *)
(* or away, and it returns if bytes wait in the FIFO: their interrupt comes *)
(* or the host is gone.  With a host that stays attached that needs no      *)
(* timeout.                                                                 *)
ReadReturns ==
    /\ <>[]~ac => ((fpc = "rSpin" /\ timeout < INT_MAX - 1) ~> fpc = "idle")
    /\ (fpc = "rSpin" /\ rfifo # <<>> /\ timeout < INT_MAX - 1) ~> fpc = "idle"
    /\ <>[]connected => ((fpc = "rSpin" /\ rfifo # <<>>) ~> fpc = "idle")

(* With a host attached again and again, every accepted byte gets out: no   *)
(* kick of the write interrupt is lost.                                     *)
TxDrains == []<>connected => []<>(Len(hostGot) = accepted)
=============================================================================
