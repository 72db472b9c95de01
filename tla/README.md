# Verification of the embedded-systems course projects

TLA+ models of the programs in this repository, the TLC runs that check them and
the TLAPS proofs about them. Paths below are relative to the repository's root;
`BSP1` is `Encryption_Decryption_AES/nios2final/software/nios2final_BSP` and
`BSP2` is `Lesson2/Code/nios2leds/software/nios2leds_BSP`. Their HAL and driver
sources are the same files.

## 1. The system

Two Nios II soft-core systems on an FPGA board, and smaller exercises:

- **nios2leds** (lesson 2): two debounced push buttons on an edge-capturing PIO,
  a PWM LED, a timer and a JTAG UART. `main.c` has an interrupt handler that
  steps a sleep time, and a Caesar cipher over two constants.
- **nios2final** (`Encryption_Decryption_AES`): reads the switches, encrypts the
  value with AES, decrypts it, and shows each step on a character LCD and on the
  JTAG terminal.
- **hps_leds** (lesson 3): hardware description only (PWM, power-on reset,
  debouncer, interrupt capturer). **fullAdder** (lesson 1): combinational.

Everything else is generated by the vendor's tools (interconnect, CPU, Quartus
databases and reports).

### Inventory

| Component | State | Operations | What makes it correct |
|---|---|---|---|
| JTAG UART driver, interrupt-driven (`altera_avalon_jtag_uart_{init,read,write,ioctl}.c`) | two rings with in/out indices, copy of the control register, inactivity counter, timeout | init, write, read, close, ioctl; interrupt routine; timeout alarm | bytes neither lost, repeated nor reordered; no lost interrupt enable; calls return |
| JTAG UART hardware (`HostSystem_jtag_uart.v`) | two FIFOs, two enables, pause and activity bits | register reads and writes; host takes, sends, pauses | contract with the driver |
| Button PIO (`HostSystem_key_pio.v`) | two samples, edge capture, mask | clock, register accesses | an edge is captured once |
| Interrupt dispatch (`alt_irq_entry.S`, `alt_irq_handler.c`) | pending and enabled sets, handler table | entry, priority scan, call, re-check | never scans for a handler that is not there; no starvation |
| nios2leds `init`, `handle_key_interrupts` | sleep time, edge copies | set-up order; read, clear, act | each press acts at most once |
| HAL alarms (`alt_tick.c`, `alt_alarm_start.c`, `alt_llist.h`) | doubly linked list, times, rollover flags, wrapping tick counter | start, stop, tick | every alarm at its tick; the list stays a ring |
| AES block cipher (`aes.c`) | expanded key, block | key expansion, Cipher, InvCipher | standard answers; decryption inverts encryption |
| AES modes CBC and CTR (`aes.c`) | chaining vector or counter per context | set vector, encrypt and decrypt calls | message recovered; one chain; counters not reused |
| Encryption program (`nios2final_APP/main.c`) | plain text words, LCD contents, clock readings | read switches, encrypt, decrypt, show | what is shown is what was computed; clicks are ticks |
| LCD driver (`altera_avalon_lcd_16207.c`) | cursor, line buffers, escape state, scrolling, what is believed shown | write, escape sequences, timeout alarm | buffer bounds; display follows buffer; no repaint missed |
| HAL file descriptors (`alt_open.c`, `alt_get_fd.c`, `alt_fd_lock.c`, ...) | pool of descriptors with flags, high-water mark, device and file-system lists | register, redirect, open, close, lock, unlock, fcntl, exit | a failed open gives back what it took; a lock excludes others |
| Wall clock (`alt_settod.c`, `alt_gettod.c`) | offset to the tick counter | set, get | returns what was set |
| Timer, PWM, debouncer, power-on reset, interrupt capturer | counters and registers | clock, register writes | timing in clocks |

**How they interact.** The driver's foreground calls, its interrupt routine and its
alarm share the rings and the control register; the alarm is called by
`alt_tick`, which the timer's interrupt calls; the dispatcher calls the timer's
and the buttons' handlers; the handler prints through a UART driver; the
encryption program calls the block cipher on its buffers and writes the panel's
registers itself. The HAL's LCD driver shares its panel and its record of it with
its own alarm. `open`, `close` and `ioctl` work on one pool of descriptors, through
which programs reach the drivers.

**What is hard here.** A foreground stopped between any two memory accesses by an
interrupt routine that changes what it has just read; hardware that moves at the
same time (FIFOs drained by a host, edges that arrive between a read and a
clear); a host that stops reading or is unplugged, a panel that stops answering, a
device that refuses to open; two painters of one display; counters that wrap; lists
changed while they are walked; compile-time variants that no build exercises.
`PROJECT.json` lists these hazards at their lines.

## 2. Modules

| Module | Models | Role |
|---|---|---|
| `JtagUartCore` | the UART's hardware | extended by `JtagUart` |
| `ByteChannel` | a bounded byte stream | abstract specification of each direction |
| `JtagUart` | the interrupt-driven driver with its host and alarm | implements `ByteChannel` twice |
| `JtagUartProofs` | | proofs |
| `Keys` | PIO, dispatcher, timer interrupt, `init`, key handler | one step is one clock |
| `KeysProofs` | | proofs |
| `AlarmService` | what the HAL promises about alarms, without counter width | abstract specification |
| `Alarms` | list, tick, start, stop | implements `AlarmService` |
| `AlarmsProofs` | | proofs, among them of the implementation |
| `Aes`, `MCAes` | block cipher; the tables of `aes.c` and the test vectors of `main.c` | |
| `AesProofs` | | proofs |
| `AesModes`, `MCAesModes` | CBC and CTR over any inverse pair of ciphers; a small one for TLC | |
| `AesModesProofs` | | proofs |
| `Lcd`, `MCLcd` | the HAL's LCD driver, its alarm and the panel; six strings for TLC | |
| `LcdProofs` | | proofs |
| `DescriptorTable` | who refers to which device, and who holds it | abstract specification |
| `Files`, `MCFiles` | the HAL's file descriptors from boot to exit; a small system | implements `DescriptorTable` |
| `FilesProofs` | | proofs, among them of the implementation |
| `App`, `MCApp` | the encryption program's loop and `write_lcd` over any cipher; a small one for TLC | |
| `AppProofs` | | proofs |

Definitions named `Bug...` are deliberate mutations; nothing uses them. They
record, next to each definition, a mistake that a property is known to catch.

### JtagUart

State and code: `tx_buf/tx_in/tx_out`, `rx_buf/rx_in/rx_out`, `irq_RE/irq_WE` (the
two bits of `irq_enable`) and `host_inactive` are the fields of
`altera_avalon_jtag_uart_state`; `fpc` and `ipc` are the program counters of the
calling thread and of the interrupt routine, with their locals (`count`, `in`,
`out`, `n`, `i`, `space`, ...). `accepted`, `app`, `hostGot` and `hostSent` are
history. Bytes are named by their position in their stream.

Each access to shared memory or to a register is a step, in program order: the
build uses `-O0` and the shared fields are volatile. The interrupt routine may
start between any two foreground steps and the host may act between any two
steps at all. Regions with interrupts disabled are one step. The timeout alarm is
one step: software cannot interrupt it, and the host's activity between its two
register accesses only clears what it would clear.

The hardware's registered FIFO flags lag a clock behind the FIFOs; the model
shows them at once. The lag can only delay an interrupt, or raise one that finds
nothing to do.

The BSPs of the repository are built with `ALT_USE_SMALL_DRIVERS`, which selects
a polled variant; what is modelled is the full driver in the same sources, the
one that has the concurrency. `DriverInit` has both outcomes of `alt_alarm_start`: an
alarm that runs, or none and the timeout `INT_MAX`. `SetTimeout` is `ioctl` with
`TIOCSTIMEOUT`, which turns every value out of range into `INT_MAX - 1`, "no timeout";
`TIOCGCONNECTED` changes nothing. The branches for an operating system are not
compiled in these programs and not modelled.

### Keys

A step is one clock of the PIO. In it the processor makes at most one access
(or none: `Stall`), buttons move, the timer may time out. `in_port`, `d1`, `d2`,
`edge_capture` and `irq_mask` are the PIO's registers as sets of keys;
`timeout` is the timer's TO bit; `ienable` and `registered` are the processor's
enable register and the handler table; `active` and `ipc` belong to the
dispatcher; `edge_pin`, `context`, `global_edge_capture` and `time_sleep` (in
units of 10000) to `main.c`. `presses` and `handled` are history.

The committed `main` does not call `init`, so its interrupts are never enabled;
the logbook in the repository's root documents the version that does. The module
models `init` and the handler as committed. A print is a message that waits for
room in the UART, as the small driver's polling loop does. For `EdgeServed` an edge is
done with when its bit is cleared, also when the other key's handler clears it
unread: that loss is the subject of `OnlyReadEdgesReset`. The timer's TO is one bit, as in the
hardware: time-outs that come while it is set count once, and no property counts them.

### Alarms

`next`, `previous`, `time` and `rollover` are the structure's fields, `nticks`
the counter, `alarm` the loop variable of `alt_tick` (`HEAD` between ticks) and
`todo` history. Start and stop run with interrupts disabled and the tick is an
interrupt, so the foreground never sees an unfinished tick; inside the tick each
alarm is a step, so that removal during the walk is visible. A callback is the
value it returns. No callback in the repository starts or stops other alarms,
and none is modelled that does. `Wrap` is 2^32 in the code. An interval of
`Wrap - 1` would set the alarm's time to the present; the assumption
`AlarmsAssumption` excludes it, and no caller uses it.

### Aes and AesModes

In `Aes` a byte is the set of its bits, so that exclusive or is symmetric
difference, a block is the code's `state[i][j]`, and each function of a round is
a step on the block, encrypted and decrypted in place as `main.c` does.
`depth` and `seen` are history: how many stages from the plain text the block
is, and what it was there.

`AesModes` takes the cipher as a constant: any pair with `InvCipher[Cipher[b]] = b`,
which is what `AesProofs` shows of `Aes`. A sender and a receiver have a context
each and cut the message into calls independently. CBC encryption's vector is, as
in the code, a pointer that starts at the context and moves through the caller's
buffer, stored when the call ends. A CTR call may end in the middle of a block;
the rest of its key stream is dropped, so the receiver must end a call there as
well, and that is the only constraint on how it cuts.

### Lcd

`x`, `y`, `data`, `width`, `speed`, `visible`, `scrollpos`, `scrollmax`, `esccount`,
`address`, `broken` and `active` are the fields of the driver's state; `escape` holds
what `lcd_handle_escape` will read out of the kept characters; `ddram` and `ac` are
the panel's memory and address counter. `fpc` and `tpc` say where the write and the
timeout are, and `paint` has the locals of `lcd_repaint_screen` for each of the two.
A character of the text is a step, as is each command or datum sent to the panel
and each step at the write's end. The timeout is an interrupt: it begins between any
two steps of the write, and runs to its end before the write goes on. A panel may
stop answering at any command, and stays broken.

`TicksPerWrite` bounds how many timeouts come during one write, by
`2 * WIDTH + 3`: the shortest scroll of a line has `2 * (WIDTH + 2)` positions, and a
write that saw all of them pass could find the position it began with and take
it for no scroll at all. At one timeout every 100 ms and a repaint of some 5 ms,
the driver is far from that. `active` is not volatile in the source; the build
uses `-O0`, so its stores happen where they are written. The register sequence of
`altera_avalon_lcd_16207_init` is one step. `ESC K` with the cursor below the
panel, where a line feed may leave it, clears 80 bytes behind the last line
(`altera_avalon_lcd_16207.c:341`); the model leaves the lines alone then, and no
property speaks of the memory behind them. The committed BSP defines
`ALT_USE_SMALL_DRIVERS`, which leaves this driver out.

### Files

`dev` and `flags` are the fields of `alt_fd_list`, `alt_max_fd` the highest
descriptor ever allocated, and `pc` the phase of `alt_main`: devices register, the
standard streams are redirected, `main` runs, the program exits. There is one thread,
so each call is a step; the device's own `open` may refuse (`MayFail`). A name
is a sequence of path components, which is what `alt_find_file` compares. The access
mode is left out, because no decision of the layer depends on it. The committed
BSP defines `ALT_USE_DIRECT_DRIVERS`, which replaces this layer by stubs: like the
full drivers, it is modelled as the sources have it.

`DescriptorTable` keeps only which descriptor refers to which device and which
descriptors hold their device. Its `Open` either adds one descriptor or changes
nothing: a failed open that kept its descriptor, or left flags in it, would be no
step of it.

### App

`lcd` and `ac` are the panel's memory and address counter, which the program drives
directly through the panel's registers; `pc` and `wpc` are where `main` and `write_lcd` are. A write of
the panel is a step, a tick may come between any two. The cipher is a
constant, any invertible function on the words, which is what `AesProofs` and
`AesModesProofs` show of the real one; the loop's inputs are the values of the switches.
`Letters` has the lengths of the messages. The loop of `main.c:100-103` writes ten characters of
each, whatever its length: "encrypting" has ten letters, "encrypted" and "decrypted"
(lines 169 and 179) have nine, so their terminating NUL goes to the panel as a tenth
character (`NUL`), for which it shows the glyph of code 0, one that the program never
defines. `ShowsTheStage` therefore says what is on the row: the letters, behind the
shorter messages that glyph, then blanks. "A simple message on the first line"
(line 99) it is for "encrypting" only.
The value 0 has no digits and is shown as nothing (`main.c:108-121`), and
`ShowsTheStage` says so. `sprintf` also writes a terminating zero one byte past the
buffer of line 115; what lies there is the compiler's choice and is not modelled.
Text printed to the terminal is left out.

## 3. Runs

| Run | Question | Bounds |
|---|---|---|
| `uart_tx` | Is transmitting a byte stream (`TxIsAStream`)? Is a write interrupt ever lost (`TxArmed`, `TxDrains`)? Does the timeout mean what it says (`TimeoutKnown`)? Do blocking writes return (`WriteReturns`)? | ring of 3, FIFO of 2, 5 bytes, calls of 1 and 3; ioctl sets 0, 2 or `INT_MAX` |
| `uart_rx` | Is receiving a byte stream (`RxIsAStream`)? Is the receive interrupt ever left off (`RxArmed`, `ReadReturns`)? Does the copy of the control register agree with it (`ShadowInSync`)? | ring of 3, FIFO of 3, 4 bytes sent |
| `uart_eio` | Does -EIO mean that the host timed out? **No** | as `uart_tx` |
| `keys` | Does the dispatcher always find a handler (`DispatchFindsOne`)? Can a press act twice (`NoPressTwice`)? Is the sleep time right (`SleepInReach`)? Is every captured edge served (`EdgeServed`)? | 2 presses of each key, start at 1 step, room for 1 message |
| `keys_edge` | Does clearing the bit that was read leave the other key's edge? **No** | as `keys` |
| `alarms` | Does the list stay a ring (`ListOK`), are flags and times right (`TimesOK`), does every tick end (`TickReturns`), is every alarm called exactly in time (`KeepsTime`)? | 3 alarms, counter of 8, intervals 0, 3, 6, periods 0, 1, 7 |
| `aes` | Do the program's test vectors come out (`KnownAnswer`), does decryption retrace encryption (`Unwinds`), is `MixColumns` its matrix (`MixIsMatrix`)? | keys of 128, 192 and 256 bits, 3 blocks, 3 calls |
| `lcd` | Does the panel show what the driver believes (`PanelFollows`), and at rest the text (`RestShows`)? Does a write return (`WriteReturns`)? Does every character of a long line come by (`AllIsShown`)? | panel of 2 by 2, lines of 4, 3 strings, 2 calls, 2 timeouts in a call |
| `files` | Can two descriptors hold a device (`OneHolder`)? Is a locked device opened again (`LockedStaysShut`)? Is the pool its table (`KeepsTable`)? | 2 devices, a file system that may refuse, 6 descriptors |
| `files_lock` | Is a lock granted only to the one descriptor of its device? **No** | as `files` |
| `app` | Does each stage show all letters of its message and behind them at most the glyph of the terminator, its number, and the last the number read (`ShowsTheStage`)? Are the clicks right (`ClicksRight`)? | words of 3 bits in two, an affine cipher, a small clock that wraps, a loop of 2 characters, messages of 2 and 1 letters |
| `aes_modes` | Is the message recovered (`RoundTrip`)? Is CBC one chain (`CbcStandard`)? Are counters ever reused (`KeystreamFresh`)? | 4 pieces, blocks of three one-bit bytes |

Each run also checks the type invariant of its module, `uart_rx` excepted, which
shares `uart_tx`'s module.

**Why the bounds suffice.** A ring of 3 has the states empty, partly filled, full
(2 bytes), with and without a wrap, and in each of the three index positions;
calls of 3 bytes must wait in the middle, calls of 1 need not; the FIFOs are
smaller than the streams, so both fill. The timeout is passed and the counter
reaches its end. Two presses per key overlap in every phase of the handler; the
start value of 1 brings the sleep time to zero. A counter of 8 with intervals up
to 6 and a period of 7 wraps under every position of an alarm, and three alarms
give a removal at the head, in the middle and at the end. The vectors of
`aes_modes` make the counter carry over one byte and overflow over all three
within four pieces, and four pieces in all divisions into calls include empty
calls, calls of one and of several pieces, and short ends.
Two by two is the smallest panel with a second row and a second column, and a line
of four the shortest longer than it. The first of the three strings makes both lines
scroll, with widths 4 and 5, so that the shorter one's speed is a rounded quotient
(`altera_avalon_lcd_16207.c:474`); the second ends inside an escape sequence, which the
others go on with; the third clears the line or the panel and places the cursor below the panel. Six descriptors
leave three beside the standard ones: two for one device, and one for the other. The
clock of `app` wraps inside a measurement, and its messages are as long as the loop and one
letter shorter, as in the code.

**Deadlock** is checked everywhere but in `aes`, which stops after its calls. The
program of `files` ends in the endless loop of `_exit`.

### Fairness

- `JtagUart`: the foreground and the interrupt routine are executed, the tick
  comes (weak fairness). `TxDrains` and `ReadReturns` need a host: it
  takes bytes if it is attached again and again (strong fairness, since it may be
  unplugged in between), and the link reports a pause while bytes wait, which is
  what the hardware's `t_pause` is for. `WriteReturns` holds with no host at all,
  as long as a timeout is set; without an alarm, or asked for no timeout, the driver
  waits for a host for ever, as its comments say. A read returns when the host falls
  silent or bytes wait.
- `Keys`: the processor gets its accesses and a terminal keeps reading. Without a
  terminal the handler's print never ends: the warning of `alt_alarm_start.c:50-53`
  about printing in interrupt context applies to `main.c:39`.
- `Alarms`: the tick routine is executed and the timer ticks.
- `Lcd`: the write and the timeout routine are executed, and the tick comes. That a
  write returns rests on the bound of timeouts in a write: a display that
  scrolled during every repaint would be painted for ever. `AllIsShown` needs the
  ticks to keep coming and nothing more to be written.
- `Aes`, `AesModes`, `Files`, `App`: no liveness is claimed.

### What the violations show

- `uart_eio`: after its spin loop `write` goes on only if `host_inactive` is zero
  (`altera_avalon_jtag_uart_write.c:187`). If one second has passed without host
  activity and then the host reads, the loop ends because the ring moved, and yet
  the call returns `-EIO`, commented "Host not connected" (line 214), long before
  the timeout.
- `keys_edge`: `main.c:23-24` expects that writing the pin bit resets that bit.
  The generated PIO has no bit-clearing: any write of the register clears both
  bits (`HostSystem_key_pio.v:91-92, 103-104`). A press of the other key captured
  between the read and the write is lost.
- `files_lock`: `alt_fd_lock.c:43-44` says that the lock is granted if no other open
  descriptor refers to the device. The loop ends before `alt_max_fd`, which is itself
  a descriptor in use (`alt_open.c:79` includes it). A program that opens a device
  twice and locks it through the first descriptor gets the lock, and can still use the
  second one. `OneHolder` holds nevertheless: with two descriptors the higher one asks
  and finds the lower one.

## 4. Proofs

TLAPS proves the following for every value of the constants that satisfies the
modules' named assumptions.

| Theorem | Says |
|---|---|
| `JtagUartProofs`: `TypeCorrect`, `TxAlwaysArmed`, `RxAlwaysArmed`, `ShadowTrue`, `TimeoutIsKnown` | indices in range; `TxArmed`; `RxArmed`; `ShadowInSync`; `TimeoutKnown` |
| `JtagUartProofs`: `TransmitImplementsChannel`, `ReceiveImplementsChannel` | `Spec => TxIsAStream` and `Spec => RxIsAStream`: each direction implements `ByteChannel` |
| `JtagUartProofs`: `NothingLostToTheHost`, `NothingLostFromTheHost` | what that means for the driver's variables: taken in = come out, then under way, each byte once and in order |
| `KeysProofs`: `TypeCorrect`, `DispatcherNeverLost`, `PressCountsOnce`, `SleepFollowsPresses` | ranges, and time_sleep never negative; the three invariants of the run |
| `AlarmsProofs`: `TypeCorrect`, `ListWellFormed`, `TimesRight`, `CallsOnTime` | the invariants, and `Spec => Service!Spec` |
| `AlarmsProofs`: `TickIsBounded` | if there are finitely many alarms: each step of a tick takes one alarm off `todo`, and the last one ends it |
| `AesProofs`: `TypeCorrect`, `DecryptionUnwindsEncryption`, `MixColumnsIsMatrix` | for all keys, blocks and inverse tables |
| `AesProofs`: `CipherIsPermutation`, `CallsAreAtomic` | `CipherOf` and `InvCipherOf` are inverse permutations of the blocks; a call replaces the caller's block by its image when it returns, and not before |
| `AesProofs`: `AnswersSuffice` | `KnownAnswer`, if `CipherOf` meets the answers |
| `AesModesProofs`: `TypeCorrect`, `DecryptionRecovers`, `CbcIsOneChain` | for all block lengths, ciphers, messages and divisions into calls |
| `AesModesProofs`: `CtrIsOneStream` | the counters go up by one from the initial vector, over the ends of the calls |
| `AesModesProofs`: `CountersAreNotReused`, `CountersSuffice` | `KeystreamFresh` as long as `used` is no longer than there are blocks; always, if `MaxPieces` is not more |
| `LcdProofs`: `TypeCorrect`, `PanelFollowed`, `RestIsShown` | for all panel sizes, line lengths and texts |
| `LcdProofs`: `RepaintIsBounded` | each step of a repaint lowers the number of steps left, at most two for each cell |
| `FilesProofs`: `TypeCorrect`, `OneHolderOnly`, `LockedNotReopened`, `ImplementsTable` | for all pools, devices and file systems; `Spec => Table!Spec` |
| `AppProofs`: `TypeCorrect`, `StagesShown`, `ClicksAreTicks` | for all word sizes, invertible ciphers, messages and clock ranges |

Each follows from an inductive invariant:

- **JtagUart.** For the transmit side: bytes in the ring and the enable off is only
  possible between `write`'s publishing and its kick, so the invariant adds what
  the interrupt routine knows at each point (`space > 0` at its end means that it
  saw the ring empty, and the foreground cannot have run since) and that the
  register and its copy agree. For the receive side: the enable is turned off only
  with data left behind, hence with a full ring. `TimeoutKnown` needs besides that no
  alarm runs before the driver is installed (`Untouched`).
- **JtagUart, the channels.** A ring is the sequence of its slots from `out` to `in`,
  read modulo the length; lemmas say that storing at `in` and moving it appends, that
  moving `out` drops the head, and that a store at `in` alone changes nothing. The
  invariants add what holds between two steps: the room that the interrupt routine
  counted in the FIFO is still there (`TxSpace`), and while `write` or `read` copies, the
  free slots or the bytes it counted are still there and those copied so far are
  the right ones (`TxCopied`, `RxCopied`), whatever the interrupt did since. With them
  `WritePublish`, the bytes the host sends, the host's taking and `ReadPublish`
  are abstract steps and all others, the interrupt's moves too, are stutters.
- **Keys.** Four places of a press (on the line, in the samples, at the detector,
  captured) follow each other by one clock each; `PressesMoveOn` is the lemma for
  a clock. The dispatcher's invariant says which interrupts can be pending while
  the handler table is incomplete: the enable register stays within it.
- **Alarms.** The list invariant has the links mirror each other, no ring that
  avoids the head, and the unvisited alarms as the stretch from the cursor to the
  head. With `TimesOK` each concrete step is an abstract one: a tick's beginning is
  `Elapse`, an expired visit is `Call`, the rest are stutters. `Elapse` forbids
  passing over an alarm that is due, so the implementation excludes late calls.
  The list invariant says besides that the cursor stands on an unvisited alarm until
  none is left, so a tick makes as many visits as the list had entries.
- **Aes.** `MixColumns` and `InvMixColumns` are inverse because `xtime` is additive;
  both are reduced to the eight bits of a column's bytes. `Unwinds` needs that
  neighbouring entries of `seen` are related by the stage between them (`Path`)
  and that `depth` agrees with the step and round (`DepthOK`). The inverse S-box is
  an assumption (`TablesAssumption`) that TLC evaluates on the code's tables.
- **Aes, the calls.** A route is a whole path, from plain text to cipher text. From
  every block one leads up and one leads down, and two that share an end share the
  other, because every stage has an inverse (`StageInverse`); `Climb` stands in for
  the induction over the stages. So the ends of the routes make `CipherOf` and
  `InvCipherOf`, which depend on the key alone. A call keeps the block it was given in
  `seen` until it returns (`EndsKept`); by then the record holds both ends, and with
  `Path` it is a route. `CipherIsPermutation`
  is what `AesModes` and `App` assume of their constant `Cipher` (whose bytes are numbers
  where these are sets of bits), so that what they show holds of the cipher of the code.
- **AesModes.** At each moment the sender's pointer finds the last piece enciphered,
  the receiver's context holds the last one deciphered, and in CTR mode the
  receiver's counter is the one the sender used for the same piece.
- **AesModes, the counters.** Blocks are ordered as numbers (`Before`), and `Increment`
  is the next block (`IncrementIsNext`), or the first after the last (`FullIsLast`). The
  counters used are those from `iv0` to the next one, or after the wrap all but
  those (`Unwrapped`, `Wrapped`). If the next one had been used they would be all blocks, and
  there are not enough of them (`SomeBlockLeft`, by the cardinality of a surjection).
  Where a proof by induction would be natural, the first difference of two blocks
  and the last byte that is not full are taken with `LeastElement`, which follows
  from the library's theorem that the natural numbers are well-founded.
- **Lcd.** The two painters exclude each other: the timeout paints only while
  `active` is off, and the write is then outside its paint (`ActiveOK`, `PaintOK`).
  A cell that a painter has passed shows the text at the position the painter began
  with (`SyncOK`). `MovedOK` counts the timeouts since the write sampled
  the position: fewer than the scroll has positions, so an unchanged position means
  that none came, and then the paint was of the present one.
- **Lcd, the bound.** `StepsLeft` is twice the number of cells to come, less one
  when the address is already right: a cell that differs costs a seek and a character, one that
  does not costs nothing but the look. Every branch of `Paint` lowers it, whether
  the panel answers or not.
- **Files.** Any other descriptor of a device is above the one that holds it
  (`LockOrder`), so two holders would each be above the other: `alt_fd_lock` sees every
  lower descriptor, and a held device is not opened again. The refinement maps each call to
  one step of the table; a failed open ends where it began.
- **App.** `PanelOK` follows the panel through `write_lcd`, one character at a
  time, the terminator included, and `WholeMessage` says what the loop leaves on the row; `ClockOK` adds the ticks since a measurement began, modulo the counter.

**Only model-checked:** all liveness properties (`WriteReturns` of both drivers,
`ReadReturns`, `TxDrains`, `EdgeServed`, `TickReturns`, `AllIsShown`), which the prover
does not reach (`TickIsBounded` and `RepaintIsBounded` are the parts of two of them that
need no fairness); and `KnownAnswer`, the standard's example, which
`AnswersSuffice` reduces to computing `CipherOf` with the tables.

## 5. Not modelled

- **Generated hardware**: interconnect, processor, memories and the Quartus databases,
  made by the vendor's tools. They are most of the repository's files.
- **PWM slave, power-on reset, debouncer's counters, interrupt capturer**: their point
  is timing over thousands of clocks. Of the debouncer `Keys` uses what it guarantees
  (`MayMove`); no program of the repository reads the others' results.
- **The Caesar cipher and the full adder**: no state and no input that matters.
- **Formatting and logging** (`alt_printf.c`, `alt_log_printf.c`), **newlib glue** and
  `read`, `write`, `lseek`, `fstat` of the HAL, which hand a descriptor to its driver
  and change nothing of their own.
- **The wall clock.** No program sets it. Read against each other, `alt_settod.c:83-84`
  multiplies ticks by the microseconds of a tick in 32 bits and
  `alt_gettod.c:92-93` in 64: a clock set more than 2^32/1000 ticks after the start (some
  72 minutes at 1000 Hz) does not return the time it was set to, which the comment at
  `alt_settod.c:61-63` promises. It is listed as a hazard without a property.
- **Elapsed time.** A timer whose interrupt waits longer than a period loses ticks
  (its TO is one bit). `Alarms` counts ticks, so `KeepsTime` is a statement about
  ticks and not about seconds.
