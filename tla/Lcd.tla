--------------------------------- MODULE Lcd ---------------------------------
(***************************************************************************)
(* The HAL's driver for the character panel (altera_avalon_lcd_16207.c):   *)
(* altera_avalon_lcd_16207_write, which the foreground calls with a string *)
(* of characters and escape sequences, alt_lcd_16207_timeout, which the    *)
(* system tick calls every 100 ms to scroll lines longer than the panel,   *)
(* and lcd_repaint_screen, which both use to bring the panel up to date.   *)
(*                                                                         *)
(* The write is stopped by the timeout between any two of its steps.  Each *)
(* character is a step, and so is each command or character sent to the    *)
(* panel.  Definitions named Bug... are mutations of the definition after  *)
(* them.                                                                   *)
(***************************************************************************)
EXTENDS Integers, Sequences

CONSTANTS HEIGHT, WIDTH,      \* ALT_LCD_HEIGHT and ALT_LCD_WIDTH: 2 and 16
          VIRTUAL_WIDTH,      \* ALT_LCD_VIRTUAL_WIDTH: 80
          ByteSize,           \* 256: x, y and the scroll counters are bytes
          Letters,            \* the characters that mean nothing to the driver
          Strings,            \* what write is called with
          MaxWrites,          \* bound: calls of write
          TicksPerWrite       \* bound: timeouts during one write

DIGITS   == {"0", "1", "2", "3", "4", "5", "6", "7", "8", "9"}
CONTROLS == {"ESC", "CR", "LF", "BS", "NUL"}
MARKS    == {"SPACE", "BRACKET", "SEMICOLON", "H", "f", "J", "K"}
Printing == Letters \cup DIGITS \cup MARKS

(* The rows start at 0x00 and 0x40 of the panel's memory, and no row reaches *)
(* 0x27, where the panel's own counter goes on in the other row.  The       *)
(* timeout is called every 100 ms and a write takes a few: it misses fewer  *)
(* scroll steps than the shortest scroll has.                               *)
ASSUME LcdAssumption ==
    /\ HEIGHT \in 1 .. 2 /\ WIDTH \in 1 .. 39
    /\ VIRTUAL_WIDTH \in Nat /\ VIRTUAL_WIDTH > WIDTH
    /\ ByteSize \in Nat /\ ByteSize > 2 * (VIRTUAL_WIDTH + 1)
    /\ Letters \cap (CONTROLS \cup DIGITS \cup MARKS) = {}
    /\ Strings \subseteq Seq(Printing \cup CONTROLS)
    /\ MaxWrites \in Nat
    /\ TicksPerWrite \in 0 .. 2 * WIDTH + 3

Rows      == 0 .. HEIGHT - 1
Cells     == 0 .. WIDTH - 1
Columns   == 0 .. VIRTUAL_WIDTH       \* the last one stays blank
colstart  == [r \in Rows |-> 64 * r]
Addresses == {colstart[r] + col : r \in Rows, col \in 0 .. WIDTH}
Callers   == {"write", "timeout"}

VARIABLES
    ddram, ac,                          \* the panel: memory, address counter
    broken, address,                    \* the driver's copy of the panel's state
    x, y, data,                         \* cursor and text
    esccount, escape,                   \* the escape sequence under way
    width, speed, scrollpos, scrollmax, \* scrolling
    visible,                            \* what the driver believes is shown
    active,                             \* a write is under way
    fpc, text, old_scrollpos,           \* the write's position and locals
    tpc,                                \* the timeout's
    paint,                              \* lcd_repaint_screen's locals, per caller
    writes, ticks                       \* the bounded counts

panel   == <<ddram, ac, broken>>
cursor  == <<x, y, data, esccount, escape>>
scroll  == <<width, speed, scrollmax>>
counts  == <<writes, ticks>>
vars == <<panel, address, cursor, scroll, scrollpos, visible, active,
          fpc, text, old_scrollpos, tpc, paint, counts>>

BlankLine == [c \in Columns |-> "SPACE"]
NoEscape  == [parm1 |-> 0, parm2 |-> 0, field |-> 0]

(* After altera_avalon_lcd_16207_init: the panel is clear, or did not answer *)
(* one of the commands.                                                     *)
Init ==
    /\ ddram = [a \in Addresses |-> "SPACE"] /\ ac = 0
    /\ broken \in BOOLEAN /\ address = 0
    /\ x = 0 /\ y = 0 /\ data = [r \in Rows |-> BlankLine]
    /\ esccount = -1 /\ escape = NoEscape
    /\ width = [r \in Rows |-> 0] /\ speed = [r \in Rows |-> 0]
    /\ scrollpos = 0 /\ scrollmax = 0
    /\ visible = [r \in Rows |-> [c \in Cells |-> "SPACE"]]
    /\ active = FALSE
    /\ fpc = "idle" /\ text = <<>> /\ old_scrollpos = 0
    /\ tpc = "off"
    /\ paint = [who \in Callers |-> [pos |-> 0, row |-> HEIGHT, col |-> 0]]
    /\ writes = 0 /\ ticks = 0

---------------------------------------------------------------------------
(* The panel.  A command or a character waits until the panel is not busy;  *)
(* a panel that stays busy is broken and is sent nothing more.              *)

NoAnswer == broken' = TRUE /\ UNCHANGED <<ddram, ac>>

CommandClear ==
    \/ NoAnswer
    \/ ~broken /\ ddram' = [a \in Addresses |-> "SPACE"] /\ ac' = 0 /\ UNCHANGED broken

CommandAddress(a) ==
    \/ NoAnswer
    \/ ~broken /\ ac' = a /\ UNCHANGED <<broken, ddram>>

BugWriteData(c) ==
    /\ UNCHANGED address
    /\ \/ NoAnswer
       \/ ~broken /\ ddram' = [ddram EXCEPT ![ac] = c] /\ ac' = ac + 1 /\ UNCHANGED broken

lcd_write_data(c) ==
    \/ NoAnswer /\ UNCHANGED address
    \/ /\ ~broken /\ ddram' = [ddram EXCEPT ![ac] = c] /\ ac' = ac + 1
       /\ address' = address + 1 /\ UNCHANGED broken

---------------------------------------------------------------------------
(* altera_avalon_lcd_16207_write, one character at a time.                 *)

WriteBegin(s) ==
    /\ fpc = "idle" /\ tpc = "off" /\ writes < MaxWrites
    /\ fpc' = "chars" /\ text' = s
    /\ active' = TRUE
    /\ writes' = writes + 1
    /\ UNCHANGED <<panel, address, cursor, scroll, scrollpos, visible, old_scrollpos,
                   tpc, paint, ticks>>

(* The next character is taken from the text. *)
Take ==
    /\ fpc = "chars" /\ tpc = "off"
    /\ text' = Tail(text)
    /\ UNCHANGED <<speed, scrollmax, scrollpos, active, fpc, old_scrollpos, tpc, paint, counts>>

TextOnly == UNCHANGED <<panel, address, width, visible>>

(* lcd_scroll_up, k times. *)
ScrolledUp(k) == [r \in Rows |-> IF r + k \in Rows THEN data[r + k] ELSE BlankLine]

(* A one-character sequence ends with anything but "[".  After "[" digits  *)
(* and semicolons are kept, seven characters in all, and anything else      *)
(* ends the sequence.                                                       *)
EscapeEnds(c) == \/ esccount = 0 /\ c # "BRACKET"
                 \/ esccount > 0 /\ c \notin DIGITS \cup {"SEMICOLON"}
EscapeEnd(c) == EscapeEnds(c) /\ Take /\ esccount' = -1 /\ UNCHANGED escape
parm1 == IF esccount = 0 THEN -1 ELSE escape.parm1
parm2 == IF esccount = 0 THEN 0 ELSE escape.parm2

Value == [d \in DIGITS |-> CHOOSE n \in 0 .. 9 :
            d = <<"0", "1", "2", "3", "4", "5", "6", "7", "8", "9">>[n + 1]]

(* What the two loops of lcd_handle_escape read out of the kept characters: *)
(* the first number, the second, and nothing after a second semicolon.      *)
Kept(c) ==
    CASE c = "BRACKET"                    -> NoEscape
      [] c = "SEMICOLON"                  -> [escape EXCEPT !.field = @ + 1]
      [] c \in DIGITS /\ escape.field = 0 -> [escape EXCEPT !.parm1 = 10 * @ + Value[c]]
      [] c \in DIGITS /\ escape.field = 1 -> [escape EXCEPT !.parm2 = 10 * @ + Value[c]]
      [] OTHER                            -> escape

EscapeMore(c) ==
    /\ esccount >= 0 /\ ~EscapeEnds(c)
    /\ Take /\ TextOnly
    /\ IF esccount < 7 THEN escape' = Kept(c) /\ esccount' = esccount + 1
                       ELSE UNCHANGED <<escape, esccount>>
    /\ UNCHANGED <<x, y, data>>

BugEscapeCursor(c) ==
    LET row == (parm1 - 1) % ByteSize
    IN  /\ c \in {"H", "f"} /\ EscapeEnd(c) /\ TextOnly
        /\ x' = IF parm2 > 0 THEN (parm2 - 1) % ByteSize ELSE x
        /\ y' = IF parm1 > 0 THEN row ELSE y
        /\ UNCHANGED data

(* ESC [ row ; column H: a row below the display scrolls it. *)
EscapeCursor(c) ==
    LET row == (parm1 - 1) % ByteSize
        y1  == IF row > 2 * HEIGHT THEN 2 * HEIGHT ELSE row
        up  == IF y1 > HEIGHT THEN y1 - HEIGHT ELSE 0
    IN  /\ c \in {"H", "f"} /\ EscapeEnd(c) /\ TextOnly
        /\ x' = IF parm2 > 0 THEN (parm2 - 1) % ByteSize ELSE x
        /\ IF parm1 > 0 THEN y' = y1 - up /\ data' = ScrolledUp(up)
                        ELSE UNCHANGED <<y, data>>

(* ESC [ 2 J: lcd_clear_screen. *)
EscapeClear(c) ==
    /\ c = "J" /\ parm1 = 2 /\ EscapeEnd(c)
    /\ CommandClear
    /\ x' = 0 /\ y' = 0 /\ address' = 0
    /\ data' = [r \in Rows |-> BlankLine]
    /\ visible' = [r \in Rows |-> [col \in Cells |-> "SPACE"]]
    /\ width' = [r \in Rows |-> 0]

(* ESC K.  With the cursor below the display the code clears memory behind *)
(* the driver's lines, which is not part of the model.                      *)
EscapeLineEnd(c) ==
    /\ c = "K" /\ parm1 < 1 /\ EscapeEnd(c) /\ TextOnly
    /\ data' = IF x < VIRTUAL_WIDTH /\ y < HEIGHT
               THEN [data EXCEPT ![y] = [col \in Columns |-> IF col < x THEN @[col] ELSE "SPACE"]]
               ELSE data
    /\ UNCHANGED <<x, y>>

EscapeUnknown(c) ==
    /\ c \notin {"H", "f"} /\ ~(c = "J" /\ parm1 = 2) /\ ~(c = "K" /\ parm1 < 1)
    /\ EscapeEnd(c) /\ TextOnly
    /\ UNCHANGED <<x, y, data>>

Plain(c) == esccount < 0 /\ Take /\ TextOnly /\ UNCHANGED escape

Control(c) ==
    /\ c \in CONTROLS /\ Plain(c)
    /\ esccount' = IF c = "ESC" THEN 0 ELSE esccount
    /\ x' = CASE c \in {"CR", "LF"} -> 0
              [] c = "BS" /\ x > 0  -> x - 1
              [] OTHER              -> x
    /\ IF c = "LF"
       THEN \* the cursor may stand below the display until something is printed
            IF y + 1 > HEIGHT THEN data' = ScrolledUp(1) /\ UNCHANGED y
                              ELSE y' = y + 1 /\ UNCHANGED data
       ELSE UNCHANGED <<y, data>>

Printed(c) ==
    LET up    == IF y >= HEIGHT THEN 1 ELSE 0
        lines == ScrolledUp(up)
    IN  /\ c \in Printing /\ Plain(c)
        /\ y' = y - up
        /\ data' = IF x < VIRTUAL_WIDTH THEN [lines EXCEPT ![y - up][x] = c] ELSE lines
        /\ x' = (x + 1) % ByteSize
        /\ UNCHANGED esccount

Character(c) ==
    \/ EscapeMore(c)
    \/ EscapeCursor(c)
    \/ EscapeClear(c)
    \/ EscapeLineEnd(c)
    \/ EscapeUnknown(c)
    \/ Control(c)
    \/ Printed(c)

---------------------------------------------------------------------------
(* The scrolling parameters.  A line longer than the panel gets a space     *)
(* more, and the lines turn at speeds that bring them round together.       *)

Used(line) == CHOOSE n \in 0 .. VIRTUAL_WIDTH :
                 /\ \A col \in n .. VIRTUAL_WIDTH - 1 : line[col] = "SPACE"
                 /\ n > 0 => line[n - 1] # "SPACE"
Width(line) == IF Used(line) <= WIDTH THEN WIDTH ELSE Used(line) + 1
widthmax == LET W == {Width(data[r]) : r \in Rows}
            IN  CHOOSE w \in W : \A v \in W : v <= w

BugRecalculate ==
    /\ fpc = "chars" /\ tpc = "off" /\ text = <<>>
    /\ width' = [r \in Rows |-> Width(data[r])]
    /\ scrollmax' = IF widthmax <= WIDTH THEN 0 ELSE 2 * widthmax
    /\ speed' = [r \in Rows |->
                   IF Width(data[r]) > WIDTH THEN 256 * (Width(data[r]) \div (2 * widthmax)) ELSE 0]
    /\ fpc' = "sample"
    /\ UNCHANGED <<panel, address, cursor, scrollpos, visible, active, text, old_scrollpos,
                   tpc, paint, counts>>

Recalculate ==
    /\ fpc = "chars" /\ tpc = "off" /\ text = <<>>
    /\ width' = [r \in Rows |-> Width(data[r])]
    /\ scrollmax' = IF widthmax <= WIDTH THEN 0 ELSE 2 * widthmax
    /\ speed' = [r \in Rows |->
                   IF Width(data[r]) > WIDTH THEN (256 * Width(data[r])) \div (2 * widthmax) ELSE 0]
    /\ fpc' = "sample"
    /\ UNCHANGED <<panel, address, cursor, scrollpos, visible, active, text, old_scrollpos,
                   tpc, paint, counts>>

---------------------------------------------------------------------------
(* lcd_repaint_screen, for either caller: only cells that differ are sent. *)

Offset(pos, r) == LET o == (pos * speed[r]) \div 256 IN IF o >= width[r] THEN 0 ELSE o
Cell(pos, r, col) == data[r][(col + Offset(pos, r)) % width[r]]

Painting(who) == IF who = "write" THEN fpc = "paint" /\ tpc = "off" ELSE tpc = "paint"
Start == [pos |-> scrollpos, row |-> 0, col |-> 0]
Advance(who) ==
    LET p == paint[who]
    IN  paint' = [paint EXCEPT ![who] =
                    IF p.col + 1 < WIDTH THEN [p EXCEPT !.col = p.col + 1]
                                         ELSE [p EXCEPT !.row = p.row + 1, !.col = 0]]
Here(who) == colstart[paint[who].row] + paint[who].col
There(who) == Cell(paint[who].pos, paint[who].row, paint[who].col)
Shown(who) == visible[paint[who].row][paint[who].col]
Pending(who) == Painting(who) /\ paint[who].row < HEIGHT /\ Shown(who) # There(who)

PaintUnchanged == UNCHANGED <<cursor, scroll, scrollpos, active, fpc, text, old_scrollpos,
                              tpc, counts>>

PaintSkip(who) ==
    /\ Painting(who) /\ paint[who].row < HEIGHT
    /\ Shown(who) = There(who)
    /\ Advance(who)
    /\ UNCHANGED <<panel, address, visible>> /\ PaintUnchanged

PaintSeek(who) ==
    /\ Pending(who) /\ address # Here(who)
    /\ CommandAddress(Here(who))
    /\ address' = Here(who)
    /\ UNCHANGED <<visible, paint>> /\ PaintUnchanged

PaintPut(who) ==
    /\ Pending(who) /\ address = Here(who)
    /\ lcd_write_data(There(who))
    /\ visible' = [visible EXCEPT ![paint[who].row][paint[who].col] = There(who)]
    /\ Advance(who)
    /\ PaintUnchanged

Paint(who) == PaintSkip(who) \/ PaintSeek(who) \/ PaintPut(who)

---------------------------------------------------------------------------
(* The end of the write: paint until no scroll step was missed.            *)

Sample ==
    /\ fpc = "sample" /\ tpc = "off"
    /\ old_scrollpos' = scrollpos
    /\ fpc' = "begin"
    /\ UNCHANGED <<panel, address, cursor, scroll, scrollpos, visible, active, text, tpc,
                   paint, counts>>

BeginPaint ==
    /\ fpc = "begin" /\ tpc = "off"
    /\ paint' = [paint EXCEPT !["write"] = Start]
    /\ fpc' = "paint"
    /\ UNCHANGED <<panel, address, cursor, scroll, scrollpos, visible, active, text,
                   old_scrollpos, tpc, counts>>

Deactivate ==
    /\ fpc = "paint" /\ tpc = "off" /\ paint["write"].row = HEIGHT
    /\ active' = FALSE
    /\ fpc' = "check"
    /\ UNCHANGED <<panel, address, cursor, scroll, scrollpos, visible, text, old_scrollpos,
                   tpc, paint, counts>>

BugCheck ==
    /\ fpc = "check" /\ tpc = "off"
    /\ fpc' = "idle" /\ UNCHANGED active
    /\ ticks' = 0
    /\ UNCHANGED <<panel, address, cursor, scroll, scrollpos, visible, text, old_scrollpos,
                   tpc, paint, writes>>

BugCheckOnce ==
    /\ fpc = "check" /\ tpc = "off"
    /\ IF scrollpos = old_scrollpos
       THEN fpc' = "idle" /\ ticks' = 0 /\ UNCHANGED active
       ELSE fpc' = "begin" /\ active' = TRUE /\ UNCHANGED ticks
    /\ UNCHANGED <<panel, address, cursor, scroll, scrollpos, visible, text, old_scrollpos,
                   tpc, paint, writes>>

Check ==
    /\ fpc = "check" /\ tpc = "off"
    /\ IF scrollpos = old_scrollpos
       THEN fpc' = "idle" /\ ticks' = 0 /\ UNCHANGED active
       ELSE fpc' = "sample" /\ active' = TRUE /\ UNCHANGED ticks
    /\ UNCHANGED <<panel, address, cursor, scroll, scrollpos, visible, text, old_scrollpos,
                   tpc, paint, writes>>

---------------------------------------------------------------------------
(* alt_lcd_16207_timeout: scroll, and paint unless a write will.           *)

Timeout ==
    /\ tpc = "off"
    /\ IF fpc = "idle" THEN UNCHANGED ticks
                       ELSE ticks < TicksPerWrite /\ ticks' = ticks + 1
    /\ scrollpos' = IF scrollpos + 1 >= scrollmax THEN 0 ELSE scrollpos + 1
    /\ IF scrollmax > 0 /\ ~active
       THEN /\ tpc' = "paint"
            /\ paint' = [paint EXCEPT !["timeout"] = [Start EXCEPT !.pos = scrollpos']]
       ELSE UNCHANGED <<tpc, paint>>
    /\ UNCHANGED <<panel, address, cursor, scroll, visible, active, fpc, text,
                   old_scrollpos, writes>>

TimeoutReturns ==
    /\ tpc = "paint" /\ paint["timeout"].row = HEIGHT
    /\ tpc' = "off"
    /\ UNCHANGED <<panel, address, cursor, scroll, scrollpos, visible, active, fpc, text,
                   old_scrollpos, paint, counts>>

---------------------------------------------------------------------------
WriteStep == \/ text # <<>> /\ Character(Head(text))
             \/ Recalculate
             \/ Sample
             \/ BeginPaint
             \/ Paint("write")
             \/ Deactivate
             \/ Check
TimeoutStep == Paint("timeout") \/ TimeoutReturns

Next == \/ \E s \in Strings : WriteBegin(s)
        \/ WriteStep
        \/ Timeout
        \/ TimeoutStep

Spec == Init /\ [][Next]_vars

(* The write and the interrupt routine are executed, and the tick comes.   *)
FairSpec == Spec /\ WF_vars(WriteStep) /\ WF_vars(TimeoutStep) /\ WF_vars(Timeout)

---------------------------------------------------------------------------
(* Properties *)

(* Cursor, addresses and scroll counters keep the ranges their bytes and    *)
(* the arrays of the driver's state have; the cursor is at most one line    *)
(* below the display and the blank behind each line stays blank.            *)
TypeOK ==
    /\ ac \in Addresses /\ address \in Addresses /\ broken \in BOOLEAN
    /\ ddram \in [Addresses -> Printing]
    /\ x \in 0 .. ByteSize - 1 /\ y \in 0 .. HEIGHT
    /\ data \in [Rows -> [Columns -> Printing]]
    /\ \A r \in Rows : data[r][VIRTUAL_WIDTH] = "SPACE"
    /\ esccount \in -1 .. 7
    /\ escape \in [parm1 : Nat, parm2 : Nat, field : Nat]
    /\ width \in [Rows -> 0 .. VIRTUAL_WIDTH + 1]
    /\ speed \in [Rows -> 0 .. 255]
    /\ scrollpos \in 0 .. ByteSize - 1 /\ scrollmax \in 0 .. ByteSize - 1
    /\ visible \in [Rows -> [Cells -> Printing]]
    /\ active \in BOOLEAN
    /\ fpc \in {"idle", "chars", "sample", "begin", "paint", "check"}
    /\ text \in Seq(Printing \cup CONTROLS)
    /\ old_scrollpos \in 0 .. ByteSize - 1
    /\ tpc \in {"off", "paint"}
    /\ paint \in [Callers -> [pos : 0 .. ByteSize - 1, row : 0 .. HEIGHT, col : Cells]]
    /\ writes \in 0 .. MaxWrites /\ ticks \in 0 .. TicksPerWrite

(* A panel that answers shows what the driver believes it shows, and its    *)
(* address counter is where the driver believes it is, whoever wrote last:  *)
(* no character of the write or of the timeout goes to the other's place.   *)
PanelFollows ==
    ~broken => /\ ac = address
               /\ \A r \in Rows, col \in Cells : ddram[colstart[r] + col] = visible[r][col]

(* When neither the write nor the timeout is at work, the panel shows the   *)
(* text at the present scroll position: every repaint the timeout left to   *)
(* the write because it was active (lines 494-511) has been made.           *)
RestShows ==
    fpc = "idle" /\ tpc = "off" /\ ~broken =>
        \A r \in Rows, col \in Cells :
            ddram[colstart[r] + col] = IF width[r] = 0 THEN "SPACE" ELSE Cell(scrollpos, r, col)

(* The repaint loop ends: a call of write returns.                          *)
WriteReturns == fpc # "idle" ~> fpc = "idle"

(* Every character of every line, also of one longer than the panel, comes  *)
(* to be displayed if nothing more is written and the panel answers: the    *)
(* line turns all the way round.                                            *)
Displayed(r, col) ==
    \E k \in Cells : /\ width[r] > 0 /\ (k + Offset(scrollpos, r)) % width[r] = col
                     /\ ddram[colstart[r] + k] = data[r][col]
AllIsShown ==
    \A r \in Rows, col \in 0 .. VIRTUAL_WIDTH - 1 :
        fpc = "idle" /\ data[r][col] # "SPACE"
            ~> broken \/ fpc # "idle" \/ (tpc = "off" /\ Displayed(r, col))
=============================================================================
