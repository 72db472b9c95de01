------------------------------ MODULE LcdProofs ------------------------------
(***************************************************************************)
(* Proofs about Lcd, for every size of the display, every set of strings   *)
(* and every number of writes: what the panel shows, and that a repaint    *)
(* comes to its end.                                                       *)
(***************************************************************************)
EXTENDS Lcd, TLAPS, FiniteSetTheorems

(* Once a write has ended, every line turns round in at least the panel's  *)
(* width; before the first one nothing is shown and nothing scrolls.       *)
Laid  == \A r \in Rows : width[r] >= WIDTH
Fresh == /\ \A r \in Rows : width[r] = 0 /\ \A col \in Cells : visible[r][col] = "SPACE"
         /\ scrollmax = 0
WidthOK ==
    /\ fpc \notin {"chars", "idle"} => Laid
    /\ fpc = "idle" => Laid \/ Fresh
    /\ tpc = "paint" => Laid

(* The write that is active keeps the timeout from painting; the others do *)
(* not stop while it paints.                                                *)
ActiveOK ==
    /\ active <=> fpc \in {"chars", "sample", "begin", "paint"}
    /\ tpc = "paint" => ~active /\ scrollmax > 0 /\ paint["timeout"].pos = scrollpos
    /\ fpc # "chars" => text = <<>>

(* A display that scrolls does so over a line longer than the panel; one    *)
(* that does not stands still.                                              *)
SpeedOK ==
    fpc # "chars" => /\ scrollmax = 0 => \A r \in Rows : speed[r] = 0
                     /\ scrollmax > 0 => scrollmax >= 2 * WIDTH + 4

(* The cells before the painter's position are painted. *)
Before(who, r, col) == r < paint[who].row \/ (r = paint[who].row /\ col < paint[who].col)
Done(who) == \A r \in Rows, col \in Cells :
                Before(who, r, col) => visible[r][col] = Cell(paint[who].pos, r, col)
PaintOK ==
    /\ fpc = "paint" => Done("write")
    /\ tpc = "paint" => Done("timeout")

(* The display is painted for one scroll position. *)
Synced(pos) == \A r \in Rows, col \in Cells : visible[r][col] = Cell(pos, r, col)
SyncOK ==
    tpc = "off" =>
        /\ fpc = "check" => Synced(scrollpos) \/ Synced(paint["write"].pos)
        /\ fpc = "idle" => Fresh \/ Synced(scrollpos)

(* The scroll position moves on from old_scrollpos, and there are too few   *)
(* timeouts in a write for it to come round to it again.                    *)
Moved ==
    \/ scrollpos = old_scrollpos
    \/ /\ old_scrollpos < scrollpos /\ scrollpos < scrollmax
       /\ scrollpos - old_scrollpos <= ticks
    \/ /\ scrollpos < old_scrollpos /\ scrollpos < scrollmax
       /\ old_scrollpos < scrollmax => scrollmax - old_scrollpos + scrollpos <= ticks
MovedOK ==
    scrollmax > 0 =>
        /\ fpc \in {"begin", "paint", "check"} => Moved
        /\ fpc \in {"paint", "check"} /\ scrollpos = old_scrollpos =>
               paint["write"].pos = scrollpos

IInv == /\ TypeOK /\ PanelFollows /\ WidthOK /\ ActiveOK
        /\ SpeedOK /\ PaintOK /\ SyncOK /\ MovedOK

---------------------------------------------------------------------------
LEMMA Params ==
    /\ HEIGHT \in Nat /\ HEIGHT \in 1 .. 2 /\ WIDTH \in Nat /\ WIDTH >= 1 /\ WIDTH <= 39
    /\ VIRTUAL_WIDTH \in Nat /\ VIRTUAL_WIDTH > WIDTH
    /\ ByteSize \in Nat /\ ByteSize > 2 * (VIRTUAL_WIDTH + 1)
    /\ TicksPerWrite \in Nat /\ TicksPerWrite <= 2 * WIDTH + 3
    /\ Rows \subseteq 0 .. 1 /\ 0 \in Rows
    /\ \A r \in Rows : r \in Nat /\ r < HEIGHT
    /\ \A col \in Cells : col \in Nat /\ col < WIDTH
    /\ "SPACE" \in Printing
<1>1. "SPACE" \in Printing
  BY DEF Printing, MARKS
<1>2. /\ HEIGHT \in 1 .. 2 /\ WIDTH \in 1 .. 39
      /\ VIRTUAL_WIDTH \in Nat /\ VIRTUAL_WIDTH > WIDTH
      /\ ByteSize \in Nat /\ ByteSize > 2 * (VIRTUAL_WIDTH + 1)
      /\ TicksPerWrite \in 0 .. 2 * WIDTH + 3
  BY LcdAssumption
<1>3. /\ Rows \subseteq 0 .. 1 /\ 0 \in Rows
      /\ \A r \in Rows : r \in Nat /\ r < HEIGHT
      /\ \A col \in Cells : col \in Nat /\ col < WIDTH
  BY <1>2 DEF Rows, Cells
<1> QED BY <1>1, <1>2, <1>3

LEMMA UsedExists ==
    ASSUME NEW line
    PROVE  /\ Used(line) \in 0 .. VIRTUAL_WIDTH
           /\ \A col \in Used(line) .. VIRTUAL_WIDTH - 1 : line[col] = "SPACE"
           /\ Used(line) > 0 => line[Used(line) - 1] # "SPACE"
<1> DEFINE Good == {n \in 0 .. VIRTUAL_WIDTH :
                       \A col \in n .. VIRTUAL_WIDTH - 1 : line[col] = "SPACE"}
           All == 0 .. VIRTUAL_WIDTH - 1
           Prefixes == {0 .. n - 1 : n \in Good}
<1>1. VIRTUAL_WIDTH \in Good
  <2>1. ~\E col \in VIRTUAL_WIDTH .. VIRTUAL_WIDTH - 1 : TRUE
    BY Params
  <2> QED BY <2>1, Params
<1>2. Prefixes \subseteq SUBSET All /\ Prefixes # {}
  <2>1. \A n \in 0 .. VIRTUAL_WIDTH : 0 .. n - 1 \in SUBSET All
    BY Params
  <2>2. Good \subseteq 0 .. VIRTUAL_WIDTH
    OBVIOUS
  <2> HIDE DEF Good, All
  <2> QED BY <1>1, <2>1, <2>2
<1>3. IsWellFoundedOn(StrictSubsetOrdering(All), SUBSET All)
  <2>1. 0 \in Int /\ VIRTUAL_WIDTH - 1 \in Int
    BY Params
  <2>2. IsFiniteSet(All)
    BY <2>1, FS_Interval
  <2> HIDE DEF All
  <2>3. FiniteSubsetsOf(All) = SUBSET All
    BY <2>2, FS_FiniteSubsetsOfFinite
  <2>4. IsWellFoundedOn(StrictSubsetOrdering(All), FiniteSubsetsOf(All))
    BY FS_StrictSubsetOrderingWellFounded
  <2> QED BY <2>3, <2>4
<1>4. PICK p \in Prefixes : \A q \in Prefixes : ~(<<q, p>> \in StrictSubsetOrdering(All))
  BY <1>2, <1>3, WFMin
<1>5. PICK n \in Good : p = 0 .. n - 1
  OBVIOUS
<1>6. n > 0 => line[n - 1] # "SPACE"
  <2> SUFFICES ASSUME n > 0, line[n - 1] = "SPACE" PROVE FALSE
    OBVIOUS
  <2>1. n - 1 \in Good
    <3>1. n \in 0 .. VIRTUAL_WIDTH /\ \A col \in n .. VIRTUAL_WIDTH - 1 : line[col] = "SPACE"
      OBVIOUS
    <3>2. n - 1 \in 0 .. VIRTUAL_WIDTH
      BY <3>1, Params
    <3>3. ASSUME NEW col \in (n - 1) .. VIRTUAL_WIDTH - 1 PROVE line[col] = "SPACE"
      <4>1. col = n - 1 \/ col \in n .. VIRTUAL_WIDTH - 1
        BY <3>1, Params
      <4> QED BY <4>1, <3>1
    <3> QED BY <3>2, <3>3
  <2>2. 0 .. (n - 1) - 1 \in Prefixes
    BY <2>1
  <2>a. n \in 0 .. VIRTUAL_WIDTH
    OBVIOUS
  <2>3. n - 1 \in 0 .. n - 1 /\ n - 1 \notin 0 .. (n - 1) - 1
    BY <2>a, Params
  <2>4. 0 .. (n - 1) - 1 \subseteq 0 .. n - 1
    BY <2>a, Params
  <2>5. <<0 .. (n - 1) - 1, p>> \in (SUBSET All) \X (SUBSET All)
    BY <1>2, <2>2
  <2>6. <<0 .. (n - 1) - 1, p>> \in StrictSubsetOrdering(All)
    BY <1>5, <2>3, <2>4, <2>5 DEF StrictSubsetOrdering
  <2> QED BY <1>4, <2>2, <2>6
<1> DEFINE Last(k) == /\ \A col \in k .. VIRTUAL_WIDTH - 1 : line[col] = "SPACE"
                      /\ k > 0 => line[k - 1] # "SPACE"
<1>7. \E k \in 0 .. VIRTUAL_WIDTH : Last(k)
  BY <1>6
<1>8. Used(line) = CHOOSE k \in 0 .. VIRTUAL_WIDTH : Last(k)
  BY DEF Used
<1>9. Used(line) \in 0 .. VIRTUAL_WIDTH /\ Last(Used(line))
  <2> HIDE DEF Last
  <2> QED BY <1>7, <1>8
<1> QED BY <1>9

(* A line turns round in the panel's width, or in one more than it has      *)
(* characters.                                                              *)
LEMMA WidthRange ==
    ASSUME NEW line
    PROVE  /\ Width(line) \in WIDTH .. VIRTUAL_WIDTH + 1
           /\ Width(line) > WIDTH => Width(line) >= WIDTH + 2
BY UsedExists, Params DEF Width

LEMMA WidthMax ==
    /\ widthmax \in WIDTH .. VIRTUAL_WIDTH + 1
    /\ widthmax > WIDTH => widthmax >= WIDTH + 2
    /\ \A r \in Rows : Width(data[r]) <= widthmax
<1> DEFINE W == {Width(data[r]) : r \in Rows}
<1>1. \A r \in Rows : Width(data[r]) \in WIDTH .. VIRTUAL_WIDTH + 1
  BY WidthRange
<1>2. \E w \in W : \A v \in W : v <= w
  <2>1. CASE HEIGHT = 1
    <3>1. W = {Width(data[0])}
      BY <2>1, Params DEF Rows
    <3> QED BY <3>1, <1>1, Params
  <2>2. CASE HEIGHT = 2
    <3>1. W = {Width(data[0]), Width(data[1])} /\ 0 \in Rows /\ 1 \in Rows
      BY <2>2, Params DEF Rows
    <3>2. Width(data[0]) <= Width(data[1]) \/ Width(data[1]) <= Width(data[0])
      BY <3>1, <1>1, Params
    <3> QED BY <3>1, <3>2, <1>1, Params
  <2> QED BY <2>1, <2>2, Params
<1>3. widthmax \in W /\ \A v \in W : v <= widthmax
  BY <1>2 DEF widthmax
<1>4. PICK r \in Rows : widthmax = Width(data[r])
  BY <1>3
<1> QED BY <1>1, <1>3, <1>4, WidthRange

LEMMA AddressRange ==
    /\ 0 \in Addresses
    /\ \A r \in Rows, col \in Cells :
          /\ colstart[r] + col \in Addresses /\ colstart[r] + col + 1 \in Addresses
          /\ colstart[r] + col \in Nat
    /\ \A r \in Rows, col \in Cells, s \in Rows, k \in Cells :
          colstart[r] + col = colstart[s] + k => r = s /\ col = k
<1>1. \A r \in Rows : colstart[r] = 64 * r
  BY DEF colstart
<1>2. \A r \in Rows, col \in 0 .. WIDTH : colstart[r] + col \in Addresses
  BY DEF Addresses
<1>3. 0 \in Addresses
  <2>1. colstart[0] + 0 = 0 /\ 0 \in 0 .. WIDTH
    BY <1>1, Params
  <2> QED BY <2>1, <1>2, Params
<1>4. \A r \in Rows : r = 0 \/ r = 1
  BY Params
<1>5. \A r \in Rows, col \in Cells :
         /\ col \in 0 .. WIDTH /\ col + 1 \in 0 .. WIDTH
         /\ colstart[r] + col + 1 = colstart[r] + (col + 1)
  BY <1>1, <1>4, Params
<1>6. \A r \in Rows, col \in Cells : colstart[r] + col \in Nat
  BY <1>1, <1>4, Params
<1>7. \A r \in Rows, col \in Cells, s \in Rows, k \in Cells :
          colstart[r] + col = colstart[s] + k => r = s /\ col = k
  BY <1>1, <1>4, Params
<1> QED BY <1>2, <1>3, <1>5, <1>6, <1>7

LEMMA ModRange == ASSUME NEW a \in Nat, NEW b \in Nat, b > 0 PROVE a % b \in 0 .. b - 1
OBVIOUS

---------------------------------------------------------------------------
(* The text: what the steps of a write that take a character preserve.     *)

LEMMA CharsRest ==
    ASSUME fpc' = "chars", tpc' = "off", active'
    PROVE  WidthOK' /\ ActiveOK' /\ SpeedOK' /\ PaintOK' /\ SyncOK' /\ MovedOK'
BY DEF WidthOK, ActiveOK, SpeedOK, PaintOK, SyncOK, MovedOK

LEMMA ScrolledUpType ==
    ASSUME TypeOK, NEW k \in Nat
    PROVE  /\ ScrolledUp(k) \in [Rows -> [Columns -> Printing]]
           /\ \A r \in Rows : ScrolledUp(k)[r][VIRTUAL_WIDTH] = "SPACE"
<1>1. BlankLine \in [Columns -> Printing] /\ BlankLine[VIRTUAL_WIDTH] = "SPACE"
  BY Params DEF BlankLine, Columns
<1>2. /\ data \in [Rows -> [Columns -> Printing]]
      /\ \A r \in Rows : data[r][VIRTUAL_WIDTH] = "SPACE"
  BY DEF TypeOK
<1> QED BY <1>1, <1>2 DEF ScrolledUp

LEMMA ValueType == \A d \in DIGITS : Value[d] \in 0 .. 9
<1> DEFINE Name == <<"0", "1", "2", "3", "4", "5", "6", "7", "8", "9">>
<1>1. \A d \in DIGITS : \E n \in 0 .. 9 : d = Name[n + 1]
  <2>1. /\ Name[0 + 1] = "0" /\ Name[1 + 1] = "1" /\ Name[2 + 1] = "2" /\ Name[3 + 1] = "3"
        /\ Name[4 + 1] = "4" /\ Name[5 + 1] = "5" /\ Name[6 + 1] = "6" /\ Name[7 + 1] = "7"
        /\ Name[8 + 1] = "8" /\ Name[9 + 1] = "9"
    OBVIOUS
  <2> HIDE DEF Name
  <2> QED BY <2>1 DEF DIGITS
<1>2. Value = [d \in DIGITS |-> CHOOSE n \in 0 .. 9 : d = Name[n + 1]]
  BY DEF Value
<1> HIDE DEF Name
<1> QED BY <1>1, <1>2

(* The variables a character leaves alone keep their types. *)
LEMMA TakeType ==
    ASSUME TypeOK, Take, text # <<>>,
           x' \in 0 .. ByteSize - 1, y' \in 0 .. HEIGHT,
           data' \in [Rows -> [Columns -> Printing]],
           \A r \in Rows : data'[r][VIRTUAL_WIDTH] = "SPACE",
           esccount' \in -1 .. 7, escape' \in [parm1 : Nat, parm2 : Nat, field : Nat],
           UNCHANGED <<panel, address, visible>>,
           width' = width
    PROVE  TypeOK'
<1>1. text' \in Seq(Printing \cup CONTROLS)
  BY DEF Take, TypeOK
<1> QED BY <1>1 DEF Take, TypeOK, panel, counts

LEMMA CharacterType ==
    ASSUME IInv, text # <<>>, Character(Head(text)) PROVE TypeOK' /\ PanelFollows'
<1> DEFINE c == Head(text)
<1> HIDE DEF c
<1>0. TypeOK /\ PanelFollows /\ ByteSize \in Nat /\ ByteSize > 2 /\ Character(c)
  BY Params DEF IInv, c
<1>a. /\ x \in Nat /\ x < ByteSize /\ y \in 0 .. HEIGHT /\ esccount \in -1 .. 7
      /\ escape.parm1 \in Nat /\ escape.parm2 \in Nat /\ escape.field \in Nat
      /\ parm1 \in Int /\ parm2 \in Int
      /\ escape \in [parm1 : Nat, parm2 : Nat, field : Nat]
      /\ data \in [Rows -> [Columns -> Printing]]
      /\ \A r \in Rows : data[r][VIRTUAL_WIDTH] = "SPACE"
      /\ NoEscape \in [parm1 : Nat, parm2 : Nat, field : Nat]
  BY <1>0 DEF TypeOK, parm1, parm2, NoEscape
<1>b. UNCHANGED <<panel, visible, address>> => PanelFollows'
  BY <1>0 DEF PanelFollows, panel
<1>1. CASE EscapeMore(c)
  <2>1. UNCHANGED <<panel, address, width, visible, x, y, data>> /\ Take
    BY <1>1 DEF EscapeMore, TextOnly
  <2>2. Kept(c) \in [parm1 : Nat, parm2 : Nat, field : Nat]
    <3>1. c \in DIGITS => Value[c] \in Nat
      BY ValueType
    <3>2. \/ Kept(c) = NoEscape
          \/ Kept(c) = [escape EXCEPT !.field = escape.field + 1]
          \/ c \in DIGITS /\ Kept(c) = [escape EXCEPT !.parm1 = 10 * escape.parm1 + Value[c]]
          \/ c \in DIGITS /\ Kept(c) = [escape EXCEPT !.parm2 = 10 * escape.parm2 + Value[c]]
          \/ Kept(c) = escape
      BY DEF Kept
    <3>3. c \in DIGITS => /\ 10 * escape.parm1 + Value[c] \in Nat
                          /\ 10 * escape.parm2 + Value[c] \in Nat
      BY <1>a, <3>1
    <3> DEFINE R == [parm1 : Nat, parm2 : Nat, field : Nat]
    <3>4. \A n \in Nat : /\ [escape EXCEPT !.field = n] \in R /\ [escape EXCEPT !.parm1 = n] \in R
                         /\ [escape EXCEPT !.parm2 = n] \in R
      BY <1>a
    <3>5. escape.field + 1 \in Nat /\ escape \in R /\ NoEscape \in R
      BY <1>a
    <3> HIDE DEF R
    <3>6. Kept(c) \in R
      BY <3>2, <3>3, <3>4, <3>5
    <3> QED BY <3>6 DEF R
  <2>3. /\ esccount' \in -1 .. 7
        /\ escape' \in [parm1 : Nat, parm2 : Nat, field : Nat]
    BY <1>1, <1>a, <2>2 DEF EscapeMore
  <2>4. TypeOK'
    BY <1>0, <1>a, <2>1, <2>3, TakeType
  <2> QED BY <1>b, <2>1, <2>4
<1>2. CASE EscapeCursor(c)
  <2>1. UNCHANGED <<panel, address, width, visible, escape>> /\ Take /\ esccount' = -1
    BY <1>2 DEF EscapeCursor, TextOnly, EscapeEnd
  <2>2. x' \in 0 .. ByteSize - 1
    <3>1. parm2 > 0 => parm2 - 1 \in Nat
      BY <1>a
    <3>2. parm2 > 0 => (parm2 - 1) % ByteSize \in 0 .. ByteSize - 1
      BY <1>0, <3>1, ModRange
    <3> QED BY <1>a, <1>2, <3>2, <1>0 DEF EscapeCursor
  <2>3. /\ y' \in 0 .. HEIGHT /\ data' \in [Rows -> [Columns -> Printing]]
        /\ \A r \in Rows : data'[r][VIRTUAL_WIDTH] = "SPACE"
    <3>1. CASE ~(parm1 > 0)
      BY <1>2, <1>a, <3>1 DEF EscapeCursor
    <3>2. CASE parm1 > 0
      <4> DEFINE row == (parm1 - 1) % ByteSize
                 y1  == IF row > 2 * HEIGHT THEN 2 * HEIGHT ELSE row
                 up  == IF y1 > HEIGHT THEN y1 - HEIGHT ELSE 0
      <4>1. parm1 - 1 \in Nat
        BY <3>2, <1>a
      <4>2. row \in Nat
        BY <1>0, <4>1, ModRange
      <4>3. y' = y1 - up /\ data' = ScrolledUp(up)
        BY <3>2, <1>2 DEF EscapeCursor
      <4> HIDE DEF row
      <4>4. up \in Nat /\ y1 - up \in 0 .. HEIGHT
        BY <4>2, Params
      <4> HIDE DEF y1, up
      <4> QED BY <1>0, <4>3, <4>4, ScrolledUpType
    <3> QED BY <3>1, <3>2
  <2>4. TypeOK'
    BY <1>0, <1>a, <2>1, <2>2, <2>3, TakeType
  <2> QED BY <1>b, <2>1, <2>4
<1>3. CASE EscapeClear(c)
  <2>1. /\ Take /\ CommandClear /\ x' = 0 /\ y' = 0 /\ address' = 0 /\ esccount' = -1
        /\ UNCHANGED escape
        /\ data' = [r \in Rows |-> BlankLine]
        /\ visible' = [r \in Rows |-> [col \in Cells |-> "SPACE"]]
        /\ width' = [r \in Rows |-> 0]
    BY <1>3 DEF EscapeClear, EscapeEnd
  <2>2. 0 \in Addresses
    BY AddressRange
  <2>3. /\ data' \in [Rows -> [Columns -> Printing]]
        /\ \A r \in Rows : data'[r][VIRTUAL_WIDTH] = "SPACE"
        /\ visible' \in [Rows -> [Cells -> Printing]]
        /\ width' \in [Rows -> 0 .. VIRTUAL_WIDTH + 1]
    BY <2>1, Params DEF BlankLine, Columns
  <2>4. ac' \in Addresses /\ broken' \in BOOLEAN /\ ddram' \in [Addresses -> Printing]
    BY <1>0, <2>1, <2>2, Params DEF CommandClear, NoAnswer, TypeOK
  <2>5. text' \in Seq(Printing \cup CONTROLS)
    BY <1>0, <2>1 DEF Take, TypeOK
  <2>6. TypeOK'
    <3>1. x' \in 0 .. ByteSize - 1 /\ y' \in 0 .. HEIGHT /\ esccount' \in -1 .. 7
      BY <1>0, <2>1, Params
    <3>2. /\ fpc' = "chars" /\ tpc' = "off"
          /\ UNCHANGED <<escape, speed, scrollmax, scrollpos, active, old_scrollpos, paint,
                         writes, ticks>>
      BY <2>1 DEF Take, counts
    <3> QED BY <1>0, <2>1, <2>2, <2>3, <2>4, <2>5, <3>1, <3>2 DEF TypeOK
  <2>7. PanelFollows'
    <3>1. \A r \in Rows, col \in Cells : colstart[r] + col \in Addresses
      BY AddressRange
    <3> QED BY <2>1, <3>1 DEF CommandClear, NoAnswer, PanelFollows
  <2> QED BY <2>6, <2>7
<1>4. CASE EscapeLineEnd(c)
  <2>1. UNCHANGED <<panel, address, width, visible, escape, x, y>> /\ Take /\ esccount' = -1
    BY <1>4 DEF EscapeLineEnd, TextOnly, EscapeEnd
  <2>2. /\ data' \in [Rows -> [Columns -> Printing]]
        /\ \A r \in Rows : data'[r][VIRTUAL_WIDTH] = "SPACE"
    <3>1. CASE ~(x < VIRTUAL_WIDTH /\ y < HEIGHT)
      BY <3>1, <1>4, <1>a DEF EscapeLineEnd
    <3>2. CASE x < VIRTUAL_WIDTH /\ y < HEIGHT
      <4> DEFINE line == [col \in Columns |-> IF col < x THEN data[y][col] ELSE "SPACE"]
      <4>1. data' = [data EXCEPT ![y] = line]
        BY <3>2, <1>4 DEF EscapeLineEnd
      <4>2. y \in Rows
        BY <3>2, <1>a, Params DEF Rows
      <4>3. line \in [Columns -> Printing] /\ line[VIRTUAL_WIDTH] = "SPACE"
        BY <4>2, <3>2, <1>a, Params DEF Columns
      <4> HIDE DEF line
      <4> QED BY <4>1, <4>2, <4>3, <1>a
    <3> QED BY <3>1, <3>2
  <2>4. TypeOK'
    BY <1>0, <1>a, <2>1, <2>2, TakeType
  <2> QED BY <1>b, <2>1, <2>4
<1>5. CASE EscapeUnknown(c)
  <2>1. UNCHANGED <<panel, address, width, visible, escape, x, y, data>> /\ Take /\ esccount' = -1
    BY <1>5 DEF EscapeUnknown, TextOnly, EscapeEnd
  <2>4. TypeOK'
    BY <1>0, <1>a, <2>1, TakeType
  <2> QED BY <1>b, <2>1, <2>4
<1>6. CASE Control(c)
  <2>1. UNCHANGED <<panel, address, width, visible, escape>> /\ Take
    BY <1>6 DEF Control, TextOnly, Plain
  <2>2. x' \in 0 .. ByteSize - 1 /\ esccount' \in -1 .. 7
    <3>1. x' = 0 \/ (x > 0 /\ x' = x - 1) \/ x' = x
      BY <1>6 DEF Control
    <3>2. esccount' = 0 \/ esccount' = esccount
      BY <1>6 DEF Control
    <3> QED BY <3>1, <3>2, <1>a, <1>0
  <2>3. /\ y' \in 0 .. HEIGHT /\ data' \in [Rows -> [Columns -> Printing]]
        /\ \A r \in Rows : data'[r][VIRTUAL_WIDTH] = "SPACE"
    <3>1. \/ data' = ScrolledUp(1) /\ y' = y
          \/ y' = y + 1 /\ y + 1 <= HEIGHT /\ data' = data
          \/ y' = y /\ data' = data
      <4>1. IF c = "LF"
            THEN IF y + 1 > HEIGHT THEN data' = ScrolledUp(1) /\ UNCHANGED y
                                   ELSE y' = y + 1 /\ UNCHANGED data
            ELSE UNCHANGED <<y, data>>
        BY <1>6 DEF Control
      <4> QED BY <4>1, <1>a, Params
    <3> QED BY <3>1, <1>a, <1>0, ScrolledUpType, Params
  <2>4. TypeOK'
    BY <1>0, <1>a, <2>1, <2>2, <2>3, TakeType
  <2> QED BY <1>b, <2>1, <2>4
<1>7. CASE Printed(c)
  <2> DEFINE up == IF y >= HEIGHT THEN 1 ELSE 0
             lines == ScrolledUp(up)
  <2>1. /\ UNCHANGED <<panel, address, width, visible, escape, esccount>> /\ Take
        /\ c \in Printing /\ y' = y - up /\ x' = (x + 1) % ByteSize
        /\ data' = IF x < VIRTUAL_WIDTH THEN [lines EXCEPT ![y - up][x] = c] ELSE lines
    BY <1>7 DEF Printed, TextOnly, Plain
  <2>2. up \in Nat /\ y - up \in Rows /\ y - up \in 0 .. HEIGHT
    BY <1>a, Params DEF Rows
  <2>3. /\ lines \in [Rows -> [Columns -> Printing]]
        /\ \A r \in Rows : lines[r][VIRTUAL_WIDTH] = "SPACE"
    BY <1>0, <2>2, ScrolledUpType
  <2> HIDE DEF up, lines
  <2>4. x' \in 0 .. ByteSize - 1
    BY <2>1, <1>a, <1>0, ModRange
  <2>5. /\ data' \in [Rows -> [Columns -> Printing]]
        /\ \A r \in Rows : data'[r][VIRTUAL_WIDTH] = "SPACE"
    <3>1. CASE ~(x < VIRTUAL_WIDTH)
      BY <3>1, <2>1, <2>3
    <3>2. CASE x < VIRTUAL_WIDTH
      <4>1. x \in Columns /\ x # VIRTUAL_WIDTH
        BY <3>2, <1>a, Params DEF Columns
      <4>2. data' = [lines EXCEPT ![y - up][x] = c]
        BY <3>2, <2>1
      <4>3. data' = [lines EXCEPT ![y - up] = [lines[y - up] EXCEPT ![x] = c]]
        BY <4>2
      <4>4. [lines[y - up] EXCEPT ![x] = c] \in [Columns -> Printing]
        BY <2>1, <2>2, <2>3
      <4>5. [lines[y - up] EXCEPT ![x] = c][VIRTUAL_WIDTH] = "SPACE"
        BY <4>1, <2>2, <2>3, Params DEF Columns
      <4> QED BY <4>3, <4>4, <4>5, <2>2, <2>3
    <3> QED BY <3>1, <3>2
  <2>6. TypeOK'
    BY <1>0, <1>a, <2>1, <2>2, <2>4, <2>5, TakeType
  <2> QED BY <1>b, <2>1, <2>6
<1> QED BY <1>0, <1>1, <1>2, <1>3, <1>4, <1>5, <1>6, <1>7 DEF Character

LEMMA CharacterInv == IInv /\ text # <<>> /\ Character(Head(text)) => IInv'
<1> SUFFICES ASSUME IInv, text # <<>>, Character(Head(text)) PROVE IInv'
  OBVIOUS
<1>1. Take
  BY DEF Character, EscapeMore, EscapeCursor, EscapeClear, EscapeLineEnd, EscapeUnknown, Control,
         Printed, Plain, EscapeEnd
<1>2. fpc' = "chars" /\ tpc' = "off" /\ active'
  BY <1>1 DEF Take, IInv, ActiveOK
<1> QED BY <1>2, CharacterType, CharsRest DEF IInv

LEMMA WriteBeginInv == ASSUME IInv, NEW s \in Strings, WriteBegin(s) PROVE IInv'
<1>1. fpc' = "chars" /\ tpc' = "off" /\ active'
  BY DEF WriteBegin
<1>2. TypeOK'
  <2>1. s \in Seq(Printing \cup CONTROLS) /\ MaxWrites \in Nat
    BY LcdAssumption
  <2> QED BY <2>1 DEF IInv, WriteBegin, TypeOK, panel, cursor, scroll
<1>3. PanelFollows'
  BY DEF IInv, WriteBegin, PanelFollows, panel
<1> QED BY <1>1, <1>2, <1>3, CharsRest DEF IInv

---------------------------------------------------------------------------
(* The end of the write. *)

LEMMA SpeedRange ==
    ASSUME NEW a \in Nat, NEW b \in Nat, b > 0, a <= b
    PROVE  (256 * a) \div (2 * b) \in 0 .. 255
OBVIOUS

LEMMA RecalculateInv == IInv /\ Recalculate => IInv'
<1> SUFFICES ASSUME IInv, Recalculate PROVE IInv'
  OBVIOUS
<1>1. /\ fpc = "chars" /\ fpc' = "sample" /\ tpc = "off" /\ text = <<>>
      /\ UNCHANGED <<panel, address, cursor, scrollpos, visible, active, text, old_scrollpos,
                     tpc, paint, counts>>
      /\ width' = [r \in Rows |-> Width(data[r])]
      /\ scrollmax' = IF widthmax <= WIDTH THEN 0 ELSE 2 * widthmax
      /\ speed' = [r \in Rows |-> IF Width(data[r]) > WIDTH
                                  THEN (256 * Width(data[r])) \div (2 * widthmax) ELSE 0]
  BY DEF Recalculate
<1>2. /\ widthmax \in Nat /\ widthmax >= WIDTH /\ widthmax <= VIRTUAL_WIDTH + 1
      /\ widthmax > WIDTH => widthmax >= WIDTH + 2
  BY WidthMax, Params
<1>3. \A r \in Rows : /\ Width(data[r]) \in Nat /\ Width(data[r]) >= WIDTH
                      /\ Width(data[r]) <= VIRTUAL_WIDTH + 1 /\ Width(data[r]) <= widthmax
  BY WidthMax, WidthRange, Params
<1>4. speed' \in [Rows -> 0 .. 255]
  <2>1. \A r \in Rows : (256 * Width(data[r])) \div (2 * widthmax) \in 0 .. 255
    BY <1>2, <1>3, SpeedRange, Params
  <2> QED BY <1>1, <2>1
<1>5. width' \in [Rows -> 0 .. VIRTUAL_WIDTH + 1] /\ Laid'
  BY <1>1, <1>3, Params DEF Laid
<1>6. scrollmax' \in 0 .. ByteSize - 1
  BY <1>1, <1>2, Params
<1>7. TypeOK'
  BY <1>1, <1>4, <1>5, <1>6 DEF IInv, TypeOK, panel, cursor, counts
<1>8. PanelFollows'
  BY <1>1 DEF IInv, PanelFollows, panel
<1>9. SpeedOK'
  <2>1. scrollmax' = 0 => widthmax <= WIDTH
    BY <1>1, <1>2, Params
  <2>2. widthmax <= WIDTH => \A r \in Rows : speed'[r] = 0
    BY <1>1, <1>2, <1>3, Params
  <2>3. scrollmax' > 0 => scrollmax' >= 2 * WIDTH + 4
    BY <1>1, <1>2, Params
  <2> QED BY <2>1, <2>2, <2>3 DEF SpeedOK
<1>10. WidthOK' /\ ActiveOK' /\ PaintOK' /\ SyncOK' /\ MovedOK'
  BY <1>1, <1>5 DEF IInv, WidthOK, ActiveOK, PaintOK, SyncOK, MovedOK
<1> QED BY <1>7, <1>8, <1>9, <1>10 DEF IInv

(* A display that stands still looks the same at every scroll position. *)
LEMMA CellStill ==
    ASSUME \A r \in Rows : speed[r] = 0, NEW p \in Nat, NEW q \in Nat, Synced(p)
    PROVE  Synced(q)
<1>1. \A r \in Rows : (p * speed[r]) \div 256 = 0 /\ (q * speed[r]) \div 256 = 0
  OBVIOUS
<1>2. \A r \in Rows, col \in Cells : Cell(p, r, col) = Cell(q, r, col)
  BY <1>1 DEF Cell, Offset
<1> QED BY <1>2 DEF Synced

(* What is shown at a scroll position depends on the lines alone. *)
LEMMA CellRest ==
    ASSUME UNCHANGED <<data, scroll>>
    PROVE  \A p, r, col : Cell(p, r, col)' = Cell(p, r, col)
BY DEF Cell, Offset, scroll

LEMMA FreshLaid ==
    ASSUME UNCHANGED <<visible, scroll>> PROVE Fresh' = Fresh /\ Laid' = Laid
BY DEF Fresh, Laid, scroll

LEMMA SampleInv == IInv /\ Sample => IInv'
<1> SUFFICES ASSUME IInv, Sample PROVE IInv'
  OBVIOUS
<1> USE DEF panel, cursor, scroll, counts
<1>1. TypeOK' /\ PanelFollows'
  BY DEF IInv, Sample, TypeOK, PanelFollows
<1>2. WidthOK' /\ ActiveOK'
  BY DEF IInv, Sample, WidthOK, Laid, ActiveOK
<1>3. SpeedOK' /\ PaintOK' /\ SyncOK' /\ MovedOK'
  BY DEF IInv, Sample, SpeedOK, PaintOK, SyncOK, MovedOK, Moved
<1> QED BY <1>1, <1>2, <1>3 DEF IInv

LEMMA BeginPaintInv == IInv /\ BeginPaint => IInv'
<1> SUFFICES ASSUME IInv, BeginPaint PROVE IInv'
  OBVIOUS
<1> USE DEF panel, cursor, scroll, counts
<1>1. TypeOK
  BY DEF IInv
<1>2. /\ paint' = [paint EXCEPT !["write"] = Start] /\ "write" \in Callers /\ "timeout" \in Callers
      /\ paint \in [Callers -> [pos : 0 .. ByteSize - 1, row : 0 .. HEIGHT, col : Cells]]
  BY <1>1 DEF BeginPaint, TypeOK, Callers
<1>3. Start \in [pos : 0 .. ByteSize - 1, row : 0 .. HEIGHT, col : Cells]
  BY <1>1, Params DEF Start, TypeOK, Cells
<1>4. /\ paint' \in [Callers -> [pos : 0 .. ByteSize - 1, row : 0 .. HEIGHT, col : Cells]]
      /\ paint'["write"] = Start /\ paint'["timeout"] = paint["timeout"]
  BY <1>2, <1>3
<1>5. TypeOK' /\ PanelFollows'
  BY <1>1, <1>4 DEF IInv, BeginPaint, TypeOK, PanelFollows
<1>6. WidthOK' /\ ActiveOK' /\ SpeedOK' /\ SyncOK'
  BY <1>4 DEF IInv, BeginPaint, WidthOK, Laid, ActiveOK, SpeedOK, SyncOK
<1>7. PaintOK'
  <2>1. \A r \in Rows, col \in Cells : ~Before("write", r, col)'
    BY <1>4, Params DEF Before, Start
  <2> QED BY <2>1 DEF BeginPaint, PaintOK, Done
<1>8. MovedOK'
  BY <1>4 DEF IInv, BeginPaint, MovedOK, Moved, Start
<1> QED BY <1>5, <1>6, <1>7, <1>8 DEF IInv

LEMMA DeactivateInv == IInv /\ Deactivate => IInv'
<1> SUFFICES ASSUME IInv, Deactivate PROVE IInv'
  OBVIOUS
<1> USE DEF panel, cursor, scroll, counts
<1>1. TypeOK' /\ PanelFollows'
  BY DEF IInv, Deactivate, TypeOK, PanelFollows
<1>2. WidthOK' /\ ActiveOK' /\ SpeedOK'
  BY DEF IInv, Deactivate, WidthOK, Laid, ActiveOK, SpeedOK
<1>3. PaintOK' /\ MovedOK'
  BY DEF IInv, Deactivate, PaintOK, MovedOK, Moved
<1>4. SyncOK'
  <2>1. \A r \in Rows, col \in Cells : Before("write", r, col)
    BY Params DEF Deactivate, Before
  <2>2. \A r \in Rows, col \in Cells : visible[r][col] = Cell(paint["write"].pos, r, col)
    BY <2>1 DEF IInv, Deactivate, PaintOK, Done
  <2>3. \A r \in Rows, col \in Cells :
           visible'[r][col] = Cell(paint["write"].pos, r, col)' /\ fpc' = "check"
    BY <2>2, CellRest DEF Deactivate
  <2> QED BY <2>3 DEF SyncOK, Synced, Deactivate
<1> QED BY <1>1, <1>2, <1>3, <1>4 DEF IInv

LEMMA CheckInv == IInv /\ Check => IInv'
<1> SUFFICES ASSUME IInv, Check PROVE IInv'
  OBVIOUS
<1> USE DEF panel, cursor, scroll, counts
<1>0. TypeOK /\ TicksPerWrite \in Nat /\ TypeOK'
  <2>1. 0 \in 0 .. TicksPerWrite
    BY Params
  <2> QED BY <2>1, Params DEF IInv, Check, TypeOK
<1>1. PanelFollows'
  BY DEF IInv, Check, PanelFollows
<1>2. WidthOK' /\ ActiveOK' /\ SpeedOK'
  BY DEF IInv, Check, WidthOK, Laid, ActiveOK, SpeedOK
<1>3. PaintOK' /\ MovedOK'
  BY DEF IInv, Check, PaintOK, MovedOK
<1>4. SyncOK'
  <2>1. fpc = "check" /\ tpc = "off" /\ (Synced(scrollpos) \/ Synced(paint["write"].pos))
    BY DEF IInv, Check, SyncOK
  <2>2. CASE scrollpos # old_scrollpos
    BY <2>2 DEF Check, SyncOK
  <2>3. CASE scrollpos = old_scrollpos
    <3>1. scrollpos \in Nat /\ scrollmax \in Nat /\ paint["write"].pos \in Nat
      BY <1>0, Params DEF TypeOK, Callers
    <3>2. Synced(scrollpos)
      <4>1. CASE scrollmax = 0
        <5>1. \A r \in Rows : speed[r] = 0
          BY <4>1, <2>1 DEF IInv, SpeedOK
        <5> QED BY <5>1, <2>1, <3>1, CellStill
      <4>2. CASE scrollmax > 0
        BY <4>2, <2>1, <2>3 DEF IInv, MovedOK
      <4> QED BY <3>1, <4>1, <4>2
    <3>3. Synced(scrollpos)'
      BY <3>2, CellRest DEF Synced, Check
    <3> QED BY <2>3, <3>3 DEF Check, SyncOK
  <2> QED BY <2>2, <2>3
<1> QED BY <1>0, <1>1, <1>2, <1>3, <1>4 DEF IInv

---------------------------------------------------------------------------
(* Painting, by either. *)

LEMMA Painter ==
    ASSUME TypeOK, Laid, NEW who \in Callers, paint[who].row < HEIGHT
    PROVE  /\ paint[who].row \in Rows /\ paint[who].col \in Cells
           /\ There(who) \in Printing
           /\ Here(who) \in Addresses /\ Here(who) + 1 \in Addresses
<1>1. /\ paint[who].row \in Rows /\ paint[who].col \in Cells /\ paint[who].pos \in Nat
  BY Params DEF TypeOK, Rows
<1> DEFINE r == paint[who].row
           o == (paint[who].pos * speed[r]) \div 256
<1>2. /\ width[r] \in Nat /\ width[r] > 0 /\ width[r] <= VIRTUAL_WIDTH + 1 /\ speed[r] \in Nat
  <2>1. width[r] \in 0 .. VIRTUAL_WIDTH + 1 /\ speed[r] \in 0 .. 255
    BY <1>1 DEF TypeOK
  <2>2. width[r] >= WIDTH
    BY <1>1 DEF Laid
  <2> QED BY <2>1, <2>2, Params
<1>3. paint[who].pos * speed[r] \in Nat
  BY <1>1, <1>2
<1>4. o \in Nat
  BY <1>3
<1>5. Offset(paint[who].pos, r) \in Nat
  BY <1>4 DEF Offset
<1>6. (paint[who].col + Offset(paint[who].pos, r)) % width[r] \in Columns
  <2>1. paint[who].col + Offset(paint[who].pos, r) \in Nat
    BY <1>1, <1>5, Params
  <2>2. (paint[who].col + Offset(paint[who].pos, r)) % width[r] \in 0 .. width[r] - 1
    BY <2>1, <1>2, ModRange
  <2> QED BY <2>2, <1>2, Params DEF Columns
<1>7. There(who) \in Printing
  BY <1>1, <1>6 DEF There, Cell, TypeOK
<1> QED BY <1>1, <1>7, AddressRange DEF Here

LEMMA AdvanceDone ==
    ASSUME TypeOK, NEW who \in Callers, paint[who].row < HEIGHT, Done(who), Advance(who),
           UNCHANGED <<data, scroll>>,
           visible' \in [Rows -> [Cells -> Printing]],
           visible'[paint[who].row][paint[who].col] = There(who),
           \A r \in Rows, col \in Cells :
               ~(r = paint[who].row /\ col = paint[who].col) => visible'[r][col] = visible[r][col]
    PROVE  /\ Done(who)'
           /\ paint' \in [Callers -> [pos : 0 .. ByteSize - 1, row : 0 .. HEIGHT, col : Cells]]
           /\ paint'[who].pos = paint[who].pos
           /\ \A other \in Callers : other # who => paint'[other] = paint[other]
<1> DEFINE p == paint[who]
           q == IF p.col + 1 < WIDTH THEN [p EXCEPT !.col = p.col + 1]
                                     ELSE [p EXCEPT !.row = p.row + 1, !.col = 0]
<1>1. /\ paint \in [Callers -> [pos : 0 .. ByteSize - 1, row : 0 .. HEIGHT, col : Cells]]
      /\ paint' = [paint EXCEPT ![who] = q]
  BY DEF TypeOK, Advance
<1>2. /\ p \in [pos : 0 .. ByteSize - 1, row : 0 .. HEIGHT, col : Cells]
      /\ p.row \in Nat /\ p.row < HEIGHT /\ p.col \in Nat /\ p.col < WIDTH
  BY <1>1, Params
<1>3. /\ q.pos = p.pos
      /\ q.row = IF p.col + 1 < WIDTH THEN p.row ELSE p.row + 1
      /\ q.col = IF p.col + 1 < WIDTH THEN p.col + 1 ELSE 0
  BY <1>2
<1>4. q \in [pos : 0 .. ByteSize - 1, row : 0 .. HEIGHT, col : Cells]
  <2>1. CASE p.col + 1 < WIDTH
    <3>1. q = [p EXCEPT !.col = p.col + 1]
      BY <2>1
    <3>2. p.col + 1 \in Cells
      BY <2>1, <1>2, Params DEF Cells
    <3> HIDE DEF p, q
    <3> QED BY <3>1, <3>2, <1>2
  <2>2. CASE ~(p.col + 1 < WIDTH)
    <3>1. q = [p EXCEPT !.row = p.row + 1, !.col = 0]
      BY <2>2
    <3>2. p.row + 1 \in 0 .. HEIGHT /\ 0 \in Cells
      <4>1. HEIGHT \in Nat /\ WIDTH \in Nat /\ WIDTH >= 1
        BY Params
      <4> HIDE DEF p, q
      <4> QED BY <4>1, <1>2 DEF Cells
    <3> HIDE DEF p, q
    <3> QED BY <3>1, <3>2, <1>2
  <2> QED BY <2>1, <2>2
<1>5. paint'[who] = q /\ \A other \in Callers : other # who => paint'[other] = paint[other]
  BY <1>1
<1>6. ASSUME NEW r \in Rows, NEW col \in Cells, Before(who, r, col)'
      PROVE  visible'[r][col] = Cell(paint[who].pos, r, col)
  <2>1. r < q.row \/ (r = q.row /\ col < q.col)
    BY <1>5, <1>6 DEF Before
  <2>2. Before(who, r, col) \/ (r = p.row /\ col = p.col)
    <3>1. r \in Nat /\ col \in Nat /\ col < WIDTH
      BY Params
    <3> QED BY <2>1, <3>1, <1>2, <1>3, Params DEF Before
  <2>3. CASE r = p.row /\ col = p.col
    BY <2>3 DEF There
  <2>4. CASE ~(r = p.row /\ col = p.col)
    BY <2>2, <2>4 DEF Done
  <2> QED BY <2>3, <2>4
<1>7. Done(who)'
  BY <1>3, <1>5, <1>6, CellRest DEF Done
<1> QED BY <1>1, <1>3, <1>4, <1>5, <1>7

(* What painting leaves alone, and what the painter may rely on. *)
LEMMA PaintFacts ==
    ASSUME IInv, NEW who \in Callers, Paint(who)
    PROVE  /\ TypeOK /\ PanelFollows /\ Laid /\ Done(who)
           /\ paint[who].row < HEIGHT
           /\ \/ who = "write" /\ fpc = "paint" /\ tpc = "off"
              \/ who = "timeout" /\ fpc \in {"idle", "check"} /\ tpc = "paint"
           /\ UNCHANGED <<x, y, data, esccount, escape, width, speed, scrollmax, scrollpos, active,
                          fpc, text, old_scrollpos, tpc, writes, ticks>>
<1>1. /\ Painting(who) /\ paint[who].row < HEIGHT /\ PaintUnchanged
  BY DEF Paint, PaintSkip, PaintSeek, PaintPut, Pending
<1>2. TypeOK /\ PanelFollows
  BY DEF IInv
<1>3. \/ who = "write" /\ fpc = "paint" /\ tpc = "off"
      \/ who = "timeout" /\ tpc = "paint"
  BY <1>1 DEF Painting, Callers
<1>4. tpc = "paint" => fpc \in {"idle", "check"}
  BY <1>2 DEF IInv, ActiveOK, TypeOK
<1>5. Laid /\ Done(who)
  BY <1>3 DEF IInv, WidthOK, PaintOK
<1> QED BY <1>1, <1>2, <1>3, <1>4, <1>5 DEF PaintUnchanged, cursor, scroll, counts

(* What is left to show of a step that paints. *)
LEMMA PaintRest ==
    ASSUME IInv, NEW who \in Callers, Paint(who), TypeOK', PanelFollows', Done(who)',
           paint'[who].pos = paint[who].pos,
           \A other \in Callers : other # who => paint'[other] = paint[other]
    PROVE  IInv'
<1>1. /\ \/ who = "write" /\ fpc = "paint" /\ tpc = "off"
         \/ who = "timeout" /\ fpc \in {"idle", "check"} /\ tpc = "paint"
      /\ UNCHANGED <<x, y, data, esccount, escape, width, speed, scrollmax, scrollpos, active,
                     fpc, text, old_scrollpos, tpc, writes, ticks>>
      /\ Laid
  BY PaintFacts
<1>2. /\ paint'["write"].pos = paint["write"].pos /\ paint'["timeout"].pos = paint["timeout"].pos
  BY DEF Callers
<1>3. Laid'
  BY <1>1 DEF Laid
<1>4. WidthOK'
  BY <1>1, <1>3 DEF IInv, WidthOK
<1>5. ActiveOK' /\ SpeedOK'
  BY <1>1, <1>2 DEF IInv, ActiveOK, SpeedOK
<1>6. PaintOK' /\ SyncOK'
  BY <1>1 DEF PaintOK, SyncOK
<1>7. MovedOK'
  BY <1>1, <1>2 DEF IInv, MovedOK, Moved
<1> QED BY <1>4, <1>5, <1>6, <1>7 DEF IInv

LEMMA PaintInv == ASSUME IInv, NEW who \in Callers, Paint(who) PROVE IInv'
<1> DEFINE R == paint[who].row
           C == paint[who].col
<1>1. /\ TypeOK /\ PanelFollows /\ Laid /\ Done(who) /\ R < HEIGHT
      /\ UNCHANGED <<x, y, data, esccount, escape, width, speed, scrollmax, scrollpos, active,
                     fpc, text, old_scrollpos, tpc, writes, ticks>>
  BY PaintFacts
<1>2. /\ R \in Rows /\ C \in Cells /\ There(who) \in Printing
      /\ Here(who) \in Addresses /\ Here(who) + 1 \in Addresses
      /\ Here(who) = colstart[R] + C
  BY <1>1, Painter DEF Here
<1>3. visible \in [Rows -> [Cells -> Printing]] /\ ddram \in [Addresses -> Printing]
  BY <1>1 DEF TypeOK
<1>4. UNCHANGED <<data, scroll>>
  BY <1>1 DEF scroll
<1>5. CASE PaintSkip(who)
  <2>1. Advance(who) /\ visible[R][C] = There(who) /\ UNCHANGED <<ddram, ac, broken, address, visible>>
    BY <1>5 DEF PaintSkip, Shown, panel
  <2>2. /\ Done(who)'
        /\ paint' \in [Callers -> [pos : 0 .. ByteSize - 1, row : 0 .. HEIGHT, col : Cells]]
        /\ paint'[who].pos = paint[who].pos
        /\ \A other \in Callers : other # who => paint'[other] = paint[other]
    BY <1>1, <1>3, <1>4, <2>1, AdvanceDone
  <2>3. TypeOK' /\ PanelFollows'
    BY <1>1, <2>1, <2>2 DEF TypeOK, PanelFollows
  <2> QED BY <2>2, <2>3, PaintRest
<1>6. CASE PaintSeek(who)
  <2>1. CommandAddress(Here(who)) /\ address' = Here(who) /\ UNCHANGED <<visible, paint>>
    BY <1>6 DEF PaintSeek
  <2>2. /\ ac' \in Addresses /\ broken' \in BOOLEAN /\ ddram' = ddram
        /\ ~broken' => ~broken /\ ac' = address'
    BY <1>1, <1>2, <2>1 DEF CommandAddress, NoAnswer, TypeOK
  <2>3. TypeOK' /\ PanelFollows'
    BY <1>1, <1>2, <2>1, <2>2 DEF TypeOK, PanelFollows
  <2>4. Done(who)'
    BY <1>1, <1>4, <2>1, CellRest DEF Done, Before
  <2> QED BY <2>1, <2>3, <2>4, PaintRest
<1>7. CASE PaintPut(who)
  <2>1. /\ lcd_write_data(There(who)) /\ address = Here(who) /\ Advance(who)
        /\ visible' = [visible EXCEPT ![R][C] = There(who)]
    BY <1>7 DEF PaintPut
  <2>2. visible' = [visible EXCEPT ![R] = [visible[R] EXCEPT ![C] = There(who)]]
    BY <2>1
  <2>3. /\ visible' \in [Rows -> [Cells -> Printing]]
        /\ visible'[R][C] = There(who)
        /\ \A r \in Rows, col \in Cells :
               ~(r = R /\ col = C) => visible'[r][col] = visible[r][col]
    <3> HIDE DEF R, C
    <3>1. [visible[R] EXCEPT ![C] = There(who)] \in [Cells -> Printing]
      BY <1>2, <1>3
    <3> QED BY <1>2, <1>3, <2>2, <3>1
  <2>4. /\ Done(who)'
        /\ paint' \in [Callers -> [pos : 0 .. ByteSize - 1, row : 0 .. HEIGHT, col : Cells]]
        /\ paint'[who].pos = paint[who].pos
        /\ \A other \in Callers : other # who => paint'[other] = paint[other]
    BY <1>1, <1>4, <2>1, <2>3, AdvanceDone
  <2>5. \/ broken' /\ UNCHANGED <<ddram, ac, address>>
        \/ /\ ~broken /\ ~broken' /\ ac' = ac + 1 /\ address' = address + 1
           /\ ddram' = [ddram EXCEPT ![ac] = There(who)]
    BY <1>1, <2>1 DEF lcd_write_data, NoAnswer, TypeOK
  <2>6. ~broken => ac = Here(who)
    BY <1>1, <2>1 DEF PanelFollows
  <2>7. /\ ac' \in Addresses /\ address' \in Addresses /\ broken' \in BOOLEAN
        /\ ddram' \in [Addresses -> Printing]
    <3>1. ac \in Addresses /\ address \in Addresses /\ broken \in BOOLEAN
      BY <1>1 DEF TypeOK
    <3>2. CASE broken' /\ UNCHANGED <<ddram, ac, address>>
      BY <3>1, <3>2, <1>3
    <3>3. CASE /\ ~broken /\ ~broken' /\ ac' = ac + 1 /\ address' = address + 1
               /\ ddram' = [ddram EXCEPT ![ac] = There(who)]
      <4>1. ac' = Here(who) + 1 /\ address' = Here(who) + 1 /\ ddram' \in [Addresses -> Printing]
        BY <3>3, <1>2, <1>3, <2>1, <2>6
      <4>2. broken' \in BOOLEAN
        BY <1>1, <2>1 DEF TypeOK, lcd_write_data, NoAnswer
      <4> QED BY <4>1, <4>2, <1>2
    <3> QED BY <2>5, <3>2, <3>3
  <2>8. TypeOK'
    BY <1>1, <2>3, <2>4, <2>7 DEF TypeOK
  <2>9. PanelFollows'
    <3> SUFFICES ASSUME ~broken'
                 PROVE  /\ ac' = address'
                        /\ \A r \in Rows, col \in Cells : ddram'[colstart[r] + col] = visible'[r][col]
      BY DEF PanelFollows
    <3>1. /\ ~broken /\ ac = address /\ ac' = address'
          /\ ddram' = [ddram EXCEPT ![Here(who)] = There(who)]
      BY <1>1, <2>5, <2>6 DEF PanelFollows
    <3>2. ASSUME NEW r \in Rows, NEW col \in Cells
          PROVE  ddram'[colstart[r] + col] = visible'[r][col]
      <4>1. ddram[colstart[r] + col] = visible[r][col] /\ colstart[r] + col \in Addresses
        BY <1>1, <3>1, AddressRange DEF PanelFollows
      <4>2. CASE r = R /\ col = C
        BY <4>1, <4>2, <1>2, <1>3, <2>3, <3>1
      <4>3. CASE ~(r = R /\ col = C)
        <5>1. colstart[r] + col # Here(who)
          BY <4>3, <1>2, AddressRange
        <5> QED BY <4>1, <4>3, <5>1, <1>3, <2>3, <3>1
      <4> QED BY <4>2, <4>3
    <3> QED BY <3>1, <3>2
  <2> QED BY <2>4, <2>8, <2>9, PaintRest
<1> QED BY <1>5, <1>6, <1>7 DEF Paint

---------------------------------------------------------------------------
(* The timeout. *)

(* The position after a timeout. *)
LEMMA TimeoutPosition ==
    ASSUME TypeOK, Timeout
    PROVE  /\ scrollpos' \in 0 .. ByteSize - 1
           /\ scrollmax > 0 => scrollpos' < scrollmax
<1>1. scrollpos \in Nat /\ scrollmax \in Nat /\ scrollmax <= ByteSize - 1
  BY Params DEF TypeOK
<1>2. scrollpos' = IF scrollpos + 1 >= scrollmax THEN 0 ELSE scrollpos + 1
  BY DEF Timeout
<1> QED BY <1>1, <1>2, Params

LEMMA TimeoutMoves ==
    ASSUME IInv, Timeout, scrollmax > 0, fpc \in {"begin", "paint", "check"}
    PROVE  Moved' /\ scrollpos' # old_scrollpos'
<1>1. /\ scrollmax \in Nat /\ scrollmax >= 2 * WIDTH + 4 /\ Moved
      /\ scrollpos \in Nat /\ old_scrollpos \in Nat /\ ticks \in Nat
  BY Params DEF IInv, SpeedOK, MovedOK, TypeOK
<1>2. ticks' = ticks + 1 /\ ticks < 2 * WIDTH + 3
  BY Params, <1>1 DEF Timeout
<1>3. scrollpos' = IF scrollpos + 1 >= scrollmax THEN 0 ELSE scrollpos + 1
  BY DEF Timeout
<1>4. scrollmax' = scrollmax /\ old_scrollpos' = old_scrollpos
  BY DEF Timeout, scroll
<1>5. CASE scrollpos = old_scrollpos
  BY <1>1, <1>2, <1>3, <1>4, <1>5, Params DEF Moved
<1>6. CASE old_scrollpos < scrollpos
  BY <1>1, <1>2, <1>3, <1>4, <1>6, Params DEF Moved
<1>7. CASE scrollpos < old_scrollpos
  BY <1>1, <1>2, <1>3, <1>4, <1>7, Params DEF Moved
<1> QED BY <1>1, <1>5, <1>6, <1>7

LEMMA TimeoutInv == IInv /\ Timeout => IInv'
<1> SUFFICES ASSUME IInv, Timeout PROVE IInv'
  OBVIOUS
<1>1. /\ UNCHANGED <<ddram, ac, broken, address, x, y, data, esccount, escape, width, speed, scrollmax,
                     visible, active, fpc, text, old_scrollpos, writes>>
      /\ tpc = "off" /\ TypeOK /\ scrollpos' \in 0 .. ByteSize - 1
      /\ "write" \in Callers /\ "timeout" \in Callers
  BY TimeoutPosition DEF IInv, Timeout, panel, cursor, scroll, Callers
<1> DEFINE First == [Start EXCEPT !.pos = scrollpos']
<1>2. First = [pos |-> scrollpos', row |-> 0, col |-> 0]
  BY DEF Start
<1>3. \/ /\ scrollmax > 0 /\ ~active /\ tpc' = "paint"
         /\ paint' = [paint EXCEPT !["timeout"] = First]
      \/ ~(scrollmax > 0 /\ ~active) /\ tpc' = "off" /\ paint' = paint
  BY <1>1 DEF Timeout
<1>4. /\ paint' \in [Callers -> [pos : 0 .. ByteSize - 1, row : 0 .. HEIGHT, col : Cells]]
      /\ paint'["write"] = paint["write"]
      /\ tpc' = "paint" => paint'["timeout"] = First
  <2>1. paint \in [Callers -> [pos : 0 .. ByteSize - 1, row : 0 .. HEIGHT, col : Cells]]
    BY <1>1 DEF TypeOK
  <2>2. First \in [pos : 0 .. ByteSize - 1, row : 0 .. HEIGHT, col : Cells]
    BY <1>1, <1>2, Params DEF Cells
  <2> HIDE DEF First
  <2> QED BY <1>1, <1>3, <2>1, <2>2
<1> HIDE DEF First
<1>5. ticks' \in 0 .. TicksPerWrite
  <2>1. ticks \in 0 .. TicksPerWrite /\ TicksPerWrite \in Nat
    BY <1>1, Params DEF TypeOK
  <2>2. ticks' = ticks \/ (ticks < TicksPerWrite /\ ticks' = ticks + 1)
    BY DEF Timeout
  <2> QED BY <2>1, <2>2
<1>6. TypeOK'
  BY <1>1, <1>3, <1>4, <1>5 DEF TypeOK
<1>7. PanelFollows'
  BY <1>1 DEF IInv, PanelFollows
<1>8. tpc' = "paint" => scrollmax > 0 /\ ~active /\ fpc \in {"idle", "check"}
  BY <1>1, <1>3 DEF IInv, ActiveOK, TypeOK
<1>9. Laid' = Laid /\ Fresh' = Fresh
  BY <1>1, FreshLaid DEF scroll
<1>10. WidthOK'
  <2>1. tpc' = "paint" => Laid
    BY <1>1, <1>8 DEF IInv, WidthOK, Fresh
  <2> QED BY <1>1, <1>9, <2>1 DEF IInv, WidthOK
<1>11. ActiveOK'
  BY <1>1, <1>2, <1>4, <1>8 DEF IInv, ActiveOK
<1>12. SpeedOK'
  BY <1>1 DEF IInv, SpeedOK
<1>13. \A p, r, col : Cell(p, r, col)' = Cell(p, r, col)
  BY <1>1, CellRest DEF scroll
<1>14. PaintOK'
  <2>1. fpc' = "paint" => Done("write")'
    BY <1>1, <1>4, <1>13 DEF IInv, PaintOK, Done, Before
  <2>2. tpc' = "paint" => Done("timeout")'
    <3>1. tpc' = "paint" => \A r \in Rows, col \in Cells : ~Before("timeout", r, col)'
      BY <1>2, <1>4, Params DEF Before
    <3> QED BY <3>1 DEF Done
  <2> QED BY <2>1, <2>2 DEF PaintOK
<1>15. SyncOK'
  <2> SUFFICES ASSUME tpc' = "off", fpc \in {"check", "idle"}
               PROVE  /\ fpc = "check" => Synced(scrollpos)'
                      /\ fpc = "idle" => Fresh \/ Synced(scrollpos)'
    BY <1>1, <1>9 DEF SyncOK
  <2>1. scrollmax = 0
    <3>1. ~active
      BY DEF IInv, ActiveOK
    <3>2. scrollmax \in Nat
      BY <1>1, Params DEF TypeOK
    <3> QED BY <3>1, <3>2, <1>3
  <2>2. \A r \in Rows : speed[r] = 0
    BY <2>1 DEF IInv, SpeedOK
  <2>3. scrollpos \in Nat /\ scrollpos' \in Nat /\ paint["write"].pos \in Nat
    BY <1>1, Params DEF TypeOK
  <2>4. \/ fpc = "idle" /\ Fresh
        \/ Synced(scrollpos)
        \/ Synced(paint["write"].pos)
    BY <1>1 DEF IInv, SyncOK
  <2>5. Synced(scrollpos) \/ Synced(paint["write"].pos) =>
           \A r \in Rows, col \in Cells : visible[r][col] = Cell(scrollpos', r, col)
    BY <2>2, <2>3, CellStill DEF Synced
  <2>6. Synced(scrollpos) \/ Synced(paint["write"].pos) => Synced(scrollpos)'
    BY <2>5, <1>1, <1>13 DEF Synced
  <2> QED BY <2>4, <2>6
<1>16. MovedOK'
  BY <1>1, <1>4, TimeoutMoves DEF MovedOK
<1> QED BY <1>6, <1>7, <1>10, <1>11, <1>12, <1>14, <1>15, <1>16 DEF IInv

LEMMA TimeoutReturnsInv == IInv /\ TimeoutReturns => IInv'
<1> SUFFICES ASSUME IInv, TimeoutReturns PROVE IInv'
  OBVIOUS
<1> USE DEF panel, cursor, scroll, counts
<1>1. TypeOK' /\ PanelFollows'
  BY DEF IInv, TimeoutReturns, TypeOK, PanelFollows
<1>2. WidthOK' /\ ActiveOK' /\ SpeedOK'
  BY DEF IInv, TimeoutReturns, WidthOK, Laid, Fresh, ActiveOK, SpeedOK
<1>3. PaintOK'
  <2>1. fpc = "paint" => FALSE
    BY DEF IInv, ActiveOK, TimeoutReturns
  <2> QED BY <2>1 DEF TimeoutReturns, PaintOK
<1>4. SyncOK'
  <2>1. \A r \in Rows, col \in Cells : Before("timeout", r, col)
    BY Params DEF TimeoutReturns, Before
  <2>2. \A r \in Rows, col \in Cells : visible[r][col] = Cell(scrollpos, r, col)
    BY <2>1 DEF IInv, TimeoutReturns, PaintOK, Done, ActiveOK
  <2>3. \A r \in Rows, col \in Cells : visible'[r][col] = Cell(scrollpos, r, col)'
    BY <2>2, CellRest DEF TimeoutReturns
  <2> QED BY <2>3 DEF SyncOK, Synced, TimeoutReturns
<1>5. MovedOK'
  BY DEF IInv, TimeoutReturns, MovedOK, Moved
<1> QED BY <1>1, <1>2, <1>3, <1>4, <1>5 DEF IInv

---------------------------------------------------------------------------
THEOREM InitInv == Init => IInv
<1> SUFFICES ASSUME Init PROVE IInv
  OBVIOUS
<1>1. TypeOK
  <2>1. /\ ac \in Addresses /\ address \in Addresses /\ broken \in BOOLEAN
        /\ ddram \in [Addresses -> Printing]
    BY Params, AddressRange DEF Init
  <2>2. /\ x \in 0 .. ByteSize - 1 /\ y \in 0 .. HEIGHT
        /\ data \in [Rows -> [Columns -> Printing]]
        /\ \A r \in Rows : data[r][VIRTUAL_WIDTH] = "SPACE"
        /\ esccount \in -1 .. 7 /\ escape \in [parm1 : Nat, parm2 : Nat, field : Nat]
    BY Params DEF Init, BlankLine, Columns, NoEscape
  <2>3. /\ width \in [Rows -> 0 .. VIRTUAL_WIDTH + 1] /\ speed \in [Rows -> 0 .. 255]
        /\ scrollpos \in 0 .. ByteSize - 1 /\ scrollmax \in 0 .. ByteSize - 1
        /\ visible \in [Rows -> [Cells -> Printing]]
    BY Params DEF Init
  <2>4. active \in BOOLEAN /\ fpc = "idle" /\ tpc = "off"
    BY DEF Init
  <2>8. old_scrollpos \in 0 .. ByteSize - 1
    BY Params DEF Init
  <2>7. text \in Seq(Printing \cup CONTROLS)
    <3>1. <<>> \in Seq(Printing \cup CONTROLS)
      OBVIOUS
    <3> QED BY <3>1 DEF Init
  <2>5. paint \in [Callers -> [pos : 0 .. ByteSize - 1, row : 0 .. HEIGHT, col : Cells]]
    BY Params DEF Init, Cells
  <2>6. writes \in 0 .. MaxWrites /\ ticks \in 0 .. TicksPerWrite
    BY Params, LcdAssumption DEF Init
  <2> QED BY <2>1, <2>2, <2>3, <2>4, <2>5, <2>6, <2>7, <2>8 DEF TypeOK
<1>2. PanelFollows
  BY AddressRange DEF Init, PanelFollows
<1>3. Fresh
  BY DEF Init, Fresh
<1>4. WidthOK /\ ActiveOK /\ PaintOK /\ SyncOK
  BY <1>3 DEF Init, WidthOK, ActiveOK, PaintOK, SyncOK
<1>5. SpeedOK /\ MovedOK
  BY DEF Init, SpeedOK, MovedOK
<1> QED BY <1>1, <1>2, <1>4, <1>5 DEF IInv

THEOREM StepInv == IInv /\ [Next]_vars => IInv'
<1>1. IInv /\ UNCHANGED vars => IInv'
  <2> SUFFICES ASSUME IInv, UNCHANGED vars PROVE IInv'
    OBVIOUS
  <2> USE DEF vars, panel, cursor, scroll, counts
  <2>1. TypeOK' /\ PanelFollows'
    BY DEF IInv, TypeOK, PanelFollows
  <2>2. WidthOK' /\ ActiveOK' /\ SpeedOK' /\ MovedOK'
    BY DEF IInv, WidthOK, Laid, Fresh, ActiveOK, SpeedOK, MovedOK, Moved
  <2>3. PaintOK' /\ SyncOK'
    BY DEF IInv, PaintOK, Done, Before, SyncOK, Synced, Fresh, Cell, Offset
  <2> QED BY <2>1, <2>2, <2>3 DEF IInv
<1>2. IInv /\ WriteStep => IInv'
  <2>1. "write" \in Callers
    BY DEF Callers
  <2> QED BY <2>1, CharacterInv, RecalculateInv, SampleInv, BeginPaintInv, PaintInv, DeactivateInv,
             CheckInv DEF WriteStep
<1>3. IInv /\ TimeoutStep => IInv'
  <2>1. "timeout" \in Callers
    BY DEF Callers
  <2> QED BY <2>1, PaintInv, TimeoutReturnsInv DEF TimeoutStep
<1> QED BY <1>1, <1>2, <1>3, WriteBeginInv, TimeoutInv DEF Next

THEOREM InvHolds == Spec => []IInv
BY InitInv, StepInv, PTL DEF Spec

---------------------------------------------------------------------------
(* The ranges of the variables, for every string: no sequence of characters *)
(* and escape sequences takes the cursor or a counter out of its range.     *)
THEOREM TypeCorrect == Spec => []TypeOK
<1>1. IInv => TypeOK
  BY DEF IInv
<1> QED BY <1>1, InvHolds, PTL

(* The panel shows what the driver believes it shows. *)
THEOREM PanelFollowed == Spec => []PanelFollows
<1>1. IInv => PanelFollows
  BY DEF IInv
<1> QED BY <1>1, InvHolds, PTL

(* At rest the panel shows the text at the present scroll position. *)
THEOREM RestIsShown == Spec => []RestShows
<1>1. IInv => RestShows
  <2> SUFFICES ASSUME IInv, fpc = "idle", tpc = "off", ~broken, NEW r \in Rows, NEW col \in Cells
               PROVE  ddram[colstart[r] + col] =
                         IF width[r] = 0 THEN "SPACE" ELSE Cell(scrollpos, r, col)
    BY DEF RestShows
  <2>1. ddram[colstart[r] + col] = visible[r][col]
    BY DEF IInv, PanelFollows
  <2>2. CASE Fresh
    BY <2>1, <2>2 DEF Fresh
  <2>3. CASE ~Fresh
    <3>1. Laid /\ visible[r][col] = Cell(scrollpos, r, col)
      BY <2>3 DEF IInv, WidthOK, SyncOK, Synced
    <3>2. width[r] # 0
      BY <3>1, Params DEF Laid
    <3> QED BY <2>1, <3>1, <3>2
  <2> QED BY <2>2, <2>3
<1> QED BY <1>1, InvHolds, PTL
---------------------------------------------------------------------------
(* How much of a repaint is left: two steps for each cell to come, one if   *)
(* the panel's address is already that of the next cell.                   *)

CellsLeft(row, col) == (HEIGHT - row) * WIDTH - col
StepsLeft(who) ==
  LET p == paint[who]
  IN  IF p.row < HEIGHT
      THEN 2 * CellsLeft(p.row, p.col) - (IF address = Here(who) THEN 1 ELSE 0)
      ELSE 0

LEMMA CellsRange ==
    ASSUME NEW row \in 0 .. HEIGHT - 1, NEW col \in Cells
    PROVE  /\ CellsLeft(row, col) \in 1 .. HEIGHT * WIDTH
           /\ col + 1 < WIDTH => CellsLeft(row, col + 1) = CellsLeft(row, col) - 1
           /\ col + 1 >= WIDTH => CellsLeft(row + 1, 0) = CellsLeft(row, col) - 1
<1>1. HEIGHT \in 1 .. 2 /\ WIDTH \in 1 .. 39 /\ col \in 0 .. WIDTH - 1
  BY LcdAssumption DEF Cells
<1>2. CASE HEIGHT = 1
  <2>1. row = 0
    BY <1>2
  <2>2. /\ CellsLeft(row, col) = WIDTH - col /\ CellsLeft(row, col + 1) = WIDTH - (col + 1)
        /\ CellsLeft(row + 1, 0) = 0 /\ HEIGHT * WIDTH = WIDTH
    BY <1>1, <1>2, <2>1 DEF CellsLeft
  <2> QED
    BY <1>1, <2>2
<1>3. CASE HEIGHT = 2 /\ row = 0
  <2>1. /\ CellsLeft(row, col) = 2 * WIDTH - col /\ CellsLeft(row, col + 1) = 2 * WIDTH - (col + 1)
        /\ CellsLeft(row + 1, 0) = WIDTH /\ HEIGHT * WIDTH = 2 * WIDTH
    BY <1>1, <1>3 DEF CellsLeft
  <2> QED
    BY <1>1, <2>1
<1>4. CASE HEIGHT = 2 /\ row = 1
  <2>1. /\ CellsLeft(row, col) = WIDTH - col /\ CellsLeft(row, col + 1) = WIDTH - (col + 1)
        /\ CellsLeft(row + 1, 0) = 0 /\ HEIGHT * WIDTH = 2 * WIDTH
    BY <1>1, <1>4 DEF CellsLeft
  <2> QED
    BY <1>1, <2>1
<1>5. HEIGHT = 1 \/ (HEIGHT = 2 /\ row = 0) \/ (HEIGHT = 2 /\ row = 1)
  BY <1>1
<1> QED
  BY <1>2, <1>3, <1>4, <1>5

LEMMA PaintPlace ==
    ASSUME TypeOK, NEW who \in Callers
    PROVE  /\ HEIGHT \in 1 .. 2 /\ WIDTH \in 1 .. 39 /\ HEIGHT * WIDTH \in Nat
           /\ paint[who].row \in 0 .. HEIGHT
           /\ paint[who].row < HEIGHT => paint[who].row \in 0 .. HEIGHT - 1
           /\ paint[who].col \in Cells /\ paint[who].col \in 0 .. WIDTH - 1
<1>1. HEIGHT \in 1 .. 2 /\ WIDTH \in 1 .. 39
  BY LcdAssumption
<1>2. HEIGHT * WIDTH \in Nat
  BY <1>1
<1>3. paint[who].row \in 0 .. HEIGHT /\ paint[who].col \in Cells
  BY DEF TypeOK
<1> QED
  BY <1>1, <1>2, <1>3 DEF Cells

LEMMA StepsRange ==
    ASSUME TypeOK, NEW who \in Callers
    PROVE  /\ StepsLeft(who) \in 0 .. 2 * (HEIGHT * WIDTH)
           /\ paint[who].row < HEIGHT => StepsLeft(who) > 0
<1>1. /\ HEIGHT \in 1 .. 2 /\ HEIGHT * WIDTH \in Nat
      /\ paint[who].row \in 0 .. HEIGHT /\ paint[who].col \in Cells
  BY PaintPlace
<1>2. CASE paint[who].row < HEIGHT
  <2>1. CellsLeft(paint[who].row, paint[who].col) \in 1 .. HEIGHT * WIDTH
    <3>1. paint[who].row \in 0 .. HEIGHT - 1
      BY <1>1, <1>2
    <3> QED
      BY <1>1, <3>1, CellsRange
  <2>2. \/ StepsLeft(who) = 2 * CellsLeft(paint[who].row, paint[who].col) - 1
        \/ StepsLeft(who) = 2 * CellsLeft(paint[who].row, paint[who].col)
    BY <1>2, <2>1 DEF StepsLeft
  <2> QED
    BY <1>1, <2>1, <2>2
<1>3. CASE ~ (paint[who].row < HEIGHT)
  BY <1>1, <1>3 DEF StepsLeft
<1> QED
  BY <1>2, <1>3

LEMMA AdvanceShortens ==
    ASSUME TypeOK, TypeOK', NEW who \in Callers, paint[who].row < HEIGHT, Advance(who)
    PROVE  \/ StepsLeft(who)' = 0
           \/ StepsLeft(who)' <= 2 * (CellsLeft(paint[who].row, paint[who].col) - 1)
<1> DEFINE p == paint[who]
           q == paint'[who]
<1>1. /\ HEIGHT \in 1 .. 2 /\ p.row \in 0 .. HEIGHT - 1 /\ p.col \in Cells /\ WIDTH \in 1 .. 39
      /\ p.col \in 0 .. WIDTH - 1 /\ HEIGHT * WIDTH \in Nat
  BY PaintPlace
<1>2. /\ q.row = IF p.col + 1 < WIDTH THEN p.row ELSE p.row + 1
      /\ q.col = IF p.col + 1 < WIDTH THEN p.col + 1 ELSE 0
  BY DEF TypeOK, Advance
<1>3. StepsLeft(who)' =
        IF q.row < HEIGHT THEN 2 * CellsLeft(q.row, q.col) - (IF address' = Here(who)' THEN 1 ELSE 0)
                          ELSE 0
  BY DEF StepsLeft, CellsLeft
<1> HIDE DEF p, q
<1>4. CellsLeft(q.row, q.col) = CellsLeft(p.row, p.col) - 1
  BY <1>1, <1>2, CellsRange
<1>5. CellsLeft(p.row, p.col) \in 1 .. HEIGHT * WIDTH
  BY <1>1, CellsRange
<1>6. StepsLeft(who)' = 0 \/ StepsLeft(who)' <= 2 * CellsLeft(q.row, q.col)
  BY <1>3, <1>1, <1>4, <1>5
<1> QED
  BY <1>4, <1>6 DEF p

LEMMA PaintShortens ==
    ASSUME IInv, IInv', NEW who \in Callers, Paint(who)
    PROVE  /\ StepsLeft(who)' < StepsLeft(who)
           /\ \A other \in Callers : other # who => paint'[other] = paint[other]
<1> DEFINE c == CellsLeft(paint[who].row, paint[who].col)
<1>0. TypeOK /\ TypeOK' /\ paint[who].row < HEIGHT
  BY PaintFacts DEF IInv
<1>1. /\ TypeOK /\ TypeOK' /\ paint[who].row < HEIGHT
      /\ paint[who].row \in 0 .. HEIGHT - 1 /\ paint[who].col \in Cells
      /\ HEIGHT * WIDTH \in Nat
  BY <1>0, PaintPlace
<1>2. c \in 1 .. HEIGHT * WIDTH
  BY <1>1, CellsRange
<1>3. StepsLeft(who) = 2 * c - (IF address = Here(who) THEN 1 ELSE 0)
  BY <1>1 DEF StepsLeft
<1>4. StepsLeft(who)' \in Nat /\ StepsLeft(who) > 0
  <2>1. StepsLeft(who) > 0
    BY <1>1, StepsRange
  <2>2. paint'[who].row \in 0 .. HEIGHT /\ paint'[who].col \in Cells /\ HEIGHT \in 1 .. 2
    BY <1>1, LcdAssumption DEF TypeOK
  <2>3. StepsLeft(who)' =
          IF paint'[who].row < HEIGHT
          THEN 2 * CellsLeft(paint'[who].row, paint'[who].col) - (IF address' = Here(who)' THEN 1 ELSE 0)
          ELSE 0
    BY DEF StepsLeft, CellsLeft
  <2>4. paint'[who].row < HEIGHT =>
          CellsLeft(paint'[who].row, paint'[who].col) \in 1 .. HEIGHT * WIDTH
    BY <2>2, CellsRange
  <2> QED
    BY <1>1, <2>1, <2>3, <2>4
<1> HIDE DEF c
<1>5. CASE PaintSkip(who) \/ PaintPut(who)
  <2>1. Advance(who)
    BY <1>5 DEF PaintSkip, PaintPut
  <2>2. StepsLeft(who)' = 0 \/ StepsLeft(who)' <= 2 * (c - 1)
    BY <1>1, <2>1, AdvanceShortens DEF c
  <2>3. StepsLeft(who) >= 2 * c - 1
    BY <1>1, <1>2, <1>3
  <2>4. StepsLeft(who)' < StepsLeft(who)
    BY <1>1, <1>2, <1>3, <1>4, <2>2, <2>3
  <2> QED
    BY <1>1, <2>1, <2>4 DEF Advance, TypeOK
<1>6. CASE PaintSeek(who)
  <2>1. address # Here(who) /\ address' = Here(who) /\ UNCHANGED paint
    BY <1>6 DEF PaintSeek
  <2>2. Here(who)' = Here(who)
    BY <2>1 DEF Here, colstart
  <2>3. StepsLeft(who) = 2 * c
    BY <1>1, <1>2, <1>3, <2>1
  <2>4. StepsLeft(who)' = 2 * c - 1
    BY <1>1, <1>2, <2>1, <2>2 DEF StepsLeft, CellsLeft, c
  <2> QED
    BY <1>1, <1>2, <2>1, <2>3, <2>4
<1> QED
  BY <1>5, <1>6 DEF Paint

(* Every step of a repaint brings it nearer to its end: the steps that are   *)
(* left go down by at least one with every step of the painter's own.  The  *)
(* timeout, once in lcd_repaint_screen, is not stopped and leaves the       *)
(* write's place alone; the write is stopped by a tick at most.            *)
RepaintShortens ==
    /\ \A who \in Callers : StepsLeft(who) \in 0 .. 2 * (HEIGHT * WIDTH)
    /\ tpc = "paint" =>
         /\ StepsLeft("timeout")' < StepsLeft("timeout") \/ TimeoutReturns
         /\ paint'["write"] = paint["write"]
    /\ fpc = "paint" /\ tpc = "off" =>
         \/ StepsLeft("write")' < StepsLeft("write")
         \/ Deactivate
         \/ ticks' = ticks + 1 /\ StepsLeft("write")' = StepsLeft("write")

(* lcd_repaint_screen ends, called from the write or from the interrupt,     *)
(* within two commands for each cell of the panel and on a broken panel too. *)
THEOREM RepaintIsBounded == Spec => [][RepaintShortens]_vars
<1>1. ASSUME IInv, IInv', [Next]_vars PROVE [RepaintShortens]_vars
  <2> SUFFICES ASSUME Next PROVE RepaintShortens
    BY <1>1
  <2>1. TypeOK /\ "write" \in Callers /\ "timeout" \in Callers /\ "write" # "timeout"
    BY <1>1 DEF IInv, Callers
  <2>2. \A who \in Callers : StepsLeft(who) \in 0 .. 2 * (HEIGHT * WIDTH)
    BY <2>1, StepsRange
  <2>3. ASSUME tpc = "paint"
        PROVE  /\ StepsLeft("timeout")' < StepsLeft("timeout") \/ TimeoutReturns
               /\ paint'["write"] = paint["write"]
    <3>1. Paint("timeout") \/ TimeoutReturns
      <4>1. ~ \E s \in Strings : WriteBegin(s)
        BY <2>3 DEF WriteBegin
      <4>2. ~Timeout
        BY <2>3 DEF Timeout
      <4>3. ~WriteStep
        <5>1. \A c : ~Character(c)
          BY <2>3 DEF Character, EscapeMore, EscapeCursor, EscapeClear, EscapeLineEnd, EscapeUnknown,
                      Control, Printed, EscapeEnd, Plain, Take
        <5>2. ~Paint("write")
          BY <2>3 DEF Paint, PaintSkip, PaintSeek, PaintPut, Pending, Painting
        <5> QED
          BY <2>3, <5>1, <5>2 DEF WriteStep, Recalculate, Sample, BeginPaint, Deactivate, Check
      <4> QED
        BY <4>1, <4>2, <4>3 DEF Next, TimeoutStep
    <3>2. CASE Paint("timeout")
      BY <1>1, <2>1, <3>2, PaintShortens
    <3>3. CASE TimeoutReturns
      BY <3>3 DEF TimeoutReturns
    <3> QED
      BY <3>1, <3>2, <3>3
  <2>4. ASSUME fpc = "paint", tpc = "off"
        PROVE  \/ StepsLeft("write")' < StepsLeft("write")
               \/ Deactivate
               \/ ticks' = ticks + 1 /\ StepsLeft("write")' = StepsLeft("write")
    <3>1. Paint("write") \/ Deactivate \/ Timeout
      <4>1. ~ \E s \in Strings : WriteBegin(s)
        BY <2>4 DEF WriteBegin
      <4>2. ~TimeoutStep
        BY <2>4 DEF TimeoutStep, TimeoutReturns, Paint, PaintSkip, PaintSeek, PaintPut, Pending, Painting
      <4>3. \A c : ~Character(c)
        BY <2>4 DEF Character, EscapeMore, EscapeCursor, EscapeClear, EscapeLineEnd, EscapeUnknown,
                    Control, Printed, EscapeEnd, Plain, Take
      <4> QED
        BY <2>4, <4>1, <4>2, <4>3 DEF Next, WriteStep, Recalculate, Sample, BeginPaint, Check
    <3>2. CASE Paint("write")
      BY <1>1, <2>1, <3>2, PaintShortens
    <3>3. CASE Timeout
      <4>1. ticks' = ticks + 1 /\ address' = address
        BY <2>4, <3>3 DEF Timeout
      <4>2. paint'["write"] = paint["write"]
        BY <2>1, <3>3 DEF Timeout, TypeOK
      <4>3. StepsLeft("write")' = StepsLeft("write")
        BY <4>1, <4>2 DEF StepsLeft, CellsLeft, Here, colstart
      <4> QED
        BY <4>1, <4>3
    <3> QED
      BY <3>1, <3>2, <3>3
  <2> QED
    BY <2>2, <2>3, <2>4 DEF RepaintShortens
<1> QED
  BY <1>1, InvHolds, PTL DEF Spec
=============================================================================
