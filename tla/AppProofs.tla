------------------------------ MODULE AppProofs ------------------------------
(***************************************************************************)
(* Proofs about App, for every cipher with an inverse, every width of the  *)
(* words and every panel that is wide enough.                              *)
(***************************************************************************)
EXTENDS App, TLAPS

(* What the block holds at each point of the loop. *)
TextOK ==
    /\ pc = "read" => plain_text = Zero
    /\ pc \in {"encrypting", "start1", "encrypt"} => plain_text = Input
    /\ pc \in {"stop1", "encrypted", "start2", "decrypt"} => plain_text = Cipher[Input]
    /\ pc \in {"stop2", "decrypted", "zero"} => plain_text = Input
    /\ pc = "lcd_init" => plain_text = Zero

(* A write is made by the step of main before pc, with the stage's number. *)
CallOK ==
    wpc # "off" =>
        /\ \/ pc = "start1" /\ type = "encrypting"
           \/ pc = "start2" /\ type = "encrypted"
           \/ pc = "zero" /\ type = "decrypted"
        /\ val = Stage

(* What the panel shows while it is written. *)
PanelOK ==
    /\ DOMAIN lcd = 0 .. 1 /\ DOMAIN lcd[0] = Cols /\ DOMAIN lcd[1] = Cols
    /\ wpc = "message" =>
          /\ i <= LENGTH /\ ac = <<0, i>>
          /\ lcd[0] = [col \in Cols |-> IF col < i THEN Char(type, col) ELSE Space]
          /\ lcd[1] = [col \in Cols |-> Space]
    /\ wpc = "digits" =>
          /\ i <= NumDigits(val) /\ ac = <<1, i>>
          /\ lcd[0] = Row1(type)
          /\ lcd[1] = [col \in Cols |-> IF col < i THEN Digit(val, col) ELSE Space]
    /\ wpc = "wait" => lcd[0] = Row1(type) /\ lcd[1] = Row2(val)

(* The counter is as many ticks ahead of the reading as have come. *)
ClockOK == Measuring => took = (nticks - t) % Wrap

IInv == TypeOK /\ TextOK /\ CallOK /\ PanelOK /\ ClockOK /\ ClicksRight

---------------------------------------------------------------------------
LEMMA Params ==
    /\ Wrap \in Nat /\ Wrap > 3 /\ Int32Max \in Nat /\ Int32Max < Wrap
    /\ Wrap = 2 * Int32Max + 2
    /\ 0 \in Index /\ Zero \in Blocks
    /\ COLUMNS \in Nat /\ LENGTH \in 1 .. COLUMNS /\ MaxTicks \in 0 .. Int32Max
BY AppAssumption DEF Int32Max, Word, Index, Blocks, Zero

(* What the loop has written at its end. *)
LEMMA WholeMessage ==
    ASSUME NEW m \in Messages
    PROVE  Row1(m) = [col \in Cols |-> IF col < LENGTH THEN Char(m, col) ELSE Space]
<1>1. Letters[m] \in LENGTH - 1 .. LENGTH /\ LENGTH \in Nat
  BY AppAssumption
<1>2. \A col \in Cols : col < Letters[m] => col < LENGTH
  BY <1>1, AppAssumption DEF Cols
<1> QED BY <1>2 DEF Row1, Char

LEMMA InputType == TypeOK => /\ Input \in Blocks /\ Cipher[Input] \in Blocks
                             /\ Input[0] = count /\ count \in Word /\ Stage \in Word
<1> SUFFICES ASSUME TypeOK PROVE /\ Input \in Blocks /\ Cipher[Input] \in Blocks
                                 /\ Input[0] = count /\ count \in Word /\ Stage \in Word
  OBVIOUS
<1>1. count \in Word
  BY Params DEF TypeOK, Word
<1>2. Input \in Blocks /\ Input[0] = count
  BY <1>1, Params DEF Input, Blocks, Zero
<1>3. Cipher[Input] \in Blocks
  BY <1>2, AppAssumption
<1> QED BY <1>1, <1>2, <1>3, Params DEF Stage, Blocks

LEMMA CountTicks ==
    ASSUME NEW a \in Word, NEW b \in Word
    PROVE  /\ (a - b) % Wrap \in Word
           /\ (a - a) % Wrap = 0
           /\ (a + 1) % Wrap \in Word
           /\ (a - b) % Wrap < Int32Max =>
                 (((a + 1) % Wrap) - b) % Wrap = ((a - b) % Wrap) + 1
<1>1. a \in Int /\ b \in Int /\ 0 <= a /\ a < Wrap /\ 0 <= b /\ b < Wrap
  BY Params DEF Word
<1>2. (a - b) % Wrap = IF a >= b THEN a - b ELSE a - b + Wrap
  BY <1>1, Params
<1>3. (a + 1) % Wrap = IF a + 1 = Wrap THEN 0 ELSE a + 1
  BY <1>1, Params
<1>4. (((a + 1) % Wrap) - b) % Wrap =
         IF (a + 1) % Wrap >= b THEN ((a + 1) % Wrap) - b ELSE ((a + 1) % Wrap) - b + Wrap
  BY <1>1, <1>3, Params
<1> QED BY <1>1, <1>2, <1>3, <1>4, Params DEF Word

THEOREM InitInv == Init => IInv
<1> SUFFICES ASSUME Init PROVE IInv
  OBVIOUS
<1>1. TypeOK
  BY Params DEF Init, TypeOK, Word, Messages
<1>2. TextOK /\ CallOK /\ ClockOK /\ ClicksRight
  BY DEF Init, TextOK, CallOK, ClockOK, ClicksRight, Measuring
<1>3. PanelOK
  BY DEF Init, PanelOK
<1> QED BY <1>1, <1>2, <1>3 DEF IInv

---------------------------------------------------------------------------
(* The steps of write_lcd leave main's variables and the clock alone. *)
LEMMA WriteRest ==
    ASSUME IInv, UNCHANGED <<pc, mainVars, type, val, nticks, took>>, wpc # "off"
    PROVE  TextOK' /\ CallOK' /\ ClockOK' /\ ClicksRight'
<1>1. Input' = Input /\ Stage' = Stage
  BY DEF Input, Stage, mainVars
<1>2. TextOK'
  BY <1>1 DEF IInv, TextOK, mainVars
<1>3. CallOK'
  BY <1>1 DEF IInv, CallOK, mainVars
<1>4. ClockOK' /\ ClicksRight'
  BY DEF IInv, ClockOK, ClicksRight, Measuring, mainVars
<1> QED BY <1>2, <1>3, <1>4

LEMMA WriteInv == IInv /\ WriteStep => IInv'
<1> SUFFICES ASSUME IInv, WriteStep PROVE IInv'
  OBVIOUS
<1> USE DEF Goto
<1>0. /\ TextOK' /\ CallOK' /\ ClockOK' /\ ClicksRight'
  BY WriteRest DEF WriteStep, WriteHome, WriteClear, WriteMessage, WriteAddress, WriteDigit,
                   WriteWait, WriteEnd
<1>1. /\ UNCHANGED <<pc, mainVars, type, val, nticks, took>>
  BY DEF WriteStep, WriteHome, WriteClear, WriteMessage, WriteAddress, WriteDigit, WriteWait,
         WriteEnd
<1>2. TypeOK /\ PanelOK /\ Stage \in Word
  BY InputType DEF IInv
<1>3. NumDigits(val) \in 0 .. COLUMNS
  BY <1>2, AppAssumption DEF TypeOK
<1>a. SUFFICES TypeOK' /\ PanelOK'
  BY <1>0 DEF IInv
<1>4. CASE WriteHome
  BY <1>1, <1>2, <1>4, Params DEF WriteHome, Home, TypeOK, PanelOK, mainVars
<1>5. CASE WriteClear
  <2>1. TypeOK'
    BY <1>1, <1>2, <1>5, Params DEF WriteClear, Clear, TypeOK, mainVars
  <2>2. lcd' = Blank /\ i' = 0 /\ ac' = <<0, 0>> /\ wpc' = "message"
    BY <1>5 DEF WriteClear, Clear
  <2>3. \A col \in Cols : ~(col < 0)
    BY Params DEF Cols
  <2> QED BY <2>1, <2>2, <2>3, Params DEF PanelOK, Blank
<1>6. CASE WriteMessage
  <2>1. /\ i < LENGTH /\ ac = <<0, i>> /\ i \in Nat
        /\ lcd[0] = [col \in Cols |-> IF col < i THEN Char(type, col) ELSE Space]
        /\ lcd[1] = [col \in Cols |-> Space]
        /\ DOMAIN lcd = 0 .. 1
    BY <1>2, <1>6, Params DEF WriteMessage, TypeOK, PanelOK
  <2>2. /\ lcd' = [lcd EXCEPT ![0][i] = Char(type, i)] /\ ac' = <<0, i + 1>> /\ i' = i + 1
        /\ wpc' = "message" /\ type' = type
    BY <1>6, <2>1 DEF WriteMessage, Data
  <2>3. /\ lcd'[0] = [lcd[0] EXCEPT ![i] = Char(type, i)] /\ lcd'[1] = lcd[1]
        /\ DOMAIN lcd' = 0 .. 1
    BY <2>1, <2>2
  <2>4. i \in Cols /\ i' <= LENGTH /\ i' \in 0 .. COLUMNS
    BY <2>1, <2>2, Params DEF Cols
  <2>5. lcd'[0] = [col \in Cols |-> IF col < i' THEN Char(type', col) ELSE Space]
    <3>1. DOMAIN lcd'[0] = Cols
      BY <2>1, <2>3
    <3>2. \A col \in Cols : lcd'[0][col] = IF col = i THEN Char(type, i)
                                           ELSE IF col < i THEN Char(type, col) ELSE Space
      BY <2>1, <2>3
    <3>3. \A col \in Cols : col < i + 1 <=> (col < i \/ col = i)
      BY <2>1, Params DEF Cols
    <3>4. lcd'[0] = [col \in Cols |-> lcd'[0][col]]
      BY <2>1, <2>3
    <3>5. \A col \in Cols : lcd'[0][col] = IF col < i' THEN Char(type', col) ELSE Space
      BY <2>2, <3>2, <3>3
    <3> QED BY <3>4, <3>5
  <2>6. TypeOK'
    BY <1>1, <1>2, <2>2, <2>4 DEF TypeOK, mainVars
  <2> QED BY <2>1, <2>2, <2>3, <2>4, <2>5, <2>6 DEF PanelOK
<1>7. CASE WriteAddress
  <2>1. /\ wpc' = "digits" /\ i' = 0 /\ ac' = <<1, 0>> /\ lcd' = lcd /\ type' = type /\ val' = val
        /\ i >= LENGTH /\ wpc = "message"
    BY <1>7 DEF WriteAddress, Address
  <2>2. TypeOK'
    BY <1>1, <1>2, <2>1, Params DEF TypeOK, mainVars
  <2>3. lcd'[0] = Row1(type') /\ lcd'[1] = [col \in Cols |-> Space]
    <3>1. /\ lcd[0] = [col \in Cols |-> IF col < LENGTH THEN Char(type, col) ELSE Space]
          /\ lcd[1] = [col \in Cols |-> Space]
      <4>1. i = LENGTH
        BY <1>2, <2>1, Params DEF PanelOK, TypeOK
      <4> QED BY <1>2, <2>1, <4>1 DEF PanelOK
    <3>2. type \in Messages
      BY <1>2 DEF TypeOK
    <3> QED BY <2>1, <3>1, <3>2, WholeMessage
  <2>4. \A col \in Cols : ~(col < 0)
    BY Params DEF Cols
  <2>5. lcd'[1] = [col \in Cols |-> IF col < 0 THEN Digit(val', col) ELSE Space]
    BY <2>3, <2>4
  <2> QED BY <1>2, <1>3, <2>1, <2>2, <2>3, <2>5 DEF PanelOK
<1>8. CASE WriteDigit
  <2>1. /\ i < NumDigits(val) /\ ac = <<1, i>> /\ i \in Nat
        /\ lcd[0] = Row1(type)
        /\ lcd[1] = [col \in Cols |-> IF col < i THEN Digit(val, col) ELSE Space]
        /\ DOMAIN lcd = 0 .. 1
    BY <1>2, <1>8, Params DEF WriteDigit, TypeOK, PanelOK
  <2>2. /\ lcd' = [lcd EXCEPT ![1][i] = Digit(val, i)] /\ ac' = <<1, i + 1>> /\ i' = i + 1
        /\ wpc' = "digits" /\ type' = type /\ val' = val
    BY <1>8, <2>1 DEF WriteDigit, Data
  <2>3. /\ lcd'[1] = [lcd[1] EXCEPT ![i] = Digit(val, i)] /\ lcd'[0] = lcd[0]
        /\ DOMAIN lcd' = 0 .. 1
    BY <2>1, <2>2
  <2>4. i \in Cols /\ i' <= NumDigits(val) /\ i' \in 0 .. COLUMNS
    BY <1>3, <2>1, <2>2, Params DEF Cols
  <2>5. lcd'[1] = [col \in Cols |-> IF col < i' THEN Digit(val', col) ELSE Space]
    <3>1. DOMAIN lcd'[1] = Cols
      BY <2>1, <2>3
    <3>2. \A col \in Cols : lcd'[1][col] = IF col = i THEN Digit(val, i)
                                           ELSE IF col < i THEN Digit(val, col) ELSE Space
      BY <2>1, <2>3
    <3>3. \A col \in Cols : col < i + 1 <=> (col < i \/ col = i)
      BY <2>1, Params DEF Cols
    <3>4. lcd'[1] = [col \in Cols |-> lcd'[1][col]]
      BY <2>1, <2>3
    <3>5. \A col \in Cols : lcd'[1][col] = IF col < i' THEN Digit(val, col) ELSE Space
      BY <2>2, <3>2, <3>3
    <3>6. \A col \in Cols : Digit(val', col) = Digit(val, col)
      BY <2>2
    <3> QED BY <3>4, <3>5, <3>6
  <2>6. TypeOK'
    BY <1>1, <1>2, <2>2, <2>4 DEF TypeOK, mainVars
  <2>7. DOMAIN Row1(type) = Cols /\ Row1(type') = Row1(type)
    BY <2>2 DEF Row1
  <2> QED BY <2>1, <2>2, <2>3, <2>4, <2>5, <2>6, <2>7 DEF PanelOK
<1>9. CASE WriteWait
  <2>1. /\ i >= NumDigits(val) /\ wpc = "digits" /\ wpc' = "wait" /\ UNCHANGED <<i, lcd, ac>>
        /\ type' = type /\ val' = val
    BY <1>9 DEF WriteWait, panel
  <2>2. i = NumDigits(val)
    BY <1>2, <1>3, <2>1 DEF PanelOK, TypeOK
  <2>3. TypeOK'
    BY <1>1, <1>2, <2>1 DEF TypeOK, mainVars
  <2> QED BY <1>2, <2>1, <2>2, <2>3 DEF PanelOK, Row1, Row2
<1>10. CASE WriteEnd
  <2>1. TypeOK'
    BY <1>1, <1>2, <1>10, Params DEF WriteEnd, Clear, TypeOK, mainVars
  <2> QED BY <2>1, <1>10 DEF WriteEnd, Clear, PanelOK, Blank
<1> QED BY <1>4, <1>5, <1>6, <1>7, <1>8, <1>9, <1>10 DEF WriteStep

---------------------------------------------------------------------------
(* The steps of main leave the panel alone. *)
LEMMA PanelRest ==
    ASSUME IInv, UNCHANGED lcd, wpc = "off", wpc' \in {"off", "home"}
    PROVE  PanelOK'
BY DEF IInv, PanelOK

LEMMA MainInv ==
    IInv /\ (lcd_init \/ Read \/ Show \/ StartClock \/ Transform \/ StopClock \/ ZeroText) => IInv'
<1> SUFFICES ASSUME IInv,
                    lcd_init \/ Read \/ Show \/ StartClock \/ Transform \/ StopClock \/ ZeroText
             PROVE  IInv'
  OBVIOUS
<1> USE DEF At, mainVars, writeVars, panel
<1>0. TypeOK /\ Input \in Blocks /\ Cipher[Input] \in Blocks /\ Input[0] = count
  BY InputType DEF IInv
<1>1. CASE lcd_init
  <2>1. TypeOK'
    BY <1>0, <1>1, Params DEF lcd_init, Clear, TypeOK
  <2>2. TextOK' /\ CallOK' /\ ClockOK' /\ ClicksRight'
    BY <1>1 DEF IInv, lcd_init, TextOK, CallOK, ClockOK, ClicksRight, Measuring
  <2>3. PanelOK'
    BY <1>1 DEF lcd_init, Clear, PanelOK, Blank
  <2> QED BY <2>1, <2>2, <2>3 DEF IInv
<1>2. CASE Read
  <2>1. count' \in 0 .. Int32Max /\ count' \in Word
    BY <1>2, AppAssumption, Params DEF Read, Word
  <2>2. plain_text' = Input'
    BY <1>2 DEF IInv, Read, TextOK, Input
  <2>3. plain_text' \in Blocks
    BY <2>1, <1>0, <1>2 DEF Read, TypeOK, Blocks
  <2>4. TypeOK'
    BY <1>0, <1>2, <2>1, <2>3 DEF Read, TypeOK
  <2>5. TextOK' /\ CallOK' /\ ClockOK' /\ ClicksRight'
    BY <1>2, <2>2 DEF Read, TextOK, CallOK, ClockOK, ClicksRight, Measuring
  <2> QED BY <1>2, <2>4, <2>5, PanelRest DEF IInv, Read
<1>3. CASE Show
  <2>1. UNCHANGED <<count, plain_text, t, encrypt, decrypt, lcd, ac, nticks, took>>
        /\ wpc = "off" /\ wpc' = "home" /\ i' = 0
    BY <1>3 DEF Show, Call
  <2>2. Input' = Input
    BY <2>1 DEF Input
  <2>3. \/ pc = "encrypting" /\ pc' = "start1" /\ type' = "encrypting" /\ val' = count
        \/ pc = "encrypted" /\ pc' = "start2" /\ type' = "encrypted" /\ val' = plain_text[0]
        \/ pc = "decrypted" /\ pc' = "zero" /\ type' = "decrypted" /\ val' = hex2str
    BY <1>3 DEF Show, Call
  <2>4. pc = "decrypted" => hex2str = count
    BY <1>0, Params DEF IInv, TextOK, TypeOK, hex2str
  <2>5. pc = "encrypted" => plain_text = Cipher[Input]
    BY DEF IInv, TextOK
  <2>6. val' = Stage'
    BY <2>1, <2>2, <2>3, <2>4, <2>5 DEF Stage
  <2>7. val' \in Word
    BY <1>0, <2>3, <2>4, <2>5, InputType, Params DEF Blocks
  <2>8. TypeOK'
    BY <1>0, <2>1, <2>3, <2>7, Params DEF TypeOK, Messages
  <2>9. TextOK'
    BY <2>1, <2>2, <2>3 DEF IInv, TextOK
  <2>10. CallOK'
    BY <2>3, <2>6 DEF CallOK
  <2>11. ClockOK' /\ ClicksRight'
    BY <2>1, <2>3 DEF IInv, ClockOK, ClicksRight, Measuring
  <2> QED BY <2>1, <2>8, <2>9, <2>10, <2>11, PanelRest DEF IInv
<1>4. CASE StartClock
  <2>1. Input' = Input
    BY <1>4 DEF StartClock, Input
  <2>2. TypeOK'
    BY <1>0, <1>4, Params DEF StartClock, TypeOK
  <2>3. TextOK' /\ CallOK' /\ ClicksRight'
    BY <1>4, <2>1 DEF IInv, StartClock, TextOK, CallOK, ClicksRight
  <2>4. ClockOK'
    <3>1. nticks \in Word /\ nticks' = nticks /\ t' = nticks /\ took' = 0
      BY <1>0, <1>4 DEF StartClock, TypeOK
    <3> QED BY <3>1, CountTicks DEF ClockOK
  <2> QED BY <1>4, <2>2, <2>3, <2>4, PanelRest DEF IInv, StartClock
<1>5. CASE Transform
  <2>1. Input' = Input
    BY <1>5 DEF Transform, Input
  <2>2. /\ pc = "encrypt" => plain_text' = Cipher[Input]
        /\ pc = "decrypt" => plain_text' = Input
    BY <1>0, <1>5, AppAssumption DEF IInv, TextOK, Transform
  <2>3. plain_text' \in Blocks
    BY <1>0, <1>5, <2>2 DEF Transform
  <2>4. TypeOK'
    BY <1>0, <1>5, <2>3 DEF Transform, TypeOK
  <2>5. TextOK'
    BY <1>5, <2>1, <2>2 DEF Transform, TextOK
  <2>6. CallOK' /\ ClockOK' /\ ClicksRight'
    BY <1>5 DEF IInv, Transform, CallOK, ClockOK, ClicksRight, Measuring
  <2> QED BY <1>5, <2>4, <2>5, <2>6, PanelRest DEF IInv, Transform
<1>6. CASE StopClock
  <2>1. Input' = Input
    BY <1>6 DEF StopClock, Input
  <2>2. TypeOK'
    BY <1>0, <1>6 DEF StopClock, TypeOK
  <2>3. TextOK' /\ CallOK' /\ ClockOK'
    BY <1>6, <2>1 DEF IInv, StopClock, TextOK, CallOK, ClockOK, Measuring
  <2>4. took = (nticks - t) % Wrap /\ took \in 0 .. Int32Max
    BY <1>0, <1>6, Params DEF IInv, StopClock, ClockOK, Measuring, TypeOK
  <2>5. ToInt((nticks - t) % Wrap) = took
    BY <2>4, Params DEF ToInt
  <2>6. ClicksRight'
    BY <1>6, <2>5 DEF StopClock, ClicksRight
  <2> QED BY <1>6, <2>2, <2>3, <2>6, PanelRest DEF IInv, StopClock
<1>7. CASE ZeroText
  <2>1. TypeOK'
    BY <1>0, <1>7, Params DEF ZeroText, TypeOK
  <2>2. TextOK' /\ CallOK' /\ ClockOK' /\ ClicksRight'
    BY <1>7 DEF ZeroText, TextOK, CallOK, ClockOK, ClicksRight, Measuring
  <2> QED BY <1>7, <2>1, <2>2, PanelRest DEF IInv, ZeroText
<1> QED BY <1>1, <1>2, <1>3, <1>4, <1>5, <1>6, <1>7

LEMMA TickInv == IInv /\ Tick => IInv'
<1> SUFFICES ASSUME IInv, Tick PROVE IInv'
  OBVIOUS
<1> USE DEF mainVars, writeVars, panel
<1>1. TypeOK /\ nticks \in Word /\ t \in Word /\ took \in 0 .. MaxTicks
  BY DEF IInv, TypeOK
<1>2. Input' = Input /\ Stage' = Stage
  BY DEF Tick, Input, Stage
<1>3. TypeOK'
  <2>1. took' \in 0 .. MaxTicks
    BY <1>1, Params DEF Tick
  <2>2. nticks' \in Word
    BY <1>1, CountTicks DEF Tick
  <2> QED BY <1>1, <2>1, <2>2 DEF Tick, TypeOK
<1>4. TextOK' /\ PanelOK'
  BY <1>2 DEF IInv, Tick, TextOK, PanelOK
<1>5. CallOK'
  BY <1>2 DEF IInv, Tick, CallOK
<1>6. ClockOK'
  <2> SUFFICES ASSUME Measuring PROVE took' = (nticks' - t') % Wrap
    BY DEF ClockOK, Measuring, Tick
  <2>1. took = (nticks - t) % Wrap /\ took < Int32Max
    BY <1>1, Params DEF IInv, ClockOK, Tick
  <2>2. (((nticks + 1) % Wrap) - t) % Wrap = ((nticks - t) % Wrap) + 1
    BY <1>1, <2>1, CountTicks
  <2> QED BY <2>1, <2>2 DEF Tick
<1>7. ClicksRight'
  BY DEF IInv, Tick, ClicksRight, Measuring
<1> QED BY <1>3, <1>4, <1>5, <1>6, <1>7 DEF IInv

THEOREM StepInv == IInv /\ [Next]_vars => IInv'
<1>1. IInv /\ UNCHANGED vars => IInv'
  <2> SUFFICES ASSUME IInv, UNCHANGED vars PROVE IInv'
    OBVIOUS
  <2> USE DEF vars, mainVars, writeVars, panel
  <2>1. Input' = Input /\ Stage' = Stage
    BY DEF Input, Stage
  <2>2. TypeOK' /\ TextOK'
    BY <2>1 DEF IInv, TypeOK, TextOK
  <2>3. CallOK' /\ PanelOK'
    BY <2>1 DEF IInv, CallOK, PanelOK
  <2>4. ClockOK' /\ ClicksRight'
    BY DEF IInv, ClockOK, ClicksRight, Measuring
  <2> QED BY <2>2, <2>3, <2>4 DEF IInv
<1> QED BY <1>1, WriteInv, MainInv, TickInv DEF Next

THEOREM InvHolds == Spec => []IInv
BY InitInv, StepInv, PTL DEF Spec

---------------------------------------------------------------------------
(* The ranges of the variables. *)
THEOREM TypeCorrect == Spec => []TypeOK
<1>1. IInv => TypeOK
  BY DEF IInv
<1> QED BY <1>1, InvHolds, PTL

(* The panel shows all letters of each stage's message and its number, and  *)
(* behind a message of nine letters the glyph of code 0 that the loop adds. *)
THEOREM StagesShown == Spec => []ShowsTheStage
<1>1. IInv => ShowsTheStage
  BY DEF IInv, CallOK, PanelOK, ShowsTheStage
<1> QED BY <1>1, InvHolds, PTL

(* The measured clicks are the ticks that came. *)
THEOREM ClicksAreTicks == Spec => []ClicksRight
<1>1. IInv => ClicksRight
  BY DEF IInv
<1> QED BY <1>1, InvHolds, PTL
=============================================================================
