--------------------------------- MODULE App ---------------------------------
(***************************************************************************)
(* The encryption program (nios2final_APP/main.c): it reads the switches,  *)
(* encrypts the value in place, decrypts it in place, shows each stage on  *)
(* the character panel and measures both with clock().                     *)
(*                                                                         *)
(* The program drives the panel's registers itself, one access a step, and *)
(* waits after each as long as the panel needs.  The system tick comes     *)
(* between any two steps.  The cipher is a constant: Aes and its proofs    *)
(* show what is assumed of it.  Definitions named Bug... are mutations of  *)
(* the definition after them.                                              *)
(***************************************************************************)
EXTENDS Integers

CONSTANTS Wrap,               \* 2^32
          Words,              \* words of a block: 4
          Cipher, InvCipher,  \* AES_ECB_encrypt and AES_ECB_decrypt with the program's key
          SwitchValues,       \* what the switches may read
          Letters,            \* of each message: 10 of "encrypting", 9 of the others
          LENGTH,             \* characters write_lcd writes of any message: 10
          Base,               \* of the numbers shown: 10
          COLUMNS,            \* of the panel: 16
          MaxTicks            \* bound: ticks during one measurement

Int32Max == Wrap \div 2 - 1
Word     == 0 .. Wrap - 1
Index    == 0 .. Words - 1
Blocks   == [Index -> Word]

Messages == {"encrypting", "encrypted", "decrypted"}
Cols     == 0 .. COLUMNS - 1

(* The digits write_lcd counts and shows: none for the value 0. *)
NumDigits(v) == CHOOSE n \in 0 .. COLUMNS :
                    v < Base ^ n /\ \A k \in 0 .. n - 1 : v >= Base ^ k
Digit(v, k)  == <<"digit", (v \div Base ^ (NumDigits(v) - 1 - k)) % Base>>
Space        == <<"space", 0>>

(* type[k]: a letter, or behind the letters the terminator, which the panel *)
(* takes for the code of the first glyph that a program may define.         *)
NUL          == <<"NUL", 0>>
Char(m, k)   == IF k < Letters[m] THEN <<m, k>> ELSE NUL

(* The switches are 18 bits wide, and no word has more digits than the panel *)
(* has columns.  No message is so short that type[LENGTH - 1] is behind its *)
(* terminator.                                                              *)
ASSUME AppAssumption ==
    /\ Wrap \in Nat /\ Wrap > 3 /\ Wrap % 2 = 0
    /\ Words \in Nat \ {0}
    /\ Cipher \in [Blocks -> Blocks] /\ InvCipher \in [Blocks -> Blocks]
    /\ \A b \in Blocks : InvCipher[Cipher[b]] = b
    /\ SwitchValues \subseteq 0 .. Int32Max
    /\ COLUMNS \in Nat /\ LENGTH \in 1 .. COLUMNS
    /\ Letters \in [Messages -> LENGTH - 1 .. LENGTH]
    /\ \A v \in Word : NumDigits(v) \in 0 .. COLUMNS
    /\ MaxTicks \in 0 .. Int32Max

VARIABLES pc, count, plain_text,     \* main
          t, encrypt, decrypt,
          wpc, type, val, i,         \* write_lcd, its arguments and its loop variable
          lcd, ac,                   \* the panel: cells, address counter
          nticks,                    \* what clock() returns
          took                       \* history: ticks of the last measurement

mainVars  == <<count, plain_text, t, encrypt, decrypt>>
writeVars == <<wpc, type, val, i>>
panel     == <<lcd, ac>>
vars      == <<pc, mainVars, writeVars, panel, nticks, took>>

Blank == [row \in 0 .. 1 |-> [col \in Cols |-> Space]]
Zero  == [k \in Index |-> 0]

(* The panel may show anything before lcd_init. *)
Init ==
    /\ pc = "lcd_init" /\ count = 1 /\ plain_text = Zero
    /\ t = 0 /\ encrypt = 0 /\ decrypt = 0
    /\ wpc = "off" /\ type = "encrypting" /\ val = 0 /\ i = 0
    /\ \E c \in {Space, <<"encrypted", 0>>} : lcd = [row \in 0 .. 1 |-> [col \in Cols |-> c]]
    /\ ac \in {<<0, 0>>, <<1, 0>>}
    /\ nticks \in Word /\ took = 0

---------------------------------------------------------------------------
(* The panel's commands 0x02 and 0x01, an address, and a character. *)
Home       == ac' = <<0, 0>> /\ UNCHANGED lcd
Clear      == ac' = <<0, 0>> /\ lcd' = Blank
Address(a) == ac' = a /\ UNCHANGED lcd
Data(c)    == lcd' = [lcd EXCEPT ![ac[1]][ac[2]] = c] /\ ac' = <<ac[1], ac[2] + 1>>

(* write_lcd, one access of the panel at a time. *)
Call(m, v) ==
    /\ wpc = "off" /\ wpc' = "home"
    /\ type' = m /\ val' = v /\ i' = 0

Goto(w) == wpc' = w /\ UNCHANGED <<pc, mainVars, type, val, nticks, took>>

WriteHome    == wpc = "home"  /\ Home  /\ Goto("clear") /\ UNCHANGED i
WriteClear   == wpc = "clear" /\ Clear /\ Goto("message") /\ i' = 0

BugWriteMessage ==
    wpc = "message" /\ i <= LENGTH /\ Data(Char(type, i)) /\ Goto("message") /\ i' = i + 1

(* The loop does not look for the end of the message. *)
WriteMessage ==
    wpc = "message" /\ i < LENGTH /\ Data(Char(type, i)) /\ Goto("message") /\ i' = i + 1

BugWriteAddress == wpc = "message" /\ i >= LENGTH /\ Goto("digits") /\ i' = 0 /\ UNCHANGED panel

WriteAddress == wpc = "message" /\ i >= LENGTH /\ Address(<<1, 0>>) /\ Goto("digits") /\ i' = 0

WriteDigit ==
    /\ wpc = "digits" /\ i < NumDigits(val)
    /\ Data(Digit(val, i)) /\ Goto("digits") /\ i' = i + 1

WriteWait == wpc = "digits" /\ i >= NumDigits(val) /\ Goto("wait") /\ UNCHANGED <<i, panel>>
WriteEnd  == wpc = "wait" /\ Clear /\ Goto("off") /\ UNCHANGED i

WriteStep == \/ WriteHome
             \/ WriteClear
             \/ WriteMessage
             \/ WriteAddress
             \/ WriteDigit
             \/ WriteWait
             \/ WriteEnd

---------------------------------------------------------------------------
(* main: a step goes from one pc to the next when no write is under way. *)
At(here, there) == pc = here /\ wpc = "off" /\ pc' = there

lcd_init ==
    /\ At("lcd_init", "read")
    /\ Clear
    /\ UNCHANGED <<mainVars, writeVars, nticks, took>>

Read ==
    /\ At("read", "encrypting")
    /\ count' \in SwitchValues
    /\ plain_text' = [plain_text EXCEPT ![0] = count']
    /\ UNCHANGED <<t, encrypt, decrypt, writeVars, panel, nticks, took>>

(* atoi of a number that does not fit an int gives the greatest int. *)
hex2str == IF plain_text[0] > Int32Max THEN Int32Max ELSE plain_text[0]

Show ==
    /\ \/ At("encrypting", "start1") /\ Call("encrypting", count)
       \/ At("encrypted", "start2")  /\ Call("encrypted", plain_text[0])
       \/ At("decrypted", "zero")    /\ Call("decrypted", hex2str)
    /\ UNCHANGED <<mainVars, panel, nticks, took>>

StartClock ==
    /\ At("start1", "encrypt") \/ At("start2", "decrypt")
    /\ t' = nticks /\ took' = 0
    /\ UNCHANGED <<count, plain_text, encrypt, decrypt, writeVars, panel, nticks>>

Transform ==
    /\ \/ At("encrypt", "stop1") /\ plain_text' = Cipher[plain_text]
       \/ At("decrypt", "stop2") /\ plain_text' = InvCipher[plain_text]
    /\ UNCHANGED <<count, t, encrypt, decrypt, writeVars, panel, nticks, took>>

(* The difference is unsigned and is then an int. *)
ToInt(u) == IF u > Int32Max THEN u - Wrap ELSE u

BugStopClock ==
    /\ \/ At("stop1", "encrypted") /\ encrypt' = nticks - t /\ UNCHANGED decrypt
       \/ At("stop2", "decrypted") /\ decrypt' = nticks - t /\ UNCHANGED encrypt
    /\ UNCHANGED <<count, plain_text, t, writeVars, panel, nticks, took>>

StopClock ==
    LET clicks == ToInt((nticks - t) % Wrap) IN
    /\ \/ At("stop1", "encrypted") /\ encrypt' = clicks /\ UNCHANGED decrypt
       \/ At("stop2", "decrypted") /\ decrypt' = clicks /\ UNCHANGED encrypt
    /\ UNCHANGED <<count, plain_text, t, writeVars, panel, nticks, took>>

ZeroText ==
    /\ At("zero", "read")
    /\ plain_text' = Zero
    /\ UNCHANGED <<count, t, encrypt, decrypt, writeVars, panel, nticks, took>>

Measuring == pc \in {"encrypt", "stop1", "decrypt", "stop2"}

(* alt_tick counts, whatever the program is at. *)
Tick ==
    /\ nticks' = (nticks + 1) % Wrap
    /\ IF Measuring THEN took < MaxTicks /\ took' = took + 1 ELSE UNCHANGED took
    /\ UNCHANGED <<pc, mainVars, writeVars, panel>>

Next == \/ lcd_init
        \/ Read
        \/ Show
        \/ StartClock
        \/ Transform
        \/ StopClock
        \/ ZeroText
        \/ WriteStep
        \/ Tick

Spec == Init /\ [][Next]_vars

---------------------------------------------------------------------------
(* Properties *)

(* The block is a block, the loop variable stays within what it counts to,  *)
(* and the panel's address counter within its rows.                         *)
TypeOK ==
    /\ pc \in {"lcd_init", "read", "encrypting", "start1", "encrypt", "stop1", "encrypted",
               "start2", "decrypt", "stop2", "decrypted", "zero"}
    /\ wpc \in {"off", "home", "clear", "message", "digits", "wait"}
    /\ count \in 0 .. Int32Max /\ plain_text \in Blocks
    /\ t \in Word /\ nticks \in Word /\ took \in 0 .. MaxTicks
    /\ type \in Messages /\ val \in Word
    /\ i \in 0 .. COLUMNS
    /\ ac \in (0 .. 1) \X (0 .. COLUMNS)

(* While a stage is shown, the first row has all letters of its message,    *)
(* and behind a message shorter than the loop is long ("encrypted" and      *)
(* "decrypted") the glyph of code 0, which write_lcd adds (lines 100-101).  *)
(* The rest of the row is blank.  The second row is the stage's number with *)
(* nothing of an earlier, longer one: the number read from the switches     *)
(* before the encryption and after the decryption, and the cipher of that   *)
(* number and of no remains of earlier rounds in between.  A number that is *)
(* 0 is not shown.                                                          *)
Row1(m) == [col \in Cols |-> IF col < Letters[m] THEN <<m, col>>
                             ELSE IF col < LENGTH THEN NUL ELSE Space]
Row2(v) == [col \in Cols |-> IF col < NumDigits(v) THEN Digit(v, col) ELSE Space]
Input   == [Zero EXCEPT ![0] = count]
Stage   == IF type = "encrypted" THEN Cipher[Input][0] ELSE count
ShowsTheStage == wpc = "wait" => lcd[0] = Row1(type) /\ lcd[1] = Row2(Stage)

(* The clicks reported for each direction are the ticks that came during    *)
(* it, also when the tick counter wraps in between.                         *)
ClicksRight ==
    /\ pc \in {"encrypted", "start2"} => encrypt = took
    /\ pc \in {"decrypted", "zero"} => decrypt = took
=============================================================================
