-------------------------------- MODULE Aes --------------------------------
(***************************************************************************)
(* The block cipher of the encryption program (aes.c): the key schedule,   *)
(* Cipher and InvCipher, run on one context and one block that is          *)
(* encrypted and decrypted in place.  Every stage of a round is a step.    *)
(*                                                                         *)
(* A byte is the set of its bits that are 1: exclusive or is symmetric     *)
(* difference, a shift moves the bits.  A block is the code's state[i][j], *)
(* column i, row j; a round key is four words of the expanded key.         *)
(*                                                                         *)
(* depth and seen are history: how many stages lie between the block and   *)
(* the plain text, and the block that was seen at each depth.              *)
(***************************************************************************)
EXTENDS Integers, Sequences, FiniteSetsExt

CONSTANTS sbox, rsbox, Rcon,   \* the tables of aes.c
          Keys, Blocks,        \* the keys and the blocks a run starts from
          Answers,             \* known answers: [key, plain, cipher]
          MaxCalls             \* bound: ECB calls on one context

Bits == 0 .. 7
Byte == SUBSET Bits
Word == [0 .. 3 -> Byte]
Block == [0 .. 3 -> Word]
Key == [1 .. 4 -> Word] \cup [1 .. 6 -> Word] \cup [1 .. 8 -> Word]

ASSUME TablesAssumption ==
    /\ sbox \in [Byte -> Byte] /\ rsbox \in [Byte -> Byte]
    /\ \A b \in Byte : rsbox[sbox[b]] = b /\ sbox[rsbox[b]] = b
    /\ Rcon \in [0 .. 10 -> Byte]

ASSUME InputsAssumption ==
    /\ Keys \subseteq Key /\ Blocks \subseteq Block
    /\ Answers \subseteq [key : Keys, plain : Block, cipher : Block]
    /\ MaxCalls \in Nat

VARIABLES key, RoundKey,      \* the key given; the words expanded so far
          buf,                \* the block
          step, round,        \* the stage to run next, and its round
          calls,              \* the calls made
          depth, seen         \* history

vars == <<key, RoundKey, buf, step, round, calls, depth, seen>>

Nk == Len(key)
Nr == Nk + 6
----------------------------------------------------------------------------
(* The arithmetic of GF(2^8), on bytes, words and blocks. *)

Xor(a, b) == SymDiff(a, b)
XorWord(v, w) == [j \in 0 .. 3 |-> Xor(v[j], w[j])]

xtime(x) == Xor({b \in Bits : b - 1 \in x}, IF 7 \in x THEN {0, 1, 3, 4} ELSE {})

(* y has at most five bits; the code tests each of them. *)
Multiply(x, y) ==
    LET Term(i, v) == IF i \in y THEN v ELSE {}
        x2 == xtime(x)
        x4 == xtime(x2)
        x8 == xtime(x4)
        x16 == xtime(x8)
    IN  Xor(Xor(Xor(Xor(Term(0, x), Term(1, x2)), Term(2, x4)), Term(3, x8)), Term(4, x16))

SubWord(w) == [j \in 0 .. 3 |-> sbox[w[j]]]
RotWord(w) == [j \in 0 .. 3 |-> w[(j + 1) % 4]]
----------------------------------------------------------------------------
(* The stages of a round.  Row j of a block is b[0][j], ..., b[3][j]. *)

AddRoundKey(r, b) == [i \in 0 .. 3 |-> XorWord(b[i], RoundKey[4 * r + i + 1])]

SubBytes(b) == [i \in 0 .. 3 |-> SubWord(b[i])]
InvSubBytes(b) == [i \in 0 .. 3 |-> [j \in 0 .. 3 |-> rsbox[b[i][j]]]]

ShiftRows(b) == [i \in 0 .. 3 |-> [j \in 0 .. 3 |-> b[(i + j) % 4][j]]]

BugInvShiftRows(b) == [i \in 0 .. 3 |-> [j \in 0 .. 3 |-> b[(i + j) % 4][j]]]

InvShiftRows(b) == [i \in 0 .. 3 |-> [j \in 0 .. 3 |-> b[(i - j) % 4][j]]]

BugMixColumn(c) ==
    LET Tmp == Xor(Xor(Xor(c[0], c[1]), c[2]), c[3])
        Mixed(x, y) == Xor(x, Xor(xtime(Xor(x, y)), Tmp))
        first == Mixed(c[0], c[1])
    IN  [j \in 0 .. 3 |-> Mixed(c[j], IF j = 3 THEN first ELSE c[j + 1])]

(* The code updates the rows in order; the last one needs the first as it  *)
(* was, which the code keeps in t.                                         *)
MixColumn(c) ==
    LET Tmp == Xor(Xor(Xor(c[0], c[1]), c[2]), c[3])
        Mixed(x, y) == Xor(x, Xor(xtime(Xor(x, y)), Tmp))
    IN  [j \in 0 .. 3 |-> Mixed(c[j], c[(j + 1) % 4])]

InvMixColumn(c) ==
    LET Row(a, b, d, e) == Xor(Xor(Xor(Multiply(a, {1, 2, 3}), Multiply(b, {0, 1, 3})),
                                   Multiply(d, {0, 2, 3})), Multiply(e, {0, 3}))
    IN  [j \in 0 .. 3 |-> Row(c[j], c[(j + 1) % 4], c[(j + 2) % 4], c[(j + 3) % 4])]

MixColumns(b) == [i \in 0 .. 3 |-> MixColumn(b[i])]
InvMixColumns(b) == [i \in 0 .. 3 |-> InvMixColumn(b[i])]
----------------------------------------------------------------------------
Init ==
    /\ key \in Keys
    /\ RoundKey = key
    /\ buf \in Blocks
    /\ step = "expand" /\ round = 0 /\ calls = 0
    /\ depth = 0 /\ seen = [n \in {0} |-> buf]

BugKeyTemp(i) ==
    IF i % Nk = 0
    THEN LET w == SubWord(RotWord(RoundKey[i])) IN [w EXCEPT ![0] = Xor(@, Rcon[i \div Nk])]
    ELSE RoundKey[i]

(* tempa, from which word number i (from 0) of the expanded key is made. *)
KeyTemp(i) ==
    IF i % Nk = 0
    THEN LET w == SubWord(RotWord(RoundKey[i])) IN [w EXCEPT ![0] = Xor(@, Rcon[i \div Nk])]
    ELSE IF Nk = 8 /\ i % Nk = 4 THEN SubWord(RoundKey[i])
    ELSE RoundKey[i]

BugKeyExpansion ==
    LET i == Len(RoundKey) IN
    /\ step = "expand"
    /\ \/ /\ i < 4 * Nr
          /\ RoundKey' = Append(RoundKey, XorWord(RoundKey[i - Nk + 1], KeyTemp(i)))
          /\ UNCHANGED step
       \/ /\ i = 4 * Nr
          /\ step' = "idle"
          /\ UNCHANGED RoundKey
    /\ UNCHANGED <<key, buf, round, calls, depth, seen>>

(* AES_init_ctx: the loop of KeyExpansion, whose first words are the key.  *)
KeyExpansion ==
    LET i == Len(RoundKey) IN
    /\ step = "expand"
    /\ \/ /\ i < 4 * (Nr + 1)
          /\ RoundKey' = Append(RoundKey, XorWord(RoundKey[i - Nk + 1], KeyTemp(i)))
          /\ UNCHANGED step
       \/ /\ i = 4 * (Nr + 1)
          /\ step' = "idle"
          /\ UNCHANGED RoundKey
    /\ UNCHANGED <<key, buf, round, calls, depth, seen>>

(* History: the block goes from depth d to depth e.  A call that does not   *)
(* start where the last one ended starts a new record.                     *)
Record(d, e) ==
    LET known == IF depth = d THEN seen ELSE [n \in {d} |-> buf]
    IN  /\ depth' = e
        /\ seen' = [n \in DOMAIN known \cup {e} |-> IF n \in DOMAIN known THEN known[n] ELSE buf']

Stage(at, new, then) ==
    /\ step = at
    /\ buf' = new
    /\ step' = then
    /\ UNCHANGED <<key, RoundKey>>

(* Cipher. *)
EncryptBegin ==
    /\ calls < MaxCalls /\ calls' = calls + 1
    /\ Stage("idle", AddRoundKey(0, buf), "sub")
    /\ round' = 1
    /\ Record(0, 1)

EncryptStage(at, new, then) ==
    Stage(at, new, then) /\ Record(depth, depth + 1) /\ UNCHANGED calls

EncryptSub == EncryptStage("sub", SubBytes(buf), "shift") /\ UNCHANGED round

EncryptShift ==
    /\ EncryptStage("shift", ShiftRows(buf), IF round < Nr THEN "mix" ELSE "key")
    /\ UNCHANGED round

EncryptMix == EncryptStage("mix", MixColumns(buf), "key") /\ UNCHANGED round

EncryptKey ==
    /\ EncryptStage("key", AddRoundKey(round, buf), IF round < Nr THEN "sub" ELSE "idle")
    /\ round' = IF round < Nr THEN round + 1 ELSE 0

(* InvCipher. *)
DecryptBegin ==
    /\ calls < MaxCalls /\ calls' = calls + 1
    /\ Stage("idle", AddRoundKey(Nr, buf), "invshift")
    /\ round' = Nr - 1
    /\ Record(4 * Nr, 4 * Nr - 1)

DecryptStage(at, new, then) ==
    Stage(at, new, then) /\ Record(depth, depth - 1) /\ UNCHANGED calls

DecryptShift == DecryptStage("invshift", InvShiftRows(buf), "invsub") /\ UNCHANGED round

DecryptSub == DecryptStage("invsub", InvSubBytes(buf), "invkey") /\ UNCHANGED round

DecryptKey ==
    /\ DecryptStage("invkey", AddRoundKey(round, buf), IF round > 0 THEN "invmix" ELSE "idle")
    /\ UNCHANGED round

DecryptMix ==
    /\ DecryptStage("invmix", InvMixColumns(buf), "invshift")
    /\ round' = round - 1

Encrypt == EncryptBegin \/ EncryptSub \/ EncryptShift \/ EncryptMix \/ EncryptKey
Decrypt == DecryptBegin \/ DecryptShift \/ DecryptSub \/ DecryptKey \/ DecryptMix

Next == KeyExpansion \/ Encrypt \/ Decrypt

Spec == Init /\ [][Next]_vars
----------------------------------------------------------------------------
Steps == {"expand", "idle", "sub", "shift", "mix", "key",
          "invshift", "invsub", "invmix", "invkey"}

(* The types, and the sizes the arrays of aes.h give the expanded key       *)
(* (176, 208 or 240 bytes) and its constant table.                         *)
TypeOK ==
    /\ key \in Keys
    /\ RoundKey \in Seq(Word) /\ Len(RoundKey) \in Nk .. 4 * (Nr + 1)
    /\ step # "expand" => Len(RoundKey) = 4 * (Nr + 1)
    /\ buf \in Block
    /\ step \in Steps /\ round \in 0 .. Nr /\ calls \in 0 .. MaxCalls
    /\ depth \in 0 .. 4 * Nr
    /\ DOMAIN seen \subseteq 0 .. 4 * Nr /\ \A n \in DOMAIN seen : seen[n] \in Block

(* The known-answer tests of main.c (test_encrypt_ecb, test_decrypt_ecb):   *)
(* the block whose plain text is plain has the cipher text cipher, whether  *)
(* the code got from one to the other by encrypting or by decrypting.      *)
KnownAnswer ==
    \A a \in Answers :
        a.key = key /\ {0, 4 * Nr} \subseteq DOMAIN seen
            => (seen[0] = a.plain <=> seen[4 * Nr] = a.cipher)

(* Decryption retraces encryption: after every stage the block is the one   *)
(* that was there when the other function was between the same two stages, *)
(* whichever of the two ran first.                                         *)
Unwinds == depth \in DOMAIN seen /\ buf = seen[depth]

(* The code's MixColumns, with its running sum Tmp and its saved byte t, is *)
(* the multiplication of a column by the circulant matrix (2 3 1 1).        *)
MatrixColumn(c) ==
    [j \in 0 .. 3 |-> Xor(Xor(Xor(Multiply(c[j], {1}), Multiply(c[(j + 1) % 4], {0, 1})),
                              c[(j + 2) % 4]), c[(j + 3) % 4])]

MixIsMatrix == \A i \in 0 .. 3 : MixColumn(buf[i]) = MatrixColumn(buf[i])
=============================================================================
