----------------------------- MODULE MCAesModes -----------------------------
(***************************************************************************)
(* AesModes with bytes of one bit, blocks of three bytes and a cipher that *)
(* is neither linear nor its own inverse, for TLC.                         *)
(***************************************************************************)
EXTENDS AesModes

MCXor == [a \in 0 .. 1 |-> [b \in 0 .. 1 |-> (a + b) % 2]]

Value(b) == 4 * b[0] + 2 * b[1] + b[2]
ToBlock(n) == [j \in 0 .. 2 |-> (n \div 2^(2 - j)) % 2]
MCBlock == [0 .. 2 -> 0 .. 1]

Permutation == <<6, 3, 0, 5, 1, 7, 4, 2>>
MCCipher == [b \in MCBlock |-> ToBlock(Permutation[Value(b) + 1])]
MCInvCipher == [c \in MCBlock |-> CHOOSE b \in MCBlock : MCCipher[b] = c]

(* From the first the counter carries once, from the second it overflows. *)
MCIVs == {ToBlock(1), ToBlock(6)}
MCTexts == {ToBlock(0), ToBlock(5)}
=============================================================================
