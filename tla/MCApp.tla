-------------------------------- MODULE MCApp --------------------------------
(* Words of three bits shown in binary, blocks of two, an affine cipher,    *)
(* and messages of which one is as long as the loop, the others one shorter. *)
EXTENDS App

MCCipher == [b \in Blocks |-> [k \in Index |-> IF k = 0 THEN (3 * b[0] + b[1] + 5) % Wrap
                                                        ELSE (b[0] + 2 * b[1] + 3) % Wrap]]
MCLetters == [m \in Messages |-> IF m = "encrypting" THEN LENGTH ELSE LENGTH - 1]
MCInvCipher == [c \in Blocks |-> CHOOSE b \in Blocks : MCCipher[b] = c]
=============================================================================
