------------------------------ MODULE AesModes ------------------------------
(***************************************************************************)
(* The chaining modes of aes.c: AES_CBC_encrypt_buffer,                    *)
(* AES_CBC_decrypt_buffer and AES_CTR_xcrypt_buffer, between a sender and  *)
(* a receiver that share a key and an initial vector and keep one context  *)
(* each.  Each cuts the message into calls in its own way.                 *)
(*                                                                         *)
(* A piece is what one run of the block cipher serves: a block, of which a *)
(* CTR call may leave the last bytes unused when it is the call's last     *)
(* piece.  The block cipher is a pair of inverse functions, which is what  *)
(* AesProofs shows of Aes.  Definitions named Bug... are mutations of the  *)
(* definition after them.                                                  *)
(***************************************************************************)
EXTENDS Integers, Sequences

CONSTANTS BLOCKLEN,            \* bytes of a block (16)
          Top,                 \* the greatest byte (255)
          Xor,                 \* exclusive or of two bytes
          Cipher, InvCipher,   \* the block cipher under the shared key
          IVs,                 \* the vectors a message may start from
          Texts,               \* the blocks a message is made of
          MaxPieces            \* bound: pieces of a message

Index == 0 .. BLOCKLEN - 1
Byte  == 0 .. Top
Block == [Index -> Byte]

ASSUME SizeAssumption == BLOCKLEN \in Nat \ {0} /\ Top \in Nat

ASSUME CipherAssumption ==
    /\ Xor \in [Byte -> [Byte -> Byte]]
    /\ \A a, b \in Byte : Xor[Xor[a][b]][b] = a
    /\ Cipher \in [Block -> Block] /\ InvCipher \in [Block -> Block]
    /\ \A b \in Block : InvCipher[Cipher[b]] = b

ASSUME MessageAssumption ==
    IVs \subseteq Block /\ Texts \subseteq Block /\ MaxPieces \in Nat

VARIABLES mode,            \* "CBC" or "CTR"
          Iv,              \* ctx->Iv of the two contexts
          caller, last,    \* who is in a call, and the piece it ends with
          IvAt,            \* CBC encryption's pointer: 0 is ctx->Iv, and k
                           \* the k-th piece, in the caller's buffer
          sent, size,      \* the pieces given to the sender; bytes used
          wire,            \* the pieces enciphered so far
          got,             \* the pieces the receiver has made of them
          iv0, used        \* history: the initial vector, CTR's counters

message == <<sent, size, wire, got>>
vars == <<mode, Iv, caller, last, IvAt, message, iv0, used>>

Ends == {"sender", "receiver"}

XorWithIv(b, v) == [j \in Index |-> Xor[b[j]][v[j]]]

(* CTR's exclusive or, of the n bytes that the call still has. *)
XorPart(b, v, n) == [j \in Index |-> IF j < n THEN Xor[b[j]][v[j]] ELSE b[j]]

BugIncrementNoCarry(b) ==
    [j \in Index |-> IF j < BLOCKLEN - 1 THEN b[j]
                     ELSE IF b[j] = Top THEN 0 ELSE b[j] + 1]

(* The counter plus one: from the last byte on, each full byte becomes 0    *)
(* and the first that is not full ends the carry.                          *)
Increment(b) ==
    [j \in Index |->
        IF \E m \in Index : m > j /\ b[m] # Top THEN b[j]
        ELSE IF b[j] = Top THEN 0 ELSE b[j] + 1]

NewMessage(m, iv) ==
    /\ mode' = m
    /\ Iv' = [e \in Ends |-> iv] /\ iv0' = iv
    /\ sent' = <<>> /\ size' = <<>> /\ wire' = <<>> /\ got' = <<>>
    /\ used' = <<>>

Init ==
    /\ mode \in {"CBC", "CTR"}
    /\ \E iv \in IVs : Iv = [e \in Ends |-> iv] /\ iv0 = iv
    /\ caller = "none" /\ last = 0 /\ IvAt = 0
    /\ sent = <<>> /\ size = <<>> /\ wire = <<>> /\ got = <<>>
    /\ used = <<>>

(* AES_ctx_set_iv on both contexts. *)
SetIv ==
    /\ caller = "none"
    /\ \E m \in {"CBC", "CTR"}, iv \in IVs : NewMessage(m, iv)
    /\ UNCHANGED <<caller, last, IvAt>>

(* A call with c pieces of text, the last of which has n bytes.  CBC's      *)
(* length must be a multiple of the block length (aes.h).                  *)
SendCall(c, n) ==
    /\ caller = "none" /\ Len(sent) + c <= MaxPieces
    /\ mode = "CBC" => n = BLOCKLEN
    /\ \E text \in [1 .. c -> Texts] : sent' = sent \o text
    /\ size' = size \o [k \in 1 .. c |-> IF k = c THEN n ELSE BLOCKLEN]
    /\ caller' = "sender" /\ last' = Len(sent) + c
    /\ UNCHANGED <<mode, Iv, IvAt, wire, got, iv0, used>>

(* A call with c pieces of what has arrived.  A short piece ends it, as it  *)
(* ended the sender's.                                                     *)
ReceiveCall(c) ==
    /\ caller = "none" /\ Len(got) + c <= Len(wire)
    /\ \A k \in 1 .. c - 1 : size[Len(got) + k] = BLOCKLEN
    /\ caller' = "receiver" /\ last' = Len(got) + c
    /\ UNCHANGED <<mode, Iv, IvAt, message, iv0, used>>

BugCbcEncrypt ==
    /\ caller = "sender" /\ mode = "CBC" /\ Len(wire) < last
    /\ wire' = Append(wire, Cipher[XorWithIv(sent[Len(wire) + 1], Iv["sender"])])
    /\ IvAt' = Len(wire) + 1
    /\ UNCHANGED <<mode, Iv, caller, last, sent, size, got, iv0, used>>

(* One round of AES_CBC_encrypt_buffer's loop. *)
CbcEncrypt ==
    LET iv == IF IvAt = 0 THEN Iv["sender"] ELSE wire[IvAt] IN
    /\ caller = "sender" /\ mode = "CBC" /\ Len(wire) < last
    /\ wire' = Append(wire, Cipher[XorWithIv(sent[Len(wire) + 1], iv)])
    /\ IvAt' = Len(wire) + 1
    /\ UNCHANGED <<mode, Iv, caller, last, sent, size, got, iv0, used>>

(* "store Iv in ctx for next call" *)
CbcEncryptEnd ==
    /\ caller = "sender" /\ mode = "CBC" /\ Len(wire) = last
    /\ Iv' = IF IvAt = 0 THEN Iv ELSE [Iv EXCEPT !["sender"] = wire[IvAt]]
    /\ caller' = "none" /\ last' = 0 /\ IvAt' = 0
    /\ UNCHANGED <<mode, message, iv0, used>>

BugCbcDecrypt ==
    LET plain == XorWithIv(InvCipher[wire[Len(got) + 1]], Iv["receiver"]) IN
    /\ caller = "receiver" /\ mode = "CBC" /\ Len(got) < last
    /\ got' = Append(got, plain)
    /\ Iv' = [Iv EXCEPT !["receiver"] = plain]
    /\ UNCHANGED <<mode, caller, last, IvAt, sent, size, wire, iv0, used>>

(* Runs one piece past the call's buffer, onto the piece that lies there. *)
BugCbcDecryptTooFar ==
    LET storeNextIv == wire[Len(got) + 1] IN
    /\ caller = "receiver" /\ mode = "CBC" /\ Len(got) <= last /\ Len(got) < Len(wire)
    /\ got' = Append(got, XorWithIv(InvCipher[storeNextIv], Iv["receiver"]))
    /\ Iv' = [Iv EXCEPT !["receiver"] = storeNextIv]
    /\ UNCHANGED <<mode, caller, last, IvAt, sent, size, wire, iv0, used>>

(* One round of AES_CBC_decrypt_buffer's loop, which keeps the piece as the *)
(* next vector before it decrypts it in place.                             *)
CbcDecrypt ==
    LET storeNextIv == wire[Len(got) + 1] IN
    /\ caller = "receiver" /\ mode = "CBC" /\ Len(got) < last
    /\ got' = Append(got, XorWithIv(InvCipher[storeNextIv], Iv["receiver"]))
    /\ Iv' = [Iv EXCEPT !["receiver"] = storeNextIv]
    /\ UNCHANGED <<mode, caller, last, IvAt, sent, size, wire, iv0, used>>

(* AES_CTR_xcrypt_buffer from one run of the cipher to the next: the block  *)
(* of key stream, the counter, and the bytes it is used for.               *)
CtrEncrypt ==
    LET k == Len(wire) + 1 IN
    /\ caller = "sender" /\ mode = "CTR" /\ Len(wire) < last
    /\ wire' = Append(wire, XorPart(sent[k], Cipher[Iv["sender"]], size[k]))
    /\ used' = Append(used, Iv["sender"])
    /\ Iv' = [Iv EXCEPT !["sender"] = Increment(Iv["sender"])]
    /\ UNCHANGED <<mode, caller, last, IvAt, sent, size, got, iv0>>

CtrDecrypt ==
    LET k == Len(got) + 1 IN
    /\ caller = "receiver" /\ mode = "CTR" /\ Len(got) < last
    /\ got' = Append(got, XorPart(wire[k], Cipher[Iv["receiver"]], size[k]))
    /\ Iv' = [Iv EXCEPT !["receiver"] = Increment(Iv["receiver"])]
    /\ UNCHANGED <<mode, caller, last, IvAt, sent, size, wire, iv0, used>>

(* The other functions have nothing left to store when their loop ends. *)
CallEnd ==
    /\ \/ caller = "sender" /\ mode = "CTR" /\ Len(wire) = last
       \/ caller = "receiver" /\ Len(got) = last
    /\ caller' = "none" /\ last' = 0
    /\ UNCHANGED <<mode, Iv, IvAt, message, iv0, used>>

Next == \/ SetIv
        \/ \E c \in 0 .. MaxPieces, n \in 1 .. BLOCKLEN : SendCall(c, n)
        \/ \E c \in 0 .. MaxPieces : ReceiveCall(c)
        \/ CbcEncrypt \/ CbcEncryptEnd \/ CbcDecrypt
        \/ CtrEncrypt \/ CtrDecrypt \/ CallEnd

Spec == Init /\ [][Next]_vars
----------------------------------------------------------------------------
(* Vectors, counters and pieces are blocks of bytes, and no call runs past  *)
(* its buffer.                                                             *)
TypeOK ==
    /\ mode \in {"CBC", "CTR"}
    /\ Iv \in [Ends -> Block] /\ iv0 \in Block
    /\ caller \in Ends \cup {"none"} /\ last \in Nat /\ IvAt \in 0 .. Len(wire)
    /\ sent \in Seq(Block) /\ wire \in Seq(Block) /\ got \in Seq(Block)
    /\ size \in Seq(1 .. BLOCKLEN) /\ Len(size) = Len(sent)
    /\ used \in Seq(Block)
    /\ Len(got) <= Len(wire) /\ Len(wire) <= Len(sent)
    /\ caller = "sender" => last = Len(sent)
    /\ caller = "receiver" => Len(got) <= last /\ last <= Len(wire)

(* The receiver gets what the sender was given, however the two cut the     *)
(* message into calls: each context carries over from call to call what    *)
(* the next one needs.                                                     *)
RoundTrip == \A k \in 1 .. Len(got) : got[k] = sent[k]

(* The vector that piece k is chained to. *)
Chain(k) == IF k = 1 THEN iv0 ELSE wire[k - 1]

(* The enciphered message is the CBC of the whole message, the same for     *)
(* every way of cutting it into calls.                                     *)
CbcStandard ==
    mode = "CBC" =>
        \A k \in 1 .. Len(wire) : wire[k] = Cipher[XorWithIv(sent[k], Chain(k))]

(* "no IV should ever be reused with the same key" (aes.h:84): within a     *)
(* message no two pieces are enciphered with the same counter, as long as  *)
(* there are counters left.                                                *)
KeystreamFresh ==
    \A j, k \in 1 .. Len(used) : used[j] = used[k] => j = k
=============================================================================
