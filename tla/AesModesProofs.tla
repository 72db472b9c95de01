---------------------------- MODULE AesModesProofs ----------------------------
(***************************************************************************)
(* Proofs about AesModes: the receiver recovers the message and the wire   *)
(* carries the CBC of the whole message, for every block length, cipher,   *)
(* initial vector, message and way of cutting it into calls.  In CTR mode  *)
(* no counter is used for two pieces while there are others left.          *)
(***************************************************************************)
EXTENDS AesModes, FiniteSetTheorems, WellFoundedInduction, TLAPS

(* Outside the sender's calls everything given to it is enciphered, and the *)
(* pointer is only ever used in CBC mode.                                  *)
SizesOK ==
    /\ caller # "sender" => Len(wire) = Len(sent) /\ IvAt = 0
    /\ mode = "CTR" => IvAt = 0

(* CBC: wherever the pointer points, it finds the last piece enciphered;    *)
(* the receiver's context holds the last piece deciphered.                 *)
SenderIv == IF IvAt = 0 THEN Iv["sender"] ELSE wire[IvAt]

CbcChain ==
    mode = "CBC" =>
        /\ SenderIv = Chain(Len(wire) + 1)
        /\ Iv["receiver"] = Chain(Len(got) + 1)
        /\ CbcStandard

(* CTR: the receiver's counter is the one that the sender used for the      *)
(* piece the receiver is at, or is about to use.                           *)
CtrCounters ==
    mode = "CTR" =>
        /\ Len(used) = Len(wire)
        /\ \A k \in 1 .. Len(wire) : wire[k] = XorPart(sent[k], Cipher[used[k]], size[k])
        /\ \A k \in 1 .. Len(wire) - 1 : used[k + 1] = Increment(used[k])
        /\ Len(wire) > 0 => Iv["sender"] = Increment(used[Len(wire)])
        /\ Iv["receiver"] = IF Len(got) < Len(wire) THEN used[Len(got) + 1]
                                                    ELSE Iv["sender"]

(* The inductive invariant. *)
IInv == TypeOK /\ SizesOK /\ RoundTrip /\ CbcChain /\ CtrCounters

-----------------------------------------------------------------------------
(* Exclusive or undoes itself, on a whole piece and on part of one. *)
LEMMA XorUndone ==
  ASSUME NEW b \in Block, NEW v \in Block
  PROVE  /\ XorWithIv(b, v) \in Block
         /\ XorWithIv(XorWithIv(b, v), v) = b
BY CipherAssumption DEF XorWithIv, Block

LEMMA XorPartUndone ==
  ASSUME NEW b \in Block, NEW v \in Block, NEW n \in 1 .. BLOCKLEN
  PROVE  /\ XorPart(b, v, n) \in Block
         /\ XorPart(XorPart(b, v, n), v, n) = b
<1> DEFINE x == XorPart(b, v, n)
<1>1. \A j \in Index : /\ b[j] \in Byte /\ v[j] \in Byte /\ Xor[b[j]][v[j]] \in Byte
                       /\ Xor[Xor[b[j]][v[j]]][v[j]] = b[j]
  BY CipherAssumption DEF Block
<1>2. x \in Block /\ \A j \in Index : x[j] = IF j < n THEN Xor[b[j]][v[j]] ELSE b[j]
  BY <1>1 DEF XorPart, Block
<1> HIDE DEF x
<1>3. /\ XorPart(x, v, n) = [j \in Index |-> b[j]]
  BY <1>1, <1>2 DEF XorPart
<1> QED
  BY <1>2, <1>3 DEF Block, x

LEMMA IncrementTypes ==
  ASSUME NEW b \in Block
  PROVE  Increment(b) \in Block
<1> SUFFICES ASSUME NEW j \in Index
             PROVE  (IF \E m \in Index : m > j /\ b[m] # Top THEN b[j]
                     ELSE IF b[j] = Top THEN 0 ELSE b[j] + 1) \in Byte
  BY DEF Increment, Block
<1>1. b[j] \in Byte
  BY DEF Block
<1>2. 0 \in Byte /\ (b[j] # Top => b[j] + 1 \in Byte)
  BY <1>1, SizeAssumption DEF Byte
<1> QED
  BY <1>1, <1>2

LEMMA CipherTypes ==
  ASSUME NEW b \in Block
  PROVE  Cipher[b] \in Block /\ InvCipher[b] \in Block /\ InvCipher[Cipher[b]] = b
BY CipherAssumption
-----------------------------------------------------------------------------
LEMMA InitIInv == Init => IInv
<1> SUFFICES ASSUME Init PROVE IInv
  OBVIOUS
<1> PICK iv \in IVs : Iv = [e \in Ends |-> iv] /\ iv0 = iv
  BY DEF Init
<1>1. iv \in Block
  BY MessageAssumption
<1>2. TypeOK
  BY <1>1 DEF Init, TypeOK, Ends
<1> QED
  BY <1>1, <1>2 DEF Init, IInv, SizesOK, RoundTrip, CbcChain, SenderIv, Chain, CbcStandard,
                    CtrCounters, Ends

LEMMA SetIvKeeps == IInv /\ SetIv => IInv'
<1> SUFFICES ASSUME IInv, SetIv PROVE IInv'
  OBVIOUS
<1> PICK m \in {"CBC", "CTR"}, iv \in IVs : NewMessage(m, iv)
  BY DEF SetIv
<1>1. iv \in Block
  BY MessageAssumption
<1>2. caller = "none" /\ IvAt = 0 /\ last \in Nat
  BY DEF SetIv, IInv, SizesOK, TypeOK
<1>3. UNCHANGED <<caller, last, IvAt>>
  BY DEF SetIv
<1>4. TypeOK'
  BY <1>1, <1>2, <1>3 DEF NewMessage, TypeOK, Ends
<1> QED
  BY <1>1, <1>2, <1>3, <1>4 DEF NewMessage, IInv, SizesOK, RoundTrip, CbcChain, SenderIv,
        Chain, CbcStandard, CtrCounters, Ends

LEMMA AppendText ==
  ASSUME NEW S, NEW s \in Seq(S), NEW u \in Seq(S)
  PROVE  /\ s \o u \in Seq(S)
         /\ Len(s \o u) = Len(s) + Len(u)
         /\ \A k \in 1 .. Len(s) : (s \o u)[k] = s[k]
OBVIOUS

LEMMA SendCallKeeps ==
  ASSUME IInv, NEW c \in 0 .. MaxPieces, NEW n \in 1 .. BLOCKLEN, SendCall(c, n)
  PROVE  IInv'
<1> PICK text \in [1 .. c -> Texts] : sent' = sent \o text
  BY DEF SendCall
<1> DEFINE lens == [k \in 1 .. c |-> IF k = c THEN n ELSE BLOCKLEN]
<1>1. text \in Seq(Block) /\ Len(text) = c /\ lens \in Seq(1 .. BLOCKLEN) /\ Len(lens) = c
  BY MessageAssumption, SizeAssumption
<1> HIDE DEF lens
<1>2. /\ size' = size \o lens
      /\ caller = "none" /\ caller' = "sender" /\ last' = Len(sent) + c
      /\ UNCHANGED <<mode, Iv, IvAt, wire, got, iv0, used>>
  BY DEF SendCall, lens
<1>3. TypeOK /\ Len(wire) = Len(sent) /\ IvAt = 0
  BY <1>2 DEF IInv, SizesOK
<1>4. /\ sent' \in Seq(Block) /\ Len(sent') = Len(sent) + c
      /\ size' \in Seq(1 .. BLOCKLEN) /\ Len(size') = Len(size) + c
      /\ \A k \in 1 .. Len(sent) : sent'[k] = sent[k] /\ size'[k] = size[k]
  <2>1. sent \in Seq(Block) /\ size \in Seq(1 .. BLOCKLEN) /\ Len(size) = Len(sent)
    BY <1>3 DEF TypeOK
  <2>2. /\ sent' \in Seq(Block) /\ Len(sent') = Len(sent) + c
        /\ \A k \in 1 .. Len(sent) : sent'[k] = sent[k]
    <3>1. sent \in Seq(Block) /\ text \in Seq(Block) /\ Len(text) = c
      BY <2>1, <1>1
    <3> HIDE DEF Block
    <3> QED
      BY <3>1, AppendText
  <2>3. /\ size' \in Seq(1 .. BLOCKLEN) /\ Len(size') = Len(size) + c
        /\ \A k \in 1 .. Len(size) : size'[k] = size[k]
    <3> DEFINE Size == 1 .. BLOCKLEN
    <3>1. size \in Seq(Size) /\ lens \in Seq(Size) /\ Len(lens) = c /\ size' = size \o lens
      BY <2>1, <1>1, <1>2
    <3> HIDE DEF Size
    <3>2. /\ size' \in Seq(Size) /\ Len(size') = Len(size) + c
          /\ \A k \in 1 .. Len(size) : size'[k] = size[k]
      BY <3>1, AppendText
    <3> QED
      BY <3>2 DEF Size
  <2> QED
    BY <2>1, <2>2, <2>3
<1>5. TypeOK'
  BY <1>1, <1>2, <1>3, <1>4 DEF TypeOK, Ends
<1>6. RoundTrip'
  BY <1>2, <1>3, <1>4 DEF IInv, RoundTrip, TypeOK
<1>7. CbcChain'
  <2>1. \A k \in 1 .. Len(wire) : Chain(k)' = Chain(k)
    BY <1>2 DEF Chain
  <2> QED
    BY <2>1, <1>2, <1>3, <1>4 DEF IInv, CbcChain, SenderIv, Chain, CbcStandard, TypeOK
<1>8. CtrCounters'
  BY <1>2, <1>3, <1>4 DEF IInv, CtrCounters, TypeOK
<1> QED
  BY <1>2, <1>5, <1>6, <1>7, <1>8 DEF IInv, SizesOK

LEMMA ReceiveCallKeeps ==
  ASSUME IInv, NEW c \in 0 .. MaxPieces, ReceiveCall(c)
  PROVE  IInv'
<1>1. /\ caller = "none" /\ caller' = "receiver" /\ last' = Len(got) + c
      /\ Len(got) + c <= Len(wire)
      /\ UNCHANGED <<mode, Iv, IvAt, sent, size, wire, got, iv0, used>>
  BY DEF ReceiveCall, message
<1>2. TypeOK'
  BY <1>1, MessageAssumption DEF IInv, TypeOK, Ends
<1> QED
  BY <1>1, <1>2 DEF IInv, SizesOK, RoundTrip, CbcChain, SenderIv, Chain, CbcStandard,
                    CtrCounters
-----------------------------------------------------------------------------
(* A piece appended to a text of blocks leaves the others where they were. *)
LEMMA AppendPiece ==
  ASSUME NEW s \in Seq(Block), NEW b \in Block
  PROVE  /\ Append(s, b) \in Seq(Block)
         /\ Len(Append(s, b)) = Len(s) + 1
         /\ Append(s, b)[Len(s) + 1] = b
         /\ \A k \in 1 .. Len(s) : Append(s, b)[k] = s[k]
OBVIOUS

LEMMA ElementOfSeqAt ==
  ASSUME NEW S, NEW s \in Seq(S), NEW k \in 1 .. Len(s)
  PROVE  s[k] \in S
OBVIOUS

LEMMA CbcEncryptKeeps == IInv /\ CbcEncrypt => IInv'
<1> SUFFICES ASSUME IInv, CbcEncrypt PROVE IInv'
  OBVIOUS
<1> DEFINE k == Len(wire) + 1
           c == Cipher[XorWithIv(sent[k], SenderIv)]
<1>1. /\ caller = "sender" /\ mode = "CBC" /\ Len(wire) < last
      /\ wire' = Append(wire, c)
      /\ IvAt' = k
      /\ UNCHANGED <<mode, Iv, caller, last, sent, size, got, iv0, used>>
  BY DEF CbcEncrypt, SenderIv
<1>2. TypeOK /\ last = Len(sent)
  BY <1>1 DEF IInv, TypeOK
<1>3. SenderIv = Chain(k) /\ Chain(k) \in Block /\ sent[k] \in Block
  BY <1>1, <1>2 DEF IInv, CbcChain, Chain, TypeOK
<1>4. c \in Block
  BY <1>3, XorUndone, CipherTypes
<1>5. c = Cipher[XorWithIv(sent[k], Chain(k))]
  BY <1>3
<1> HIDE DEF c
<1>6. /\ wire' \in Seq(Block) /\ Len(wire') = k /\ wire'[k] = c
      /\ \A j \in 1 .. Len(wire) : wire'[j] = wire[j]
  BY <1>1, <1>2, <1>4, AppendPiece DEF TypeOK
<1>7. TypeOK'
  BY <1>1, <1>2, <1>6 DEF TypeOK
<1>8. \A j \in 1 .. k : Chain(j)' = Chain(j)
  BY <1>1, <1>2, <1>6 DEF Chain, TypeOK
<1>9. CbcStandard'
  BY <1>1, <1>2, <1>5, <1>6, <1>8 DEF CbcStandard, IInv, CbcChain, TypeOK
<1>10. SenderIv' = Chain(Len(wire) + 1)'
  BY <1>1, <1>2, <1>6 DEF SenderIv, Chain, TypeOK
<1>11. Iv["receiver"]' = Chain(Len(got) + 1)'
  BY <1>1, <1>2, <1>8 DEF IInv, CbcChain, TypeOK
<1> QED
  BY <1>1, <1>7, <1>9, <1>10, <1>11 DEF IInv, SizesOK, RoundTrip, CbcChain, CtrCounters

LEMMA CbcEncryptEndKeeps == IInv /\ CbcEncryptEnd => IInv'
<1> SUFFICES ASSUME IInv, CbcEncryptEnd PROVE IInv'
  OBVIOUS
<1>1. /\ caller = "sender" /\ mode = "CBC" /\ Len(wire) = last
      /\ Iv' = IF IvAt = 0 THEN Iv ELSE [Iv EXCEPT !["sender"] = wire[IvAt]]
      /\ caller' = "none" /\ last' = 0 /\ IvAt' = 0
      /\ UNCHANGED <<mode, sent, size, wire, got, iv0, used>>
  BY DEF CbcEncryptEnd, message
<1>2. TypeOK /\ Len(wire) = Len(sent)
  BY <1>1 DEF IInv, TypeOK
<1>3. /\ Iv' \in [Ends -> Block]
      /\ Iv'["sender"] = SenderIv /\ Iv'["receiver"] = Iv["receiver"]
  BY <1>1, <1>2 DEF SenderIv, TypeOK, Ends
<1>4. TypeOK'
  BY <1>1, <1>2, <1>3 DEF TypeOK
<1> QED
  BY <1>1, <1>2, <1>3, <1>4 DEF IInv, SizesOK, RoundTrip, CbcChain, SenderIv, Chain,
        CbcStandard, CtrCounters

LEMMA CbcDecryptKeeps == IInv /\ CbcDecrypt => IInv'
<1> SUFFICES ASSUME IInv, CbcDecrypt PROVE IInv'
  OBVIOUS
<1> DEFINE k == Len(got) + 1
           p == XorWithIv(InvCipher[wire[k]], Iv["receiver"])
<1>1. /\ caller = "receiver" /\ mode = "CBC" /\ Len(got) < last
      /\ got' = Append(got, p)
      /\ Iv' = [Iv EXCEPT !["receiver"] = wire[k]]
      /\ UNCHANGED <<mode, caller, last, IvAt, sent, size, wire, iv0, used>>
  BY DEF CbcDecrypt
<1>2. TypeOK /\ last <= Len(wire) /\ k \in 1 .. Len(wire) /\ k \in 1 .. Len(sent)
  BY <1>1 DEF IInv, TypeOK
<1>3. /\ Iv["receiver"] = Chain(k) /\ Chain(k) \in Block
      /\ sent[k] \in Block /\ wire[k] \in Block
      /\ wire[k] = Cipher[XorWithIv(sent[k], Chain(k))]
  BY <1>1, <1>2 DEF IInv, CbcChain, CbcStandard, Chain, TypeOK
<1>4. p = sent[k]
  BY <1>3, XorUndone, CipherTypes
<1> HIDE DEF p
<1>5. /\ got' \in Seq(Block) /\ Len(got') = k /\ got'[k] = sent[k]
      /\ \A j \in 1 .. Len(got) : got'[j] = got[j]
  BY <1>1, <1>2, <1>3, <1>4, AppendPiece DEF TypeOK
<1>6. /\ Iv' \in [Ends -> Block]
      /\ Iv'["receiver"] = wire[k] /\ Iv'["sender"] = Iv["sender"]
  BY <1>1, <1>2, <1>3 DEF TypeOK, Ends
<1>7. TypeOK'
  BY <1>1, <1>2, <1>5, <1>6 DEF TypeOK
<1>8. RoundTrip'
  BY <1>1, <1>2, <1>5 DEF IInv, RoundTrip, TypeOK
<1>9. Iv["receiver"]' = Chain(Len(got) + 1)'
  BY <1>1, <1>2, <1>5, <1>6 DEF Chain, TypeOK
<1> QED
  BY <1>1, <1>2, <1>6, <1>7, <1>8, <1>9 DEF IInv, SizesOK, CbcChain, SenderIv, Chain,
        CbcStandard, CtrCounters

LEMMA CtrEncryptKeeps == IInv /\ CtrEncrypt => IInv'
<1> SUFFICES ASSUME IInv, CtrEncrypt PROVE IInv'
  OBVIOUS
<1> DEFINE k == Len(wire) + 1
           v == Iv["sender"]
           c == XorPart(sent[k], Cipher[v], size[k])
           w == Increment(v)
<1>1. /\ caller = "sender" /\ mode = "CTR" /\ Len(wire) < last
      /\ wire' = Append(wire, c)
      /\ used' = Append(used, v)
      /\ Iv' = [Iv EXCEPT !["sender"] = w]
      /\ UNCHANGED <<mode, caller, last, IvAt, sent, size, got, iv0>>
  BY DEF CtrEncrypt
<1>2. TypeOK /\ last = Len(sent) /\ Len(used) = Len(wire)
  BY <1>1 DEF IInv, TypeOK, CtrCounters
<1>3. v \in Block /\ sent[k] \in Block /\ size[k] \in 1 .. BLOCKLEN
  <2>1. k \in 1 .. Len(sent) /\ k \in 1 .. Len(size)
    BY <1>1, <1>2 DEF TypeOK
  <2> QED
    BY <2>1, <1>2, ElementOfSeqAt DEF TypeOK, Ends
<1>4. c \in Block /\ w \in Block
  BY <1>3, XorPartUndone, CipherTypes, IncrementTypes
<1> HIDE DEF c, v, w
<1>5. /\ wire' \in Seq(Block) /\ Len(wire') = k /\ wire'[k] = c
      /\ \A j \in 1 .. Len(wire) : wire'[j] = wire[j]
      /\ used' \in Seq(Block) /\ Len(used') = k /\ used'[k] = v
      /\ \A j \in 1 .. Len(wire) : used'[j] = used[j]
  BY <1>1, <1>2, <1>3, <1>4, AppendPiece DEF TypeOK
<1>6. /\ Iv' \in [Ends -> Block]
      /\ Iv'["sender"] = w /\ Iv'["receiver"] = Iv["receiver"]
  BY <1>1, <1>2, <1>4 DEF TypeOK, Ends
<1>7. TypeOK'
  BY <1>1, <1>2, <1>5, <1>6 DEF TypeOK
<1>8. \A j \in 1 .. k : wire'[j] = XorPart(sent[j], Cipher[used'[j]], size[j])
  BY <1>1, <1>2, <1>5 DEF IInv, CtrCounters, TypeOK, c
<1>9. \A j \in 1 .. k - 1 : used'[j + 1] = Increment(used'[j])
  <2> SUFFICES ASSUME NEW j \in 1 .. Len(wire) PROVE used'[j + 1] = Increment(used'[j])
    BY <1>2 DEF TypeOK
  <2>1. CASE j < Len(wire)
    BY <2>1, <1>1, <1>2, <1>5 DEF IInv, CtrCounters, TypeOK
  <2>2. CASE j = Len(wire)
    BY <2>2, <1>1, <1>2, <1>5 DEF IInv, CtrCounters, TypeOK, v
  <2> QED
    BY <2>1, <2>2, <1>2 DEF TypeOK
<1>10. Iv'["sender"] = Increment(used'[k])
  BY <1>5, <1>6 DEF w
<1>11. Len(got) < k /\ Iv'["receiver"] = used'[Len(got) + 1]
  BY <1>1, <1>2, <1>5, <1>6 DEF IInv, CtrCounters, TypeOK, v
<1>12. CtrCounters'
  BY <1>1, <1>2, <1>5, <1>8, <1>9, <1>10, <1>11 DEF CtrCounters
<1> QED
  BY <1>1, <1>7, <1>12 DEF IInv, SizesOK, RoundTrip, CbcChain, CbcStandard

LEMMA CtrDecryptKeeps == IInv /\ CtrDecrypt => IInv'
<1> SUFFICES ASSUME IInv, CtrDecrypt PROVE IInv'
  OBVIOUS
<1> DEFINE k == Len(got) + 1
           v == Iv["receiver"]
           p == XorPart(wire[k], Cipher[v], size[k])
           w == Increment(v)
<1>1. /\ caller = "receiver" /\ mode = "CTR" /\ Len(got) < last
      /\ got' = Append(got, p)
      /\ Iv' = [Iv EXCEPT !["receiver"] = w]
      /\ UNCHANGED <<mode, caller, last, IvAt, sent, size, wire, iv0, used>>
  BY DEF CtrDecrypt
<1>2. TypeOK /\ last <= Len(wire) /\ k \in 1 .. Len(wire) /\ k \in 1 .. Len(sent)
      /\ Len(used) = Len(wire)
  BY <1>1 DEF IInv, TypeOK, CtrCounters
<1>3. /\ v = used[k] /\ v \in Block /\ sent[k] \in Block /\ size[k] \in 1 .. BLOCKLEN
      /\ wire[k] = XorPart(sent[k], Cipher[used[k]], size[k])
  <2>1. k \in 1 .. Len(size)
    BY <1>2 DEF TypeOK
  <2>2. v = used[k] /\ wire[k] = XorPart(sent[k], Cipher[used[k]], size[k])
    BY <1>1, <1>2 DEF IInv, CtrCounters
  <2> QED
    BY <2>1, <2>2, <1>2, ElementOfSeqAt DEF TypeOK, Ends
<1>4. p = sent[k] /\ w \in Block
  <2>1. Cipher[v] \in Block /\ w \in Block
    BY <1>3, CipherTypes, IncrementTypes
  <2>2. p = XorPart(XorPart(sent[k], Cipher[v], size[k]), Cipher[v], size[k])
    BY <1>3
  <2> HIDE DEF v
  <2> QED
    BY <2>1, <2>2, <1>3, XorPartUndone
<1>5. w = IF k < Len(wire) THEN used[k + 1] ELSE Iv["sender"]
  <2>1. w = Increment(used[k])
    BY <1>3
  <2>2. /\ \A j \in 1 .. Len(wire) - 1 : used[j + 1] = Increment(used[j])
        /\ Len(wire) > 0 => Iv["sender"] = Increment(used[Len(wire)])
    BY <1>1 DEF IInv, CtrCounters
  <2>3. k \in Nat /\ Len(wire) \in Nat /\ k >= 1 /\ k <= Len(wire)
    BY <1>2 DEF TypeOK
  <2> HIDE DEF k, w
  <2>4. CASE k < Len(wire)
    <3>1. k \in 1 .. Len(wire) - 1
      BY <2>3, <2>4
    <3> QED
      BY <2>1, <2>2, <2>4, <3>1
  <2>5. CASE k = Len(wire)
    BY <2>1, <2>2, <2>3, <2>5
  <2> QED
    BY <2>3, <2>4, <2>5
<1> HIDE DEF p, v, w
<1>6. /\ got' \in Seq(Block) /\ Len(got') = k /\ got'[k] = sent[k]
      /\ \A j \in 1 .. Len(got) : got'[j] = got[j]
  BY <1>1, <1>2, <1>3, <1>4, AppendPiece DEF TypeOK
<1>7. /\ Iv' \in [Ends -> Block]
      /\ Iv'["receiver"] = w /\ Iv'["sender"] = Iv["sender"]
  BY <1>1, <1>2, <1>4 DEF TypeOK, Ends
<1>8. TypeOK'
  BY <1>1, <1>2, <1>6, <1>7 DEF TypeOK
<1>9. RoundTrip'
  BY <1>1, <1>2, <1>6 DEF IInv, RoundTrip, TypeOK
<1>10. CtrCounters'
  BY <1>1, <1>2, <1>5, <1>6, <1>7 DEF IInv, CtrCounters
<1> QED
  BY <1>1, <1>8, <1>9, <1>10 DEF IInv, SizesOK, CbcChain, CbcStandard

LEMMA CallEndKeeps == IInv /\ CallEnd => IInv'
<1> SUFFICES ASSUME IInv, CallEnd PROVE IInv'
  OBVIOUS
<1>1. /\ caller' = "none" /\ last' = 0
      /\ UNCHANGED <<mode, Iv, IvAt, sent, size, wire, got, iv0, used>>
      /\ caller = "sender" => mode = "CTR" /\ Len(wire) = last
  BY DEF CallEnd, message
<1>2. TypeOK'
  BY <1>1 DEF IInv, TypeOK
<1>3. Len(wire) = Len(sent) /\ IvAt = 0
  <2>1. CASE caller = "sender"
    BY <2>1, <1>1 DEF IInv, TypeOK, SizesOK
  <2>2. CASE caller # "sender"
    BY <2>2 DEF IInv, SizesOK
  <2> QED
    BY <2>1, <2>2
<1> QED
  BY <1>1, <1>2, <1>3 DEF IInv, SizesOK, RoundTrip, CbcChain, SenderIv, Chain, CbcStandard,
        CtrCounters

LEMMA StepKeeps == IInv /\ [Next]_vars => IInv'
<1> SUFFICES ASSUME IInv, [Next]_vars PROVE IInv'
  OBVIOUS
<1>1. CASE UNCHANGED vars
  BY <1>1 DEF vars, message, IInv, TypeOK, SizesOK, RoundTrip, CbcChain, SenderIv, Chain,
        CbcStandard, CtrCounters
<1> QED
  BY <1>1, SetIvKeeps, SendCallKeeps, ReceiveCallKeeps, CbcEncryptKeeps, CbcEncryptEndKeeps,
     CbcDecryptKeeps, CtrEncryptKeeps, CtrDecryptKeeps, CallEndKeeps DEF Next

THEOREM Invariance == Spec => []IInv
<1>1. Init => IInv
  BY InitIInv
<1>2. IInv /\ [Next]_vars => IInv'
  BY StepKeeps
<1> QED
  BY <1>1, <1>2, PTL DEF Spec

(* Every vector, counter and piece is a block of bytes, and no call runs    *)
(* past its buffer.                                                        *)
THEOREM TypeCorrect == Spec => []TypeOK
<1>1. IInv => TypeOK
  BY DEF IInv
<1> QED
  BY <1>1, Invariance, PTL

(* Receiver and sender may cut the message into calls as they like: what    *)
(* is deciphered is what was given to the sender, in CBC and in CTR mode.  *)
THEOREM DecryptionRecovers == Spec => []RoundTrip
<1>1. IInv => RoundTrip
  BY DEF IInv
<1> QED
  BY <1>1, Invariance, PTL

(* AES_CBC_encrypt_buffer enciphers the message as one chain. *)
THEOREM CbcIsOneChain == Spec => []CbcStandard
<1>1. IInv => CbcStandard
  BY DEF IInv, CbcChain, CbcStandard
<1> QED
  BY <1>1, Invariance, PTL
-----------------------------------------------------------------------------
(* What CtrCounters leaves open: where the counters begin. *)
FirstCounter ==
    mode = "CTR" => iv0 = IF Len(used) = 0 THEN Iv["sender"] ELSE used[1]

(* The enciphered message is the counter mode of the whole message: the     *)
(* counters go up by one from the initial vector, over the ends of the     *)
(* calls, and each piece is hidden under the cipher of its own.            *)
CtrStandard ==
    mode = "CTR" =>
        /\ Len(used) = Len(wire)
        /\ Len(used) > 0 => used[1] = iv0
        /\ \A k \in 1 .. Len(used) - 1 : used[k + 1] = Increment(used[k])
        /\ \A k \in 1 .. Len(wire) : wire[k] = XorPart(sent[k], Cipher[used[k]], size[k])

LEMMA FirstCounterKept == IInv /\ FirstCounter /\ [Next]_vars => FirstCounter'
<1> SUFFICES ASSUME IInv, FirstCounter, [Next]_vars, mode' = "CTR"
             PROVE  iv0' = IF Len(used') = 0 THEN Iv'["sender"] ELSE used'[1]
  BY DEF FirstCounter
<1>1. CASE SetIv
  BY <1>1, MessageAssumption DEF SetIv, NewMessage, Ends
<1>2. CASE CtrEncrypt
  <2>1. /\ used \in Seq(Block) /\ Iv["sender"] \in Block /\ mode = "CTR" /\ iv0' = iv0
        /\ used' = Append(used, Iv["sender"])
    BY <1>2 DEF CtrEncrypt, IInv, TypeOK, Ends
  <2>2. Len(used') # 0 /\ used'[1] = IF Len(used) = 0 THEN Iv["sender"] ELSE used[1]
    BY <2>1, AppendPiece
  <2> QED
    BY <2>1, <2>2 DEF FirstCounter
<1>3. CASE CtrDecrypt
  <2>1. Iv'["sender"] = Iv["sender"] /\ UNCHANGED <<mode, used, iv0>>
    BY <1>3 DEF CtrDecrypt, IInv, TypeOK, Ends
  <2> QED
    BY <2>1 DEF FirstCounter
<1>4. CASE UNCHANGED <<mode, used, iv0, Iv>>
  BY <1>4 DEF FirstCounter
<1>5. CASE CbcEncrypt \/ CbcEncryptEnd \/ CbcDecrypt
  BY <1>5 DEF CbcEncrypt, CbcEncryptEnd, CbcDecrypt
<1> QED
  BY <1>1, <1>2, <1>3, <1>4, <1>5 DEF Next, SendCall, ReceiveCall, CallEnd, vars

(* AES_CTR_xcrypt_buffer enciphers the message as one stream, the same for  *)
(* every way of cutting it into calls.                                     *)
THEOREM CtrIsOneStream == Spec => []CtrStandard
<1>1. Init => FirstCounter
  BY MessageAssumption DEF Init, FirstCounter, Ends
<1>2. IInv /\ FirstCounter => CtrStandard
  BY DEF IInv, CtrCounters, FirstCounter, CtrStandard
<1> QED
  BY <1>1, <1>2, FirstCounterKept, Invariance, PTL DEF Spec
-----------------------------------------------------------------------------
(* Blocks in the order of the numbers they are, the first byte first.       *)
Before(a, b) == \E m \in Index : a[m] < b[m] /\ \A j \in 0 .. m - 1 : a[j] = b[j]

LEMMA LeastElement ==
  ASSUME NEW T \in SUBSET Nat, T # {}
  PROVE  \E x \in T : \A y \in T : x <= y
<1>1. PICK x \in T : \A y \in T : ~ (<<y, x>> \in OpToRel(<, Nat))
  <2> HIDE DEF OpToRel
  <2> QED
    BY NatLessThanWellFounded, WFMin
<1>2. \A y \in T : x <= y
  <2> TAKE y \in T
  <2>1. ~ (<<y, x>> \in OpToRel(<, Nat))
    BY <1>1
  <2>2. x \in Nat /\ y \in Nat
    OBVIOUS
  <2>3. ~ (y < x)
    BY <2>1, <2>2 DEF OpToRel
  <2> QED
    BY <2>2, <2>3
<1> QED
  BY <1>2

LEMMA FirstDifference ==
  ASSUME NEW a \in Block, NEW b \in Block, a # b
  PROVE  \E m \in Index : a[m] # b[m] /\ \A j \in 0 .. m - 1 : a[j] = b[j]
<1> DEFINE D == {j \in Index : a[j] # b[j]}
<1>1. D \in SUBSET Nat /\ D # {}
  BY SizeAssumption DEF Index, Block
<1>2. PICK m \in D : \A y \in D : m <= y
  BY <1>1, LeastElement
<1>3. \A j \in 0 .. m - 1 : a[j] = b[j]
  <2> TAKE j \in 0 .. m - 1
  <2>1. j \in Index /\ ~ (m <= j)
    BY <1>2, SizeAssumption DEF Index
  <2> QED
    BY <1>2, <2>1
<1> QED
  BY <1>2, <1>3

LEMMA LastNotTop ==
  ASSUME NEW b \in Block, NEW k \in Index, b[k] # Top
  PROVE  \E m \in Index : b[m] # Top /\ \A j \in Index : j > m => b[j] = Top
<1> DEFINE D == {d \in 0 .. BLOCKLEN - 1 : b[BLOCKLEN - 1 - d] # Top}
<1>1. D \in SUBSET Nat /\ D # {}
  <2>1. BLOCKLEN - 1 - k \in 0 .. BLOCKLEN - 1 /\ BLOCKLEN - 1 - (BLOCKLEN - 1 - k) = k
    BY SizeAssumption DEF Index
  <2> QED
    BY <2>1
<1>2. PICK d \in D : \A y \in D : d <= y
  BY <1>1, LeastElement
<1> DEFINE m == BLOCKLEN - 1 - d
<1>3. m \in Index /\ b[m] # Top
  BY <1>2, SizeAssumption DEF Index
<1>4. ASSUME NEW j \in Index, j > m
      PROVE  b[j] = Top
  <2>1. BLOCKLEN - 1 - j \in 0 .. BLOCKLEN - 1 /\ ~ (d <= BLOCKLEN - 1 - j)
        /\ BLOCKLEN - 1 - (BLOCKLEN - 1 - j) = j
    BY <1>2, <1>4, SizeAssumption DEF Index
  <2> QED
    BY <1>2, <2>1
<1> QED
  BY <1>3, <1>4

LEMMA BeforeIrreflexive ==
  ASSUME NEW a \in Block
  PROVE  ~Before(a, a)
<1>1. \A m \in Index : a[m] \in Int
  BY SizeAssumption DEF Block, Byte
<1> QED
  BY <1>1 DEF Before

LEMMA BeforeTotal ==
  ASSUME NEW a \in Block, NEW b \in Block
  PROVE  a = b \/ Before(a, b) \/ Before(b, a)
<1> SUFFICES ASSUME a # b PROVE Before(a, b) \/ Before(b, a)
  OBVIOUS
<1>1. PICK m \in Index : a[m] # b[m] /\ \A j \in 0 .. m - 1 : a[j] = b[j]
  BY FirstDifference
<1>2. a[m] \in Int /\ b[m] \in Int
  BY SizeAssumption DEF Block, Byte
<1>3. a[m] < b[m] \/ b[m] < a[m]
  BY <1>1, <1>2
<1> QED
  BY <1>1, <1>3 DEF Before

LEMMA BeforeTransitive ==
  ASSUME NEW a \in Block, NEW b \in Block, NEW c \in Block, Before(a, b), Before(b, c)
  PROVE  Before(a, c)
<1>1. PICK l \in Index : a[l] < b[l] /\ \A j \in 0 .. l - 1 : a[j] = b[j]
  BY DEF Before
<1>2. PICK m \in Index : b[m] < c[m] /\ \A j \in 0 .. m - 1 : b[j] = c[j]
  BY DEF Before
<1>3. \A j \in Index : a[j] \in Int /\ b[j] \in Int /\ c[j] \in Int
  BY SizeAssumption DEF Block, Byte
<1>4. l \in Nat /\ m \in Nat
  BY SizeAssumption DEF Index
<1>5. CASE l < m
  <2>1. l \in 0 .. m - 1 /\ \A j \in 0 .. l - 1 : j \in 0 .. m - 1
    BY <1>4, <1>5
  <2>2. a[l] < c[l] /\ \A j \in 0 .. l - 1 : a[j] = c[j]
    BY <1>1, <1>2, <2>1
  <2> QED
    BY <2>2 DEF Before
<1>6. CASE l = m
  <2>1. a[m] < c[m]
    BY <1>1, <1>2, <1>3, <1>6
  <2>2. \A j \in 0 .. m - 1 : a[j] = c[j]
    BY <1>1, <1>2, <1>6
  <2> QED
    BY <2>1, <2>2 DEF Before
<1>7. CASE l > m
  <2>1. m \in 0 .. l - 1 /\ \A j \in 0 .. m - 1 : j \in 0 .. l - 1
    BY <1>4, <1>7
  <2>2. a[m] < c[m] /\ \A j \in 0 .. m - 1 : a[j] = c[j]
    BY <1>1, <1>2, <2>1
  <2> QED
    BY <2>2 DEF Before
<1> QED
  BY <1>4, <1>5, <1>6, <1>7

(* All bytes full: the last block of the order. *)
Full(b) == \A j \in Index : b[j] = Top

(* The successor of a block that is not full keeps the bytes before the     *)
(* last that is not full, adds one to that and clears the rest.            *)
LEMMA IncrementCarries ==
  ASSUME NEW b \in Block, ~Full(b)
  PROVE  \E m \in Index :
            /\ b[m] # Top /\ Increment(b)[m] = b[m] + 1
            /\ \A j \in 0 .. m - 1 : Increment(b)[j] = b[j]
            /\ \A j \in Index : j > m => b[j] = Top /\ Increment(b)[j] = 0
<1>1. PICK m \in Index : b[m] # Top /\ \A j \in Index : j > m => b[j] = Top
  BY LastNotTop DEF Full
<1>2. \A j \in Index : Increment(b)[j] = (IF \E l \in Index : l > j /\ b[l] # Top THEN b[j]
                                          ELSE IF b[j] = Top THEN 0 ELSE b[j] + 1)
  BY DEF Increment
<1>3. \A j \in Index : j \in Int
  BY SizeAssumption DEF Index
<1>4. Increment(b)[m] = b[m] + 1
  BY <1>1, <1>2, <1>3
<1>5. ASSUME NEW j \in 0 .. m - 1
      PROVE  Increment(b)[j] = b[j]
  <2>1. j \in Index /\ m > j
    BY SizeAssumption DEF Index
  <2> QED
    BY <1>1, <1>2, <2>1
<1>6. ASSUME NEW j \in Index, j > m
      PROVE  b[j] = Top /\ Increment(b)[j] = 0
  <2>1. ~ \E l \in Index : l > j /\ b[l] # Top
    BY <1>1, <1>3, <1>6
  <2> QED
    BY <1>1, <1>2, <1>6, <2>1
<1> QED
  BY <1>1, <1>4, <1>5, <1>6

(* The counter steps to the next block of the order ...                     *)
LEMMA IncrementIsNext ==
  ASSUME NEW b \in Block, ~Full(b), NEW c \in Block
  PROVE  Before(c, Increment(b)) <=> Before(c, b) \/ c = b
<1>1. PICK m \in Index :
         /\ b[m] # Top /\ Increment(b)[m] = b[m] + 1
         /\ \A j \in 0 .. m - 1 : Increment(b)[j] = b[j]
         /\ \A j \in Index : j > m => b[j] = Top /\ Increment(b)[j] = 0
  BY IncrementCarries
<1>2. /\ Increment(b) \in Block
      /\ \A j \in Index : b[j] \in Int /\ c[j] \in Int /\ 0 <= c[j] /\ c[j] <= Top
  BY IncrementTypes, SizeAssumption DEF Block, Byte
<1>3. m \in Nat /\ \A j \in Index : j \in Nat
  BY SizeAssumption DEF Index
<1>4. Before(b, Increment(b))
  <2>1. b[m] < Increment(b)[m]
    BY <1>1, <1>2
  <2> QED
    BY <1>1, <2>1 DEF Before
<1>5. ASSUME Before(b, c), Before(c, Increment(b))
      PROVE  FALSE
  <2>1. PICK d \in Index : b[d] < c[d] /\ \A j \in 0 .. d - 1 : b[j] = c[j]
    BY <1>5 DEF Before
  <2>2. PICK e \in Index : c[e] < Increment(b)[e] /\ \A j \in 0 .. e - 1 : c[j] = Increment(b)[j]
    BY <1>5 DEF Before
  <2>3. d <= m
    <3>1. d > m => b[d] = Top
      BY <1>1
    <3> QED
      BY <1>2, <1>3, <2>1, <3>1, SizeAssumption
  <2>4. e <= m
    <3>1. e > m => Increment(b)[e] = 0
      BY <1>1
    <3> QED
      BY <1>2, <1>3, <2>2, <3>1
  <2>5. e < d => FALSE
    <3> SUFFICES ASSUME e < d PROVE FALSE
      OBVIOUS
    <3>1. e \in 0 .. d - 1 /\ e \in 0 .. m - 1
      BY <1>3, <2>3
    <3>2. c[e] = b[e] /\ Increment(b)[e] = b[e]
      BY <1>1, <2>1, <3>1
    <3> QED
      BY <1>2, <2>2, <3>2
  <2>6. d < e => FALSE
    <3> SUFFICES ASSUME d < e PROVE FALSE
      OBVIOUS
    <3>1. d \in 0 .. e - 1 /\ d \in 0 .. m - 1
      BY <1>3, <2>4
    <3>2. c[d] = Increment(b)[d] /\ Increment(b)[d] = b[d]
      BY <1>1, <2>2, <3>1
    <3> QED
      BY <1>2, <2>1, <3>2
  <2>7. d = e
    BY <1>3, <2>5, <2>6
  <2>8. CASE e = m
    BY <1>1, <1>2, <2>1, <2>2, <2>7, <2>8
  <2>9. CASE e # m
    <3>1. e \in 0 .. m - 1
      BY <1>3, <2>4, <2>9
    <3>2. Increment(b)[e] = b[e]
      BY <1>1, <3>1
    <3> QED
      BY <1>2, <2>1, <2>2, <2>7, <3>2
  <2> QED
    BY <2>8, <2>9
<1>6. Before(c, b) \/ c = b => Before(c, Increment(b))
  BY <1>2, <1>4, BeforeTransitive
<1>7. Before(c, b) \/ c = b \/ Before(b, c)
  BY BeforeTotal
<1> QED
  BY <1>5, <1>6, <1>7

(* ... and from the last one to the first.                                  *)
LEMMA FullIsLast ==
  ASSUME NEW b \in Block, Full(b), NEW c \in Block
  PROVE  /\ Before(c, b) <=> c # b
         /\ ~Before(c, Increment(b))
<1>1. \A j \in Index : c[j] \in Int /\ 0 <= c[j] /\ c[j] <= Top /\ b[j] = Top /\ j \in Int
  BY SizeAssumption DEF Block, Byte, Full, Index
<1>2. \A j \in Index : Increment(b)[j] = 0
  BY <1>1 DEF Increment
<1>3. ~Before(b, c)
  BY <1>1, SizeAssumption DEF Before
<1>4. ~Before(c, Increment(b))
  BY <1>1, <1>2 DEF Before
<1> QED
  BY <1>3, <1>4, BeforeTotal, BeforeIrreflexive

LEMMA BlocksAreFinite == IsFiniteSet(Block) /\ Cardinality(Block) \in Nat
<1>1. IsFiniteSet(Index) /\ IsFiniteSet(Byte)
  <2>1. 0 \in Int /\ BLOCKLEN - 1 \in Int /\ Top \in Int
    BY SizeAssumption
  <2> QED
    BY <2>1, FS_Interval DEF Index, Byte
<1>2. IsFiniteSet(SUBSET (Index \X Byte))
  BY <1>1, FS_Product, FS_SUBSET
<1> DEFINE Graph == [b \in Block |-> {<<j, b[j]>> : j \in Index}]
<1>3. Graph \in Injection(Block, SUBSET (Index \X Byte))
  <2>1. Graph \in [Block -> SUBSET (Index \X Byte)]
    BY DEF Block
  <2>2. ASSUME NEW a \in Block, NEW b \in Block, Graph[a] = Graph[b]
        PROVE  a = b
    <3>1. ASSUME NEW j \in Index
          PROVE  a[j] = b[j]
      <4>1. <<j, a[j]>> \in Graph[b]
        BY <2>2
      <4>2. PICK l \in Index : <<j, a[j]>> = <<l, b[l]>>
        BY <4>1
      <4> QED
        BY <4>2
    <3> QED
      BY <3>1 DEF Block
  <2> HIDE DEF Graph
  <2> QED
    BY <2>1, <2>2, Zenon DEF Injection, IsInjective
<1> HIDE DEF Graph
<1>4. IsFiniteSet(Block)
  BY <1>2, <1>3, FS_Injection
<1> QED
  BY <1>4, FS_CardinalityType
-----------------------------------------------------------------------------
(* The counters of a message run from its initial vector up, so those used  *)
(* are the blocks from iv0 to the next one, v; past the last block the      *)
(* counter starts again at zero, and then all but those from v to iv0 are.  *)
Taken == {used[k] : k \in 1 .. Len(used)}

Unwrapped(v) ==
    /\ ~Before(v, iv0)
    /\ \A b \in Block : b \in Taken <=> ~Before(b, iv0) /\ Before(b, v)

Wrapped(v) ==
    /\ ~Before(iv0, v)
    /\ \A b \in Block : b \in Taken <=> ~Before(b, iv0) \/ Before(b, v)

EnoughCounters == Len(used) <= Cardinality(Block)

FreshInv ==
    /\ mode = "CBC" => used = <<>>
    /\ mode = "CTR" /\ EnoughCounters =>
           KeystreamFresh /\ (Unwrapped(Iv["sender"]) \/ Wrapped(Iv["sender"]))

(* Fewer counters than there are blocks are not all of them. *)
LEMMA SomeBlockLeft ==
  ASSUME NEW s \in Seq(Block), Len(s) + 1 <= Cardinality(Block)
  PROVE  \E b \in Block : \A k \in 1 .. Len(s) : s[k] # b
<1> SUFFICES ASSUME \A b \in Block : \E k \in 1 .. Len(s) : s[k] = b
             PROVE  FALSE
  OBVIOUS
<1>1. s \in [1 .. Len(s) -> Block] /\ Len(s) \in Nat
  OBVIOUS
<1>2. s \in Surjection(1 .. Len(s), Block)
  BY <1>1, Zenon DEF Surjection
<1>3. ExistsSurjection(1 .. Len(s), Block)
  BY <1>2, Zenon DEF ExistsSurjection
<1>4. Cardinality(Block) <= Len(s)
  BY <1>1, <1>3, FS_SurjCardinalityBound
<1> QED
  BY <1>1, <1>4, BlocksAreFinite

LEMMA InitFresh == Init => FreshInv
<1> SUFFICES ASSUME Init PROVE FreshInv
  OBVIOUS
<1>1. PICK iv \in IVs : Iv = [e \in Ends |-> iv] /\ iv0 = iv
  BY DEF Init
<1>2. used = <<>> /\ Iv["sender"] = iv0 /\ iv0 \in Block
  BY <1>1, MessageAssumption DEF Init, Ends
<1>3. Taken = {} /\ KeystreamFresh
  BY <1>2 DEF Taken, KeystreamFresh
<1>4. Unwrapped(iv0)
  BY <1>2, <1>3, BeforeIrreflexive DEF Unwrapped
<1> QED
  BY <1>2, <1>3, <1>4 DEF FreshInv

LEMMA SetIvFresh == SetIv => FreshInv'
<1> SUFFICES ASSUME SetIv PROVE FreshInv'
  OBVIOUS
<1>1. PICK m \in {"CBC", "CTR"}, iv \in IVs : NewMessage(m, iv)
  BY DEF SetIv
<1>2. used' = <<>> /\ Iv'["sender"] = iv /\ iv0' = iv /\ iv \in Block
  BY <1>1, MessageAssumption DEF NewMessage, Ends
<1>3. Taken' = {} /\ KeystreamFresh'
  BY <1>2 DEF Taken, KeystreamFresh
<1>4. Unwrapped(Iv["sender"])'
  BY <1>2, <1>3, BeforeIrreflexive DEF Unwrapped
<1> QED
  BY <1>2, <1>3, <1>4 DEF FreshInv

LEMMA CtrEncryptFresh == IInv /\ FreshInv /\ CtrEncrypt => FreshInv'
<1> SUFFICES ASSUME IInv, FreshInv, CtrEncrypt, EnoughCounters'
             PROVE  KeystreamFresh' /\ (Unwrapped(Iv["sender"])' \/ Wrapped(Iv["sender"])')
  BY DEF FreshInv, CtrEncrypt
<1>0. PICK v : v = Iv["sender"]
  OBVIOUS
<1> DEFINE w == Increment(v)
           n == Len(used)
<1>1. /\ mode = "CTR" /\ used' = Append(used, v) /\ iv0' = iv0
      /\ v \in Block /\ iv0 \in Block /\ used \in Seq(Block) /\ n \in Nat
      /\ Iv' = [Iv EXCEPT !["sender"] = w] /\ Iv \in [Ends -> Block]
  BY <1>0 DEF CtrEncrypt, IInv, TypeOK, Ends
<1>2. Iv'["sender"] = w
  BY <1>1 DEF Ends
<1> HIDE DEF w
<1>3. /\ used' \in Seq(Block) /\ Len(used') = n + 1 /\ used'[n + 1] = v
      /\ \A k \in 1 .. n : used'[k] = used[k] /\ used[k] \in Block
  BY <1>1, AppendPiece, ElementOfSeqAt
<1>4. n + 1 <= Cardinality(Block) /\ n <= Cardinality(Block)
  BY <1>1, <1>3, BlocksAreFinite DEF EnoughCounters
<1>5. KeystreamFresh /\ (Unwrapped(v) \/ Wrapped(v))
  BY <1>0, <1>1, <1>4 DEF FreshInv, EnoughCounters
<1>6. \A b : b \in Taken' <=> b \in Taken \/ b = v
  <2> TAKE b
  <2>1. b \in Taken' <=> \E k \in 1 .. n + 1 : b = used'[k]
    BY <1>3 DEF Taken
  <2>2. b \in Taken <=> \E k \in 1 .. n : b = used[k]
    BY DEF Taken
  <2>3. \A k \in 1 .. n + 1 : k \in 1 .. n \/ k = n + 1
    BY <1>1
  <2>4. \A k \in 1 .. n : k \in 1 .. n + 1
    BY <1>1
  <2>5. n + 1 \in 1 .. n + 1
    BY <1>1
  <2> HIDE DEF n
  <2> QED
    BY <2>1, <2>2, <2>3, <2>4, <2>5, <1>3, Zenon
<1>7. PICK b0 \in Block : b0 \notin Taken
  BY <1>1, <1>4, SomeBlockLeft DEF Taken
<1>8. v \notin Taken
  BY <1>1, <1>5, <1>7, BeforeTotal, BeforeIrreflexive DEF Unwrapped, Wrapped
<1>9. KeystreamFresh'
  <2> SUFFICES ASSUME NEW j \in 1 .. n + 1, NEW k \in 1 .. n + 1, used'[j] = used'[k]
               PROVE  j = k
    BY <1>3 DEF KeystreamFresh
  <2>1. \A i \in 1 .. n : used'[i] # v
    BY <1>3, <1>8 DEF Taken
  <2>2. CASE j \in 1 .. n /\ k \in 1 .. n
    BY <2>2, <1>3, <1>5 DEF KeystreamFresh
  <2>3. CASE j = n + 1 \/ k = n + 1
    BY <2>1, <2>3, <1>1, <1>3
  <2> QED
    BY <2>2, <2>3, <1>1
<1>10. w \in Block
  BY <1>1, IncrementTypes DEF w
<1>13. /\ Unwrapped(Iv["sender"])' <=> Unwrapped(w)'
       /\ Wrapped(Iv["sender"])' <=> Wrapped(w)'
  BY <1>2 DEF Unwrapped, Wrapped
<1>11. CASE ~Full(v)
  <2>1. \A c \in Block : Before(c, w) <=> Before(c, v) \/ c = v
    BY <1>1, <1>11, IncrementIsNext DEF w
  <2>2. ASSUME Unwrapped(v) PROVE Unwrapped(w)'
    <3>1. ~Before(v, iv0) /\ \A b \in Block : b \in Taken <=> ~Before(b, iv0) /\ Before(b, v)
      BY <2>2 DEF Unwrapped
    <3>2. Before(iv0, w)
      BY <1>1, <2>1, <3>1, BeforeTotal
    <3>3. ~Before(w, iv0)
      BY <1>1, <1>10, <3>2, BeforeTransitive, BeforeIrreflexive
    <3>4. \A b \in Block : b \in Taken' <=> ~Before(b, iv0) /\ Before(b, w)
      BY <1>6, <2>1, <3>1
    <3> QED
      BY <1>1, <3>3, <3>4 DEF Unwrapped
  <2>3. Wrapped(v) => Wrapped(w)'
    BY <1>1, <1>6, <1>8, <1>10, <2>1 DEF Wrapped
  <2> QED
    BY <1>5, <1>9, <1>13, <2>2, <2>3
<1>12. CASE Full(v)
  <2>1. \A c \in Block : (Before(c, v) <=> c # v) /\ ~Before(c, w)
    BY <1>1, <1>12, FullIsLast DEF w
  <2>2. Unwrapped(v) => Wrapped(w)'
    BY <1>1, <1>6, <1>10, <2>1 DEF Unwrapped, Wrapped
  <2>3. ~Wrapped(v)
    BY <1>1, <1>8, <2>1 DEF Wrapped
  <2> QED
    BY <1>5, <1>9, <1>13, <2>2, <2>3
<1> QED
  BY <1>11, <1>12

(* The other steps use no counter: the sender's context, in CTR mode, stays. *)
LEMMA OthersFresh ==
  ASSUME UNCHANGED <<mode, used, iv0>>, mode \in {"CBC", "CTR"},
         mode = "CTR" => Iv'["sender"] = Iv["sender"], FreshInv
  PROVE  FreshInv'
<1>1. Taken' = Taken /\ KeystreamFresh' = KeystreamFresh /\ EnoughCounters' = EnoughCounters
  BY DEF Taken, KeystreamFresh, EnoughCounters
<1>2. CASE mode = "CBC"
  BY <1>2 DEF FreshInv
<1>3. CASE mode = "CTR" /\ EnoughCounters
  <2>1. PICK v : v = Iv["sender"] /\ v = Iv'["sender"]
    BY <1>3
  <2>2. (Unwrapped(v) => Unwrapped(v)') /\ (Wrapped(v) => Wrapped(v)')
    BY <1>1 DEF Unwrapped, Wrapped
  <2>3. KeystreamFresh' /\ (Unwrapped(v)' \/ Wrapped(v)')
    BY <1>1, <1>3, <2>1, <2>2 DEF FreshInv
  <2>4. (Unwrapped(Iv["sender"])' <=> Unwrapped(v)') /\ (Wrapped(Iv["sender"])' <=> Wrapped(v)')
    BY <2>1 DEF Unwrapped, Wrapped
  <2> QED
    BY <1>3, <2>3, <2>4 DEF FreshInv
<1>4. CASE mode = "CTR" /\ ~EnoughCounters
  BY <1>1, <1>4 DEF FreshInv
<1> QED
  BY <1>1, <1>2, <1>3, <1>4 DEF FreshInv

LEMMA StepFresh == IInv /\ FreshInv /\ [Next]_vars => FreshInv'
<1> SUFFICES ASSUME IInv, FreshInv, [Next]_vars PROVE FreshInv'
  OBVIOUS
<1>0. mode \in {"CBC", "CTR"}
  BY DEF IInv, TypeOK
<1>1. CASE SetIv
  BY <1>1, SetIvFresh
<1>2. CASE CtrEncrypt
  BY <1>2, CtrEncryptFresh
<1>3. CASE \E c \in 0 .. MaxPieces, n \in 1 .. BLOCKLEN : SendCall(c, n)
  BY <1>3, <1>0, OthersFresh DEF SendCall
<1>4. CASE \E c \in 0 .. MaxPieces : ReceiveCall(c)
  BY <1>4, <1>0, OthersFresh DEF ReceiveCall
<1>5. CASE CbcEncrypt \/ CbcEncryptEnd \/ CbcDecrypt
  <2>1. mode = "CBC" /\ UNCHANGED <<mode, used, iv0>>
    BY <1>5 DEF CbcEncrypt, CbcEncryptEnd, CbcDecrypt
  <2> QED
    BY <2>1, <1>0, OthersFresh
<1>6. CASE CtrDecrypt
  <2>1. Iv'["sender"] = Iv["sender"] /\ UNCHANGED <<mode, used, iv0>>
    BY <1>6 DEF CtrDecrypt, IInv, TypeOK, Ends
  <2> QED
    BY <2>1, <1>0, OthersFresh
<1>7. CASE CallEnd
  BY <1>7, <1>0, OthersFresh DEF CallEnd
<1>8. CASE UNCHANGED vars
  BY <1>8, <1>0, OthersFresh DEF vars
<1> QED
  BY <1>1, <1>2, <1>3, <1>4, <1>5, <1>6, <1>7, <1>8 DEF Next

LEMMA FreshInvariance == Spec => []FreshInv
<1>1. Init => FreshInv
  BY InitFresh
<1>2. IInv /\ FreshInv /\ [Next]_vars => FreshInv'
  BY StepFresh
<1> QED
  BY <1>1, <1>2, Invariance, PTL DEF Spec

(* "no IV should ever be reused with the same key" (aes.h:84): the counter  *)
(* of AES_CTR_xcrypt_buffer comes back to a block it had only when every   *)
(* block has had its turn, wherever it starts and however often it wraps.  *)
THEOREM CountersAreNotReused == Spec => [](EnoughCounters => KeystreamFresh)
<1>1. IInv /\ FreshInv => (EnoughCounters => KeystreamFresh)
  BY DEF IInv, TypeOK, FreshInv, KeystreamFresh
<1> QED
  BY <1>1, FreshInvariance, Invariance, PTL

(* No message has more pieces than its bound. *)
LEMMA MessageBounded == Spec => [](Len(sent) <= MaxPieces)
<1> DEFINE B == Len(sent) <= MaxPieces
<1>1. Init => B
  BY MessageAssumption DEF Init
<1>2. TypeOK /\ B /\ [Next]_vars => B'
  <2> SUFFICES ASSUME TypeOK, B, [Next]_vars PROVE B'
    OBVIOUS
  <2>1. CASE SetIv
    BY <2>1, MessageAssumption DEF SetIv, NewMessage
  <2>2. ASSUME NEW c \in 0 .. MaxPieces, NEW n \in 1 .. BLOCKLEN, SendCall(c, n)
        PROVE  B'
    <3>1. PICK text \in [1 .. c -> Texts] : sent' = sent \o text
      BY <2>2 DEF SendCall
    <3>2. text \in Seq(Block) /\ Len(text) = c
      BY MessageAssumption
    <3>3. Len(sent') = Len(sent) + c
      BY <3>1, <3>2, AppendText DEF TypeOK
    <3> QED
      BY <2>2, <3>3 DEF SendCall
  <2>3. CASE UNCHANGED sent
    BY <2>3
  <2> QED
    BY <2>1, <2>2, <2>3 DEF Next, ReceiveCall, CbcEncrypt, CbcEncryptEnd, CbcDecrypt,
       CtrEncrypt, CtrDecrypt, CallEnd, message, vars
<1> QED
  BY <1>1, <1>2, TypeCorrect, PTL DEF Spec

(* So a message that is no longer than the counters there are is enciphered *)
(* with a fresh one for each piece.                                        *)
THEOREM CountersSuffice ==
  ASSUME MaxPieces <= Cardinality(Block)
  PROVE  Spec => []KeystreamFresh
<1>1. IInv /\ Len(sent) <= MaxPieces => (mode = "CTR" => EnoughCounters)
  BY MessageAssumption, BlocksAreFinite DEF IInv, TypeOK, CtrCounters, EnoughCounters
<1>2. IInv /\ FreshInv /\ Len(sent) <= MaxPieces => KeystreamFresh
  BY <1>1 DEF IInv, TypeOK, FreshInv, KeystreamFresh
<1> QED
  BY <1>2, FreshInvariance, Invariance, MessageBounded, PTL
=============================================================================
