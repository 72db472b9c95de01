--------------------------- MODULE JtagUartProofs ---------------------------
(***************************************************************************)
(* Proofs about JtagUart for every buffer length, FIFO depth and timeout:  *)
(* the ranges of all variables, the invariants that say that no interrupt  *)
(* enable is ever lost, and that either direction of the driver implements *)
(* ByteChannel.                                                            *)
(***************************************************************************)
EXTENDS JtagUart, TLAPS, SequenceTheorems

(* A remainder is below its divisor, and small numbers are their own. *)
LEMMA ModRange ==
    ASSUME NEW a \in Nat
    PROVE  a % BUF_LEN \in Slots
  BY DriverAssumption DEF Slots

LEMMA ModSmall ==
    ASSUME NEW a \in Slots
    PROVE  a % BUF_LEN = a
  BY DriverAssumption DEF Slots

LEMMA ModSelf == BUF_LEN % BUF_LEN = 0
  BY DriverAssumption

(* The successor on a ring of two slots or more is a different slot. *)
LEMMA IncSlot ==
    ASSUME NEW k \in Slots
    PROVE  Inc(k) \in Slots /\ Inc(k) # k
<1>1. CASE k + 1 < BUF_LEN
  BY <1>1, ModSmall, DriverAssumption DEF Slots, Inc
<1>2. CASE k + 1 = BUF_LEN
  BY <1>2, ModSelf, DriverAssumption DEF Slots, Inc
<1> QED BY <1>1, <1>2, DriverAssumption DEF Slots

LEMMA HeadOfBytes ==
    ASSUME NEW s \in Seq(Nat), s # <<>>
    PROVE  Head(s) \in Nat
  OBVIOUS

LEMMA ComparisonIsBoolean ==
    ASSUME NEW x, NEW y, y = (x > 1)
    PROVE  y \in BOOLEAN
  BY SMT

(* The room write copies into and the bytes read copies out end inside the  *)
(* buffer.                                                                  *)
LEMMA WriteRoomFits ==
    ASSUME NEW a \in Slots, NEW b \in Slots
    PROVE  WriteRoom(a, b) \in Nat /\ a + WriteRoom(a, b) <= BUF_LEN
  BY DriverAssumption DEF WriteRoom, Slots

LEMMA ReadAvailFits ==
    ASSUME NEW a \in Slots, NEW b \in Slots
    PROVE  ReadAvail(a, b) \in Nat /\ b + ReadAvail(a, b) <= BUF_LEN
  BY DriverAssumption DEF ReadAvail, Slots

LEMMA AtMostIsLess ==
    ASSUME NEW a \in Nat, NEW b \in Nat
    PROVE  /\ AtMost(a, b) \in Nat /\ AtMost(a, b) <= a /\ AtMost(a, b) <= b
           /\ a # 0 /\ b # 0 => AtMost(a, b) > 0
  BY DEF AtMost

(* What the three armed/in-sync invariants and the ranges rest on: where    *)
(* the foreground is, its copy stays inside the buffer and never moves more *)
(* than was asked for; before the driver is installed nothing is pending;   *)
(* and the interrupt routine gives up with bytes left only on a full ring.  *)
Aux ==
    /\ fpc = "init" => ipc = "off" /\ tx_in = tx_out
    /\ fpc = "wCopy" => in + n <= BUF_LEN /\ n <= count
    /\ fpc = "rCopy" => out + n <= BUF_LEN /\ n <= count /\ n > 0
    /\ fpc = "rLoad" => count > 0
    /\ ipc = "rxEnd" /\ ravail => Inc(rx_in) = rx_out

IInv == TypeOK /\ ShadowInSync /\ TxArmed /\ RxArmed /\ Aux

LEMMA InitIInv == Init => IInv
<1> SUFFICES ASSUME Init PROVE IInv
  OBVIOUS
<1> USE DriverAssumption, FifoAssumption DEF Init, CoreInit
<1>1. FlagsTypeOK
  BY Zenon DEF FlagsTypeOK
<1>2. StreamTypeOK
  BY DEF StreamTypeOK
<1>3. RingTypeOK
  BY DEF RingTypeOK, Slots
<1>4. ForegroundTypeOK
  BY DEF ForegroundTypeOK, Slots
<1>5. IsrTypeOK
  <2>1. timeout \in 1 .. INT_MAX /\ space \in 0 .. FifoDepth
        /\ host_inactive \in 0 .. INT_MAX - 2
    BY SMT
  <2>2. alarm \in BOOLEAN /\ ipc \in {"off", "top", "rx", "rxEnd", "tx"}
    BY Zenon
  <2> QED BY <2>1, <2>2 DEF IsrTypeOK
<1>6. ShadowInSync /\ TxArmed /\ RxArmed /\ Aux
  BY DEF ShadowInSync, TxArmed, RxArmed, Aux
<1> QED
  BY <1>1, <1>2, <1>3, <1>4, <1>5, <1>6 DEF IInv, TypeOK

LEMMA StepIInv == IInv /\ [Next]_vars => IInv'
<1> SUFFICES ASSUME IInv, [Next]_vars PROVE IInv'
  OBVIOUS
<1> USE DriverAssumption, FifoAssumption
    DEF IInv, TypeOK, FlagsTypeOK, StreamTypeOK, RingTypeOK, ForegroundTypeOK,
        IsrTypeOK, ShadowInSync, TxArmed, RxArmed, Aux, Slots, coreVars,
        hostVars, tx, rx, irq, host, fgVars, isrVars
<1>1. CASE DriverInit
  <2> USE DEF DriverInit, WriteControl
  <2>1. FlagsTypeOK'
    BY <1>1
  <2>2. StreamTypeOK'
    BY <1>1
  <2>3. RingTypeOK'
    BY <1>1
  <2>4. ForegroundTypeOK'
    BY <1>1
  <2>5. IsrTypeOK'
    <3>1. timeout' \in 1 .. INT_MAX /\ host_inactive' \in 0 .. INT_MAX - 2
      <4>1. timeout' = timeout \/ timeout' = INT_MAX
        BY <1>1
      <4>2. INT_MAX \in Nat /\ INT_MAX > 1 /\ timeout \in 1 .. INT_MAX
        BY SMT
      <4>3. host_inactive' = 0
        BY <1>1
      <4> HIDE DEF IInv, DriverInit
      <4> QED BY <4>1, <4>2, <4>3
    <3>2. ipc' = ipc /\ space' = space /\ alarm' \in BOOLEAN
      BY <1>1, Zenon
    <3> QED BY <3>1, <3>2
  <2>6. ShadowInSync'
    BY <1>1
  <2>7. TxArmed'
    BY <1>1
  <2>8. RxArmed'
    BY <1>1
  <2>9. Aux'
    BY <1>1
  <2> QED BY <2>1, <2>2, <2>3, <2>4, <2>5, <2>6, <2>7, <2>8, <2>9 DEF TypeOK
<1>2. CASE WriteCall
  BY <1>2 DEF WriteCall, Foreground, GoTo
<1>3. CASE ReadCall
  BY <1>3 DEF ReadCall, Foreground, GoTo
<1>4. CASE CloseCall
  BY <1>4 DEF CloseCall, Foreground, GoTo
<1>5. CASE WriteLoad
  <2> USE DEF WriteLoad, Foreground, GoTo
  <2>0. /\ AtMost(WriteRoom(tx_in, tx_out), count) \in Nat
       /\ AtMost(WriteRoom(tx_in, tx_out), count) <= BUF_LEN
       /\ AtMost(WriteRoom(tx_in, tx_out), count) <= count
       /\ tx_in + AtMost(WriteRoom(tx_in, tx_out), count) <= BUF_LEN
    <3>1. /\ WriteRoom(tx_in, tx_out) \in Nat
          /\ tx_in + WriteRoom(tx_in, tx_out) <= BUF_LEN
      BY WriteRoomFits
    <3>2. /\ AtMost(WriteRoom(tx_in, tx_out), count) \in Nat
          /\ AtMost(WriteRoom(tx_in, tx_out), count) <= WriteRoom(tx_in, tx_out)
          /\ AtMost(WriteRoom(tx_in, tx_out), count) <= count
      BY <3>1, AtMostIsLess
    <3>3. tx_in \in Nat /\ BUF_LEN \in Nat
      OBVIOUS
    <3> HIDE DEF IInv
    <3> QED BY <3>1, <3>2, <3>3
  <2>1. FlagsTypeOK'
    BY <1>5
  <2>2. StreamTypeOK'
    BY <1>5
  <2>3. RingTypeOK'
    BY <1>5
  <2>4. ForegroundTypeOK'
    <3>1. CASE count = 0
      BY <1>5, <3>1
    <3>2. CASE count # 0
      BY <1>5, <3>2, <2>0
    <3> QED BY <3>1, <3>2
  <2>5. IsrTypeOK'
    BY <1>5
  <2>6. ShadowInSync'
    BY <1>5
  <2>7. TxArmed'
    BY <1>5
  <2>8. RxArmed'
    BY <1>5
  <2>9. Aux'
    BY <1>5, <2>0
  <2> QED BY <2>1, <2>2, <2>3, <2>4, <2>5, <2>6, <2>7, <2>8, <2>9 DEF TypeOK
<1>6. CASE WriteCopy
  <2> USE DEF WriteCopy, Foreground, GoTo
  <2>1. FlagsTypeOK'
    BY <1>6
  <2>2. StreamTypeOK'
    BY <1>6
  <2>3. RingTypeOK'
    <3>1. tx_buf' \in [Slots -> Nat]
      <4>1. /\ tx_buf' = [tx_buf EXCEPT ![in + i] = accepted + i + 1]
            /\ accepted + i + 1 \in Nat /\ tx_buf \in [Slots -> Nat]
        BY <1>6
      <4> HIDE DEF IInv
      <4> QED BY <4>1
    <3>2. UNCHANGED <<tx_in, tx_out, rx_buf, rx_in, rx_out>>
      BY <1>6
    <3> QED BY <3>1, <3>2
  <2>4. ForegroundTypeOK'
    BY <1>6
  <2>5. IsrTypeOK'
    BY <1>6
  <2>6. ShadowInSync'
    BY <1>6
  <2>7. TxArmed'
    BY <1>6
  <2>8. RxArmed'
    BY <1>6
  <2>9. Aux'
    BY <1>6
  <2> QED BY <2>1, <2>2, <2>3, <2>4, <2>5, <2>6, <2>7, <2>8, <2>9 DEF TypeOK
<1>7. CASE WritePublish
  <2> USE DEF WritePublish, Foreground, GoTo
  <2>1. FlagsTypeOK'
    BY <1>7, ModRange
  <2>2. StreamTypeOK'
    BY <1>7, ModRange
  <2>3. RingTypeOK'
    <3>0. in + n \in Nat
      OBVIOUS
    <3>1. (in + n) % BUF_LEN \in Slots
      BY <3>0, ModRange
    <3> QED BY <1>7, <3>1
  <2>4. ForegroundTypeOK'
    BY <1>7, ModRange
  <2>5. IsrTypeOK'
    BY <1>7, ModRange
  <2>6. ShadowInSync'
    BY <1>7, ModRange
  <2>7. TxArmed'
    BY <1>7, ModRange
  <2>8. RxArmed'
    BY <1>7, ModRange
  <2>9. Aux'
    BY <1>7, ModRange
  <2> QED BY <2>1, <2>2, <2>3, <2>4, <2>5, <2>6, <2>7, <2>8, <2>9 DEF TypeOK
<1>8. CASE WriteKick
  <2> USE DEF WriteKick, Foreground, GoTo, WriteControl
  <2>1. FlagsTypeOK'
    BY <1>8
  <2>2. StreamTypeOK'
    BY <1>8
  <2>3. RingTypeOK'
    BY <1>8
  <2>4. ForegroundTypeOK'
    BY <1>8
  <2>5. IsrTypeOK'
    BY <1>8
  <2>6. ShadowInSync'
    BY <1>8
  <2>7. TxArmed'
    BY <1>8
  <2>8. RxArmed'
    BY <1>8
  <2>9. Aux'
    BY <1>8
  <2> QED BY <2>1, <2>2, <2>3, <2>4, <2>5, <2>6, <2>7, <2>8, <2>9 DEF TypeOK
<1>9. CASE WriteSpin
  BY <1>9 DEF WriteSpin, Foreground, GoTo
<1>10. CASE WriteCheck
  BY <1>10 DEF WriteCheck, Foreground, GoTo
<1>11. CASE WriteReturn
  <2> USE DEF WriteReturn, Foreground, GoTo, Return
  <2>1. FlagsTypeOK'
    BY <1>11
  <2>2. StreamTypeOK'
    BY <1>11
  <2>3. RingTypeOK'
    BY <1>11
  <2>4. ForegroundTypeOK'
    BY <1>11
  <2>5. IsrTypeOK'
    BY <1>11
  <2>6. ShadowInSync'
    BY <1>11
  <2>7. TxArmed'
    BY <1>11
  <2>8. RxArmed'
    BY <1>11
  <2>9. Aux'
    BY <1>11
  <2> QED BY <2>1, <2>2, <2>3, <2>4, <2>5, <2>6, <2>7, <2>8, <2>9 DEF TypeOK
<1>12. CASE ReadWhile
  BY <1>12 DEF ReadWhile, Foreground, GoTo
<1>13. CASE ReadLoad
  BY <1>13 DEF ReadLoad, Foreground, GoTo, ReadAvail, AtMost
<1>14. CASE ReadCopy
  <2> USE DEF ReadCopy, Foreground
  <2>1. FlagsTypeOK'
    BY <1>14
  <2>2. StreamTypeOK'
    BY <1>14
  <2>3. RingTypeOK'
    BY <1>14
  <2>4. ForegroundTypeOK'
    BY <1>14
  <2>5. IsrTypeOK'
    BY <1>14
  <2>6. ShadowInSync'
    BY <1>14
  <2>7. TxArmed'
    BY <1>14
  <2>8. RxArmed'
    BY <1>14
  <2>9. Aux'
    BY <1>14
  <2> QED BY <2>1, <2>2, <2>3, <2>4, <2>5, <2>6, <2>7, <2>8, <2>9 DEF TypeOK
<1>15. CASE ReadPublish
  <2> USE DEF ReadPublish, Foreground, GoTo
  <2>1. FlagsTypeOK'
    BY <1>15, ModRange
  <2>2. StreamTypeOK'
    BY <1>15, ModRange
  <2>3. RingTypeOK'
    <3>0. out + n \in Nat
      OBVIOUS
    <3>1. (out + n) % BUF_LEN \in Slots
      BY <3>0, ModRange
    <3> QED BY <1>15, <3>1
  <2>4. ForegroundTypeOK'
    BY <1>15, ModRange
  <2>5. IsrTypeOK'
    BY <1>15, ModRange
  <2>6. ShadowInSync'
    BY <1>15, ModRange
  <2>7. TxArmed'
    BY <1>15, ModRange
  <2>8. RxArmed'
    BY <1>15, ModRange
  <2>9. Aux'
    BY <1>15, ModRange
  <2> QED BY <2>1, <2>2, <2>3, <2>4, <2>5, <2>6, <2>7, <2>8, <2>9 DEF TypeOK
<1>16. CASE ReadEmpty
  BY <1>16 DEF ReadEmpty, Foreground, GoTo
<1>17. CASE ReadSpin
  BY <1>17 DEF ReadSpin, Foreground, GoTo
<1>18. CASE ReadCheck
  BY <1>18 DEF ReadCheck, Foreground, GoTo
<1>19. CASE ReadRearm
  <2> USE DEF ReadRearm, Foreground, GoTo, WriteControl
  <2>1. FlagsTypeOK'
    BY <1>19
  <2>2. StreamTypeOK'
    BY <1>19
  <2>3. RingTypeOK'
    BY <1>19
  <2>4. ForegroundTypeOK'
    BY <1>19
  <2>5. IsrTypeOK'
    BY <1>19
  <2>6. ShadowInSync'
    BY <1>19
  <2>7. TxArmed'
    BY <1>19
  <2>8. RxArmed'
    BY <1>19
  <2>9. Aux'
    BY <1>19
  <2> QED BY <2>1, <2>2, <2>3, <2>4, <2>5, <2>6, <2>7, <2>8, <2>9 DEF TypeOK
<1>20. CASE ReadReturn
  <2> USE DEF ReadReturn, Foreground, GoTo, Return
  <2>1. FlagsTypeOK'
    BY <1>20
  <2>2. StreamTypeOK'
    BY <1>20
  <2>3. RingTypeOK'
    BY <1>20
  <2>4. ForegroundTypeOK'
    BY <1>20
  <2>5. IsrTypeOK'
    BY <1>20
  <2>6. ShadowInSync'
    BY <1>20
  <2>7. TxArmed'
    BY <1>20
  <2>8. RxArmed'
    BY <1>20
  <2>9. Aux'
    BY <1>20
  <2> QED BY <2>1, <2>2, <2>3, <2>4, <2>5, <2>6, <2>7, <2>8, <2>9 DEF TypeOK
<1>21. CASE CloseDrain
  <2> USE DEF CloseDrain, Foreground, GoTo, Return
  <2>1. FlagsTypeOK'
    BY <1>21
  <2>2. StreamTypeOK'
    BY <1>21
  <2>3. RingTypeOK'
    BY <1>21
  <2>4. ForegroundTypeOK'
    BY <1>21
  <2>5. IsrTypeOK'
    BY <1>21
  <2>6. ShadowInSync'
    BY <1>21
  <2>7. TxArmed'
    BY <1>21
  <2>8. RxArmed'
    BY <1>21
  <2>9. Aux'
    BY <1>21
  <2> QED BY <2>1, <2>2, <2>3, <2>4, <2>5, <2>6, <2>7, <2>8, <2>9 DEF TypeOK
<1>22. CASE IsrEnter
  BY <1>22 DEF IsrEnter
<1>23. CASE IsrTop
  <2> USE DEF IsrTop, WSpace, ipen_AE, ipen_AF
  <2>1. FlagsTypeOK'
    BY <1>23
  <2>2. StreamTypeOK'
    BY <1>23
  <2>3. RingTypeOK'
    BY <1>23
  <2>4. ForegroundTypeOK'
    BY <1>23
  <2>5. IsrTypeOK'
    BY <1>23
  <2>6. ShadowInSync'
    BY <1>23
  <2>7. TxArmed'
    BY <1>23
  <2>8. RxArmed'
    BY <1>23
  <2>9. Aux'
    BY <1>23
  <2> QED BY <2>1, <2>2, <2>3, <2>4, <2>5, <2>6, <2>7, <2>8, <2>9 DEF TypeOK
<1>24. CASE IsrRxFull
  <2> USE DEF IsrRxFull
  <2>1. FlagsTypeOK'
    BY <1>24
  <2>2. StreamTypeOK'
    BY <1>24
  <2>3. RingTypeOK'
    BY <1>24
  <2>4. ForegroundTypeOK'
    BY <1>24
  <2>5. IsrTypeOK'
    BY <1>24
  <2>6. ShadowInSync'
    BY <1>24
  <2>7. TxArmed'
    BY <1>24
  <2>8. RxArmed'
    BY <1>24
  <2>9. Aux'
    BY <1>24
  <2> QED BY <2>1, <2>2, <2>3, <2>4, <2>5, <2>6, <2>7, <2>8, <2>9 DEF TypeOK
<1>25. CASE IsrRxByte
  <2> USE DEF IsrRxByte, ReadData
  <2>1. FlagsTypeOK'
    <3>1. ravail' = (Len(rfifo) > 1)
      BY <1>25
    <3>2. ravail' \in BOOLEAN
      BY <3>1, ComparisonIsBoolean
    <3> QED BY <1>25, <3>2, Zenon
  <2>2. StreamTypeOK'
    BY <1>25, IncSlot
  <2>3. RingTypeOK'
    <3>1. Inc(rx_in) \in Slots
      BY IncSlot
    <3>2. Head(rfifo) \in Nat
      <4>1. rfifo \in Seq(Nat) /\ rfifo # <<>>
        BY <1>25
      <4> QED BY <4>1, HeadOfBytes
    <3> QED BY <1>25, <3>1, <3>2
  <2>4. ForegroundTypeOK'
    BY <1>25, IncSlot
  <2>5. IsrTypeOK'
    BY <1>25, IncSlot
  <2>6. ShadowInSync'
    BY <1>25, IncSlot
  <2>7. TxArmed'
    BY <1>25, IncSlot
  <2>8. RxArmed'
    BY <1>25, IncSlot
  <2>9. Aux'
    BY <1>25, IncSlot
  <2> QED BY <2>1, <2>2, <2>3, <2>4, <2>5, <2>6, <2>7, <2>8, <2>9 DEF TypeOK
<1>26. CASE IsrRxNone
  <2> USE DEF IsrRxNone, ReadData
  <2>1. FlagsTypeOK'
    BY <1>26
  <2>2. StreamTypeOK'
    BY <1>26
  <2>3. RingTypeOK'
    BY <1>26
  <2>4. ForegroundTypeOK'
    BY <1>26
  <2>5. IsrTypeOK'
    BY <1>26
  <2>6. ShadowInSync'
    BY <1>26
  <2>7. TxArmed'
    BY <1>26
  <2>8. RxArmed'
    BY <1>26
  <2>9. Aux'
    BY <1>26
  <2> QED BY <2>1, <2>2, <2>3, <2>4, <2>5, <2>6, <2>7, <2>8, <2>9 DEF TypeOK
<1>27. CASE IsrRxEnd
  <2> USE DEF IsrRxEnd, WriteControl
  <2>1. FlagsTypeOK'
    BY <1>27, IncSlot
  <2>2. StreamTypeOK'
    BY <1>27, IncSlot
  <2>3. RingTypeOK'
    BY <1>27, IncSlot
  <2>4. ForegroundTypeOK'
    BY <1>27, IncSlot
  <2>5. IsrTypeOK'
    BY <1>27, IncSlot
  <2>6. ShadowInSync'
    <3>1. CASE ravail
      BY <1>27, <3>1
    <3>2. CASE ~ravail
      BY <1>27, <3>2
    <3> QED BY <3>1, <3>2
  <2>7. TxArmed'
    BY <1>27, IncSlot
  <2>8. RxArmed'
    BY <1>27, IncSlot
  <2>9. Aux'
    BY <1>27, IncSlot
  <2> QED BY <2>1, <2>2, <2>3, <2>4, <2>5, <2>6, <2>7, <2>8, <2>9 DEF TypeOK
<1>28. CASE IsrTxByte
  <2> USE DEF IsrTxByte, WriteData
  <2>1. FlagsTypeOK'
    BY <1>28, IncSlot
  <2>2. StreamTypeOK'
    BY <1>28, IncSlot
  <2>3. RingTypeOK'
    BY <1>28, IncSlot
  <2>4. ForegroundTypeOK'
    BY <1>28, IncSlot
  <2>5. IsrTypeOK'
    BY <1>28, IncSlot
  <2>6. ShadowInSync'
    BY <1>28, IncSlot
  <2>7. TxArmed'
    BY <1>28, IncSlot
  <2>8. RxArmed'
    BY <1>28, IncSlot
  <2>9. Aux'
    BY <1>28, IncSlot
  <2> QED BY <2>1, <2>2, <2>3, <2>4, <2>5, <2>6, <2>7, <2>8, <2>9 DEF TypeOK
<1>29. CASE IsrTxEnd
  <2> USE DEF IsrTxEnd, WriteControl
  <2>1. FlagsTypeOK'
    BY <1>29
  <2>2. StreamTypeOK'
    BY <1>29
  <2>3. RingTypeOK'
    BY <1>29
  <2>4. ForegroundTypeOK'
    BY <1>29
  <2>5. IsrTypeOK'
    BY <1>29
  <2>6. ShadowInSync'
    <3>1. CASE space > 0
      BY <1>29, <3>1
    <3>2. CASE space = 0
      BY <1>29, <3>2
    <3> QED BY <3>1, <3>2
  <2>7. TxArmed'
    BY <1>29
  <2>8. RxArmed'
    BY <1>29
  <2>9. Aux'
    BY <1>29
  <2> QED BY <2>1, <2>2, <2>3, <2>4, <2>5, <2>6, <2>7, <2>8, <2>9 DEF TypeOK
<1>30. CASE TimeoutAlarm
  <2> USE DEF TimeoutAlarm, WriteControl
  <2>1. FlagsTypeOK'
    BY <1>30
  <2>2. StreamTypeOK'
    BY <1>30
  <2>3. RingTypeOK'
    BY <1>30
  <2>4. ForegroundTypeOK'
    BY <1>30
  <2>5. IsrTypeOK'
    BY <1>30
  <2>6. ShadowInSync'
    BY <1>30
  <2>7. TxArmed'
    BY <1>30
  <2>8. RxArmed'
    BY <1>30
  <2>9. Aux'
    BY <1>30
  <2> QED BY <2>1, <2>2, <2>3, <2>4, <2>5, <2>6, <2>7, <2>8, <2>9 DEF TypeOK
<1>31. CASE HostStep
  <2> USE DEF HostStep, HostTake, HostPut, HostPause, HostPlug
  <2>1. FlagsTypeOK'
    BY <1>31
  <2>2. StreamTypeOK'
    <3>1. CASE HostTake
      BY <1>31, <3>1
    <3>2. CASE HostPut
      BY <1>31, <3>2
    <3>3. CASE HostPause \/ HostPlug
      BY <1>31, <3>3
    <3> QED BY <1>31, <3>1, <3>2, <3>3
  <2>3. RingTypeOK'
    BY <1>31
  <2>4. ForegroundTypeOK'
    BY <1>31
  <2>5. IsrTypeOK'
    BY <1>31
  <2>6. ShadowInSync'
    BY <1>31
  <2>7. TxArmed'
    BY <1>31
  <2>8. RxArmed'
    BY <1>31
  <2>9. Aux'
    BY <1>31
  <2> QED BY <2>1, <2>2, <2>3, <2>4, <2>5, <2>6, <2>7, <2>8, <2>9 DEF TypeOK
<1>32. CASE UNCHANGED vars
  BY <1>32 DEF vars, Inc
<1>33. CASE SetTimeout
  <2> USE DEF SetTimeout, Foreground
  <2>1. FlagsTypeOK'
    BY <1>33
  <2>2. StreamTypeOK'
    BY <1>33
  <2>3. RingTypeOK'
    BY <1>33
  <2>4. ForegroundTypeOK'
    BY <1>33
  <2>5. IsrTypeOK'
    BY <1>33
  <2>6. ShadowInSync'
    BY <1>33
  <2>7. TxArmed'
    BY <1>33
  <2>8. RxArmed'
    BY <1>33
  <2>9. Aux'
    BY <1>33, Zenon DEF Inc
  <2> QED BY <2>1, <2>2, <2>3, <2>4, <2>5, <2>6, <2>7, <2>8, <2>9 DEF TypeOK
<1> QED
  BY <1>1, <1>2, <1>3, <1>4, <1>5, <1>6, <1>7, <1>8, <1>9, <1>10, <1>11, <1>12, <1>13, <1>14, <1>15, <1>16, <1>17, <1>18, <1>19, <1>20, <1>21, <1>22, <1>23, <1>24, <1>25, <1>26, <1>27, <1>28, <1>29, <1>30, <1>31, <1>32, <1>33 DEF Next, WriteStep, ReadStep, IsrStep

(* Until the driver is installed its timeout is the default and no alarm runs. *)
Untouched == fpc = "init" => timeout = TIMEOUT /\ ~alarm

TInv == IInv /\ TimeoutKnown /\ Untouched

LEMMA InitTInv == Init => TInv
  BY InitIInv DEF TInv, Init, TimeoutKnown, Untouched

(* Only init, ioctl and the alarm touch what TimeoutKnown speaks of. *)
LEMMA OthersLeaveHost ==
    ASSUME IInv, [Next]_vars, ~DriverInit, ~SetTimeout, ~TimeoutAlarm
    PROVE  /\ UNCHANGED host
           /\ fpc = "init" <=> fpc' = "init"
<1>1. fpc = "init" => ipc = "off"
  BY DEF IInv, Aux
<1>2. CASE WriteCall \/ ReadCall \/ CloseCall \/ CloseDrain
  BY <1>2 DEF WriteCall, ReadCall, CloseCall, CloseDrain, Foreground,
        GoTo, Return
<1>3. CASE WriteStep
  BY <1>3 DEF WriteStep, WriteLoad, WriteCopy, WritePublish, WriteKick,
        WriteSpin, WriteCheck, WriteReturn, Foreground, GoTo, Return
<1>4. CASE ReadStep
  BY <1>4 DEF ReadStep, ReadWhile, ReadLoad, ReadCopy, ReadPublish, ReadEmpty,
        ReadSpin, ReadCheck, ReadRearm, ReadReturn, Foreground, GoTo, Return
<1>5. CASE IsrEnter \/ IsrStep
  BY <1>1, <1>5 DEF IsrEnter, IsrStep, IsrTop, IsrRxFull, IsrRxByte, IsrRxNone,
        IsrRxEnd, IsrTxByte, IsrTxEnd, fgVars
<1>6. CASE HostStep
  BY <1>6 DEF HostStep, fgVars
<1>7. CASE UNCHANGED vars
  BY <1>7 DEF vars, fgVars, host
<1> QED
  BY <1>2, <1>3, <1>4, <1>5, <1>6, <1>7 DEF Next

LEMMA StepTInv == TInv /\ [Next]_vars => TInv'
<1> SUFFICES ASSUME TInv, [Next]_vars PROVE TInv'
  OBVIOUS
<1>0. IInv /\ IInv'
  BY StepIInv DEF TInv
<1>1. /\ INT_MAX \in Nat /\ TIMEOUT \in Nat /\ TIMEOUT <= INT_MAX - 2
      /\ Timeouts \subseteq Int
      /\ host_inactive \in 0 .. INT_MAX - 2 /\ host_inactive' \in 0 .. INT_MAX - 2
  BY <1>0, DriverAssumption DEF IInv, TypeOK, IsrTypeOK
<1>2. CASE DriverInit
  <2>1. fpc = "init" /\ fpc' = "idle" /\ timeout = TIMEOUT
    BY <1>2 DEF DriverInit, TInv, Untouched
  <2>2. \/ alarm' = TRUE /\ timeout' = timeout
        \/ alarm' = FALSE /\ timeout' = INT_MAX
    BY <1>2 DEF DriverInit
  <2>3. timeout # INT_MAX
    BY <1>1, <2>1
  <2>4. timeout' >= INT_MAX - 1 => host_inactive' < timeout'
    <3>1. timeout' \in 1 .. INT_MAX
      BY <1>0 DEF IInv, TypeOK, IsrTypeOK
    <3> QED BY <1>1, <3>1
  <2>5. timeout' = INT_MAX <=> ~alarm'
    BY <2>2, <2>3, Zenon
  <2>6. TimeoutKnown' /\ Untouched'
    BY <2>1, <2>4, <2>5 DEF TimeoutKnown, Untouched
  <2> QED BY <1>0, <2>6 DEF TInv
<1>3. CASE SetTimeout
  <2>1. fpc = "idle" /\ fpc' = "idle" /\ alarm' = alarm /\ timeout # INT_MAX
    BY <1>3 DEF SetTimeout, Foreground, fgVars
  <2>2. alarm
    BY <2>1 DEF TInv, TimeoutKnown
  <2>3. timeout' # INT_MAX
    BY <1>1, <1>3 DEF SetTimeout
  <2>4. timeout' >= INT_MAX - 1 => host_inactive' < timeout'
    <3>1. timeout' \in 1 .. INT_MAX
      BY <1>0 DEF IInv, TypeOK, IsrTypeOK
    <3> QED BY <1>1, <3>1
  <2>5. TimeoutKnown' /\ Untouched'
    BY <2>1, <2>2, <2>3, <2>4 DEF TimeoutKnown, Untouched
  <2> QED BY <1>0, <2>5 DEF TInv
<1>4. CASE TimeoutAlarm
  <2>1. fpc' = fpc /\ alarm' = alarm /\ timeout' = timeout /\ alarm
    BY <1>4 DEF TimeoutAlarm, fgVars
  <2>2. timeout' >= INT_MAX - 1 => host_inactive' < timeout'
    <3>1. timeout' \in 1 .. INT_MAX
      BY <1>0 DEF IInv, TypeOK, IsrTypeOK
    <3> QED BY <1>1, <3>1
  <2>3. fpc # "init"
    BY <2>1 DEF TInv, Untouched
  <2>4. TimeoutKnown' /\ Untouched'
    BY <2>1, <2>2, <2>3 DEF TInv, TimeoutKnown, Untouched
  <2> QED BY <1>0, <2>4 DEF TInv
<1>5. CASE ~DriverInit /\ ~SetTimeout /\ ~TimeoutAlarm
  <2>1. UNCHANGED host /\ (fpc = "init" <=> fpc' = "init")
    BY <1>0, <1>5, OthersLeaveHost
  <2>2. timeout' = timeout /\ alarm' = alarm /\ host_inactive' = host_inactive
    BY <2>1 DEF host
  <2>3. TimeoutKnown'
    BY <2>1, <2>2 DEF TInv, TimeoutKnown
  <2>4. Untouched'
    BY <2>1, <2>2 DEF TInv, Untouched
  <2> QED BY <1>0, <2>3, <2>4 DEF TInv
<1> QED
  BY <1>2, <1>3, <1>4, <1>5

---------------------------------------------------------------------------
(* The two byte channels.  An index on the ring, without the remainder, and *)
(* how many bytes a ring holds from o up to p.                              *)
At(k) == IF k < BUF_LEN THEN k ELSE k - BUF_LEN
RingLen(o, p) == IF p >= o THEN p - o ELSE p + BUF_LEN - o

LEMMA ModWrap ==
    ASSUME NEW k \in Nat, k < 2 * BUF_LEN
    PROVE  k % BUF_LEN = At(k) /\ At(k) \in Slots
<1>1. CASE k < BUF_LEN
  BY <1>1, DriverAssumption DEF At, Slots
<1>2. CASE k >= BUF_LEN
  <2>1. k - BUF_LEN \in Slots
    BY <1>2, DriverAssumption DEF Slots
  <2>2. k % BUF_LEN = k - BUF_LEN
    BY <1>2, DriverAssumption
  <2> QED BY <1>2, <2>1, <2>2, DriverAssumption DEF At
<1> QED BY <1>1, <1>2, DriverAssumption

LEMMA IncIsAt ==
    ASSUME NEW k \in Slots
    PROVE  Inc(k) = At(k + 1) /\ Inc(k) \in Slots
<1>1. k + 1 \in Nat /\ k + 1 < 2 * BUF_LEN
  BY DriverAssumption DEF Slots
<1> QED BY <1>1, ModWrap DEF Inc

LEMMA RingLenRange ==
    ASSUME NEW o \in Slots, NEW p \in Slots
    PROVE  RingLen(o, p) \in Nat /\ RingLen(o, p) < BUF_LEN
  BY DriverAssumption DEF RingLen, Slots

LEMMA SeqOfLen ==
    ASSUME NEW m \in Nat, NEW f \in [1 .. m -> Nat]
    PROVE  f \in Seq(Nat) /\ Len(f) = m
<1>1. f \in Seq(Nat)
  BY SeqDef
<1>2. DOMAIN f = 1 .. m /\ DOMAIN f = 1 .. Len(f) /\ Len(f) \in Nat
  BY <1>1, LenProperties
<1> QED BY <1>1, <1>2

LEMMA RingSeqIs ==
    ASSUME NEW buf \in [Slots -> Nat], NEW o \in Slots, NEW p \in Slots
    PROVE  /\ RingSeq(buf, o, p) \in Seq(Nat)
           /\ Len(RingSeq(buf, o, p)) = RingLen(o, p)
           /\ \A k \in 1 .. RingLen(o, p) :
                 /\ At(o + k - 1) \in Slots
                 /\ RingSeq(buf, o, p)[k] = buf[At(o + k - 1)]
<1>1. (p + BUF_LEN - o) % BUF_LEN = RingLen(o, p)
  <2>1. p + BUF_LEN - o \in Nat /\ p + BUF_LEN - o < 2 * BUF_LEN
    BY DriverAssumption DEF Slots
  <2>2. At(p + BUF_LEN - o) = RingLen(o, p)
    BY DriverAssumption DEF At, RingLen, Slots
  <2> QED BY <2>1, <2>2, ModWrap
<1>2. RingLen(o, p) \in Nat /\ RingLen(o, p) < BUF_LEN
  BY RingLenRange
<1>3. ASSUME NEW k \in 1 .. RingLen(o, p)
      PROVE  (o + k - 1) % BUF_LEN = At(o + k - 1) /\ At(o + k - 1) \in Slots
  <2>1. o + k - 1 \in Nat /\ o + k - 1 < 2 * BUF_LEN
    BY <1>2, DriverAssumption DEF Slots
  <2> QED BY <2>1, ModWrap
<1>4. RingSeq(buf, o, p) = [k \in 1 .. RingLen(o, p) |-> buf[At(o + k - 1)]]
  BY <1>1, <1>3 DEF RingSeq
<1>5. \A k \in 1 .. RingLen(o, p) : buf[At(o + k - 1)] \in Nat
  BY <1>3
<1>6. RingSeq(buf, o, p) \in [1 .. RingLen(o, p) -> Nat]
  BY <1>4, <1>5
<1>7. RingSeq(buf, o, p) \in Seq(Nat) /\ Len(RingSeq(buf, o, p)) = RingLen(o, p)
  BY <1>2, <1>6, SeqOfLen
<1> QED BY <1>3, <1>4, <1>7

(* Bytes put at p lengthen the ring without moving those already in it.     *)
LEMMA RingGrows ==
    ASSUME NEW o \in Slots, NEW p \in Slots, NEW m \in Nat, p + m <= BUF_LEN,
           RingLen(o, p) + m <= BUF_LEN - 1
    PROVE  /\ At(p + m) \in Slots
           /\ RingLen(o, At(p + m)) = RingLen(o, p) + m
           /\ \A j \in 1 .. m : At(o + (RingLen(o, p) + j) - 1) = p + j - 1
           /\ \A k \in 1 .. RingLen(o, p), j \in 1 .. m : At(o + k - 1) # p + j - 1
  BY DriverAssumption DEF At, RingLen, Slots

(* The slot after the last byte is none of the ring's.                      *)
LEMMA RingEndIsFree ==
    ASSUME NEW o \in Slots, NEW p \in Slots, NEW k \in 1 .. RingLen(o, p)
    PROVE  At(o + k - 1) # p
  BY DriverAssumption DEF At, RingLen, Slots

(* Bytes taken at o shorten it from the front.                              *)
LEMMA RingShrinks ==
    ASSUME NEW o \in Slots, NEW p \in Slots, NEW m \in Nat, o + m <= BUF_LEN,
           m <= RingLen(o, p)
    PROVE  /\ At(o + m) \in Slots
           /\ RingLen(At(o + m), p) = RingLen(o, p) - m
           /\ \A k \in 1 .. RingLen(o, p) - m : At(At(o + m) + k - 1) = At(o + (k + m) - 1)
           /\ \A k \in 1 .. m : At(o + k - 1) = o + k - 1
  BY DriverAssumption DEF At, RingLen, Slots

(* Publishing m bytes that stand in the buffer from p on appends them.      *)
LEMMA RingAppends ==
    ASSUME NEW buf \in [Slots -> Nat], NEW buf2 \in [Slots -> Nat],
           NEW o \in Slots, NEW p \in Slots, NEW s \in Seq(Nat),
           p + Len(s) <= BUF_LEN, RingLen(o, p) + Len(s) <= BUF_LEN - 1,
           \A j \in 1 .. Len(s) : buf2[p + j - 1] = s[j],
           \A k \in 1 .. RingLen(o, p) : buf2[At(o + k - 1)] = buf[At(o + k - 1)]
    PROVE  RingSeq(buf2, o, At(p + Len(s))) = RingSeq(buf, o, p) \o s
<1> DEFINE m == Len(s)
           old == RingSeq(buf, o, p)
           new == RingSeq(buf2, o, At(p + m))
           len == RingLen(o, p)
<1>1. m \in Nat /\ len \in Nat
  BY RingLenRange
<1>2. /\ At(p + m) \in Slots
      /\ RingLen(o, At(p + m)) = len + m
      /\ \A j \in 1 .. m : At(o + (len + j) - 1) = p + j - 1
  BY <1>1, RingGrows
<1>3. /\ old \in Seq(Nat) /\ Len(old) = len
      /\ \A k \in 1 .. len : old[k] = buf[At(o + k - 1)]
  BY RingSeqIs
<1>4. /\ new \in Seq(Nat) /\ Len(new) = len + m
      /\ \A k \in 1 .. len + m : new[k] = buf2[At(o + k - 1)]
  <2>1. /\ new \in Seq(Nat) /\ Len(new) = RingLen(o, At(p + m))
        /\ \A k \in 1 .. RingLen(o, At(p + m)) : new[k] = buf2[At(o + k - 1)]
    BY <1>2, RingSeqIs
  <2> HIDE DEF new, len, m
  <2> QED BY <1>2, <2>1
<1>5. /\ old \o s \in Seq(Nat) /\ Len(old \o s) = len + m
      /\ \A k \in 1 .. len + m :
            (old \o s)[k] = IF k <= len THEN old[k] ELSE s[k - len]
  BY <1>3, ConcatProperties
<1>6. ASSUME NEW k \in 1 .. len + m
      PROVE  new[k] = (old \o s)[k]
  <2> HIDE DEF m, old, new, len
  <2>1. CASE k <= len
    <3>1. k \in 1 .. len
      BY <1>1, <2>1
    <3> QED BY <1>3, <1>4, <1>5, <2>1, <3>1 DEF len
  <2>2. CASE ~(k <= len)
    <3>1. k - len \in 1 .. m /\ len + (k - len) = k
      BY <1>1, <2>2
    <3>2. At(o + k - 1) = p + (k - len) - 1
      BY <1>2, <3>1
    <3>3. buf2[p + (k - len) - 1] = s[k - len]
      BY <3>1 DEF m
    <3> QED BY <1>4, <1>5, <2>2, <3>2, <3>3
  <2> QED BY <2>1, <2>2
<1> HIDE DEF old, new, len
<1> QED BY <1>4, <1>5, <1>6, SeqEqual DEF old, new

(* Bytes may be written outside the ring without changing what it holds.    *)
LEMMA RingKeeps ==
    ASSUME NEW buf \in [Slots -> Nat], NEW buf2 \in [Slots -> Nat],
           NEW o \in Slots, NEW p \in Slots,
           \A k \in 1 .. RingLen(o, p) : buf2[At(o + k - 1)] = buf[At(o + k - 1)]
    PROVE  RingSeq(buf2, o, p) = RingSeq(buf, o, p)
<1>1. /\ RingSeq(buf, o, p) \in Seq(Nat) /\ Len(RingSeq(buf, o, p)) = RingLen(o, p)
      /\ \A k \in 1 .. RingLen(o, p) : RingSeq(buf, o, p)[k] = buf[At(o + k - 1)]
  BY RingSeqIs
<1>2. /\ RingSeq(buf2, o, p) \in Seq(Nat) /\ Len(RingSeq(buf2, o, p)) = RingLen(o, p)
      /\ \A k \in 1 .. RingLen(o, p) : RingSeq(buf2, o, p)[k] = buf2[At(o + k - 1)]
  BY RingSeqIs
<1> QED BY <1>1, <1>2, SeqEqual

(* Taking m bytes from the front leaves the rest.                           *)
LEMMA RingTakes ==
    ASSUME NEW buf \in [Slots -> Nat], NEW o \in Slots, NEW p \in Slots,
           NEW s \in Seq(Nat), o + Len(s) <= BUF_LEN, Len(s) <= RingLen(o, p),
           \A k \in 1 .. Len(s) : s[k] = buf[o + k - 1]
    PROVE  RingSeq(buf, o, p) = s \o RingSeq(buf, At(o + Len(s)), p)
<1> DEFINE m == Len(s)
           old == RingSeq(buf, o, p)
           new == RingSeq(buf, At(o + m), p)
           len == RingLen(o, p)
<1>1. m \in Nat /\ len \in Nat
  BY RingLenRange
<1>2. /\ At(o + m) \in Slots
      /\ RingLen(At(o + m), p) = len - m
      /\ \A k \in 1 .. len - m : At(At(o + m) + k - 1) = At(o + (k + m) - 1)
      /\ \A k \in 1 .. m : At(o + k - 1) = o + k - 1
  BY <1>1, RingShrinks
<1>3. /\ old \in Seq(Nat) /\ Len(old) = len
      /\ \A k \in 1 .. len : old[k] = buf[At(o + k - 1)]
  BY RingSeqIs
<1>4. /\ new \in Seq(Nat) /\ Len(new) = len - m
      /\ \A k \in 1 .. len - m : new[k] = buf[At(At(o + m) + k - 1)]
  <2>1. /\ new \in Seq(Nat) /\ Len(new) = RingLen(At(o + m), p)
        /\ \A k \in 1 .. RingLen(At(o + m), p) : new[k] = buf[At(At(o + m) + k - 1)]
    BY <1>2, RingSeqIs
  <2> HIDE DEF new, len, m
  <2> QED BY <1>2, <2>1
<1>5. /\ s \o new \in Seq(Nat) /\ Len(s \o new) = m + (len - m)
      /\ \A k \in 1 .. m + (len - m) :
            (s \o new)[k] = IF k <= m THEN s[k] ELSE new[k - m]
  <2>1. /\ s \o new \in Seq(Nat) /\ Len(s \o new) = Len(s) + Len(new)
        /\ \A k \in 1 .. Len(s) + Len(new) :
              (s \o new)[k] = IF k <= Len(s) THEN s[k] ELSE new[k - Len(s)]
    <3> HIDE DEF new
    <3> QED BY <1>4, ConcatProperties
  <2> HIDE DEF new, len
  <2> QED BY <1>4, <2>1
<1>6. m + (len - m) = len
  BY <1>1
<1>7. ASSUME NEW k \in 1 .. len
      PROVE  old[k] = (s \o new)[k]
  <2> HIDE DEF m, old, new, len
  <2>1. CASE k <= m
    <3>1. k \in 1 .. m
      BY <1>1, <2>1
    <3>2. s[k] = buf[o + k - 1]
      BY <3>1 DEF m
    <3> QED BY <1>2, <1>3, <1>5, <1>6, <2>1, <3>1, <3>2
  <2>2. CASE ~(k <= m)
    <3>1. k - m \in 1 .. len - m /\ (k - m) + m = k
      BY <1>1, <2>2
    <3>2. At(At(o + m) + (k - m) - 1) = At(o + k - 1)
      BY <1>2, <3>1
    <3> QED BY <1>3, <1>4, <1>5, <1>6, <2>2, <3>1, <3>2
  <2> QED BY <2>1, <2>2
<1> HIDE DEF old, new, len
<1>8. old = s \o new
  BY <1>3, <1>5, <1>6, <1>7, SeqEqual
<1> QED BY <1>8 DEF old, new

---------------------------------------------------------------------------
(* The room the interrupt routine counted is still there: only it fills the *)
(* FIFO, and the host only empties it.                                      *)
TxSpace == Len(wfifo) + space <= FifoDepth

(* While write copies, the ring has room for all it will publish, and the   *)
(* bytes copied so far are the next ones of the stream.                     *)
TxCopied ==
    fpc = "wCopy" =>
        /\ in = tx_in /\ n > 0
        /\ RingLen(tx_out, tx_in) + n <= BUF_LEN - 1
        /\ \A j \in 1 .. i : tx_buf[in + j - 1] = accepted + j

(* While read copies, the ring still holds what it will give back, and the  *)
(* bytes copied so far are still those at the front.                        *)
RxCopied ==
    IF fpc = "rCopy"
    THEN /\ out = rx_out
         /\ n <= RingLen(rx_out, rx_in)
         /\ Len(tmp) = i
         /\ \A j \in 1 .. i : tmp[j] = rx_buf[out + j - 1]
    ELSE tmp = <<>>

(* Six steps touch the transmit stream or the copy that is being made ...   *)
LEMMA OthersLeaveTx ==
    ASSUME [Next]_vars, ~WriteLoad, ~WriteCopy, ~WritePublish, ~IsrTop,
           ~IsrTxByte, ~LinkStep(HostTake)
    PROVE  /\ UNCHANGED <<wfifo, hostGot, tx_buf, tx_in, tx_out, accepted, space>>
           /\ fpc' = "wCopy" => fpc = "wCopy" /\ UNCHANGED <<in, n, i>>
<1> USE DEF tx, coreVars, hostVars, isrVars, fgVars
<1>1. CASE DriverInit
  BY <1>1 DEF DriverInit, WriteControl
<1>2. CASE WriteCall \/ ReadCall \/ CloseCall \/ CloseDrain \/ SetTimeout
  BY <1>2 DEF WriteCall, ReadCall, CloseCall, CloseDrain, SetTimeout, Foreground,
        GoTo, Return
<1>3. CASE WriteStep
  BY <1>3 DEF WriteStep, WriteKick, WriteControl,
        WriteSpin, WriteCheck, WriteReturn, Foreground, GoTo, Return
<1>4. CASE ReadStep
  BY <1>4 DEF ReadStep, ReadWhile, ReadLoad, ReadCopy, ReadPublish, ReadEmpty,
        ReadSpin, ReadCheck, ReadRearm, ReadReturn, Foreground, GoTo, Return,
        WriteControl
<1>5. CASE IsrEnter \/ IsrStep
  BY <1>5 DEF IsrEnter, IsrStep, IsrRxFull, IsrRxByte, IsrRxNone,
        IsrRxEnd, IsrTxEnd, ReadData, WriteControl
<1>6. CASE HostStep
  BY <1>6 DEF HostStep, LinkStep, HostPut, HostPause, HostPlug
<1>7. CASE TimeoutAlarm
  BY <1>7 DEF TimeoutAlarm, WriteControl
<1>8. CASE UNCHANGED vars
  BY <1>8 DEF vars
<1> QED
  BY <1>1, <1>2, <1>3, <1>4, <1>5, <1>6, <1>7, <1>8 DEF Next

(* ... and five the receive stream.                                         *)
LEMMA OthersLeaveRx ==
    ASSUME [Next]_vars, ~ReadLoad, ~ReadCopy, ~ReadPublish, ~IsrRxByte,
           ~LinkStep(HostPut)
    PROVE  /\ UNCHANGED <<rfifo, hostSent, rx_buf, rx_in, rx_out, app>>
           /\ fpc = "rCopy" => fpc' = "rCopy" /\ UNCHANGED <<out, n, i, tmp>>
           /\ fpc # "rCopy" => fpc' # "rCopy" /\ (tmp' = tmp \/ tmp' = <<>>)
<1> USE DEF rx, coreVars, hostVars, isrVars, fgVars
<1>1. CASE DriverInit
  BY <1>1 DEF DriverInit, WriteControl
<1>2. CASE WriteCall \/ ReadCall \/ CloseCall \/ CloseDrain \/ SetTimeout
  BY <1>2 DEF WriteCall, ReadCall, CloseCall, CloseDrain, SetTimeout, Foreground,
        GoTo, Return
<1>3. CASE WriteStep
  BY <1>3 DEF WriteStep, WriteLoad, WriteCopy, WritePublish, WriteKick, WriteControl,
        WriteSpin, WriteCheck, WriteReturn, Foreground, GoTo, Return
<1>4. CASE ReadStep
  BY <1>4 DEF ReadStep, ReadWhile, ReadEmpty,
        ReadSpin, ReadCheck, ReadRearm, ReadReturn, Foreground, GoTo, Return,
        WriteControl
<1>5. CASE IsrEnter \/ IsrStep
  BY <1>5 DEF IsrEnter, IsrStep, IsrTop, IsrRxFull, IsrRxNone,
        IsrRxEnd, IsrTxByte, IsrTxEnd, ReadData, WriteData, WriteControl
<1>6. CASE HostStep
  BY <1>6 DEF HostStep, LinkStep, HostTake, HostPause, HostPlug
<1>7. CASE TimeoutAlarm
  BY <1>7 DEF TimeoutAlarm, WriteControl
<1>8. CASE UNCHANGED vars
  BY <1>8 DEF vars
<1> QED
  BY <1>1, <1>2, <1>3, <1>4, <1>5, <1>6, <1>7, <1>8 DEF Next

LEMMA WriteRoomLeavesOne ==
    ASSUME NEW a \in Slots, NEW b \in Slots
    PROVE  RingLen(b, a) + WriteRoom(a, b) <= BUF_LEN - 1
  BY DriverAssumption DEF RingLen, WriteRoom, Slots

LEMMA ReadAvailIsThere ==
    ASSUME NEW a \in Slots, NEW b \in Slots
    PROVE  ReadAvail(a, b) <= RingLen(b, a)
  BY DriverAssumption DEF RingLen, ReadAvail, Slots

(* One byte more or less in the ring. *)
LEMMA IncLengthens ==
    ASSUME NEW o \in Slots, NEW p \in Slots, Inc(p) # o
    PROVE  RingLen(o, p) + 1 <= BUF_LEN - 1 /\ RingLen(o, Inc(p)) = RingLen(o, p) + 1
<1>1. Inc(p) = At(p + 1)
  BY IncIsAt
<1> QED BY <1>1, DriverAssumption DEF At, RingLen, Slots

LEMMA IncShortens ==
    ASSUME NEW o \in Slots, NEW p \in Slots, o # p
    PROVE  RingLen(o, p) >= 1 /\ RingLen(Inc(o), p) = RingLen(o, p) - 1
<1>1. Inc(o) = At(o + 1)
  BY IncIsAt
<1> QED BY <1>1, DriverAssumption DEF At, RingLen, Slots

(* The facts about types that the steps below use. *)
LEMMA Sizes == BUF_LEN \in Nat /\ BUF_LEN > 1 /\ FifoDepth \in Nat
  BY DriverAssumption, FifoAssumption

LEMMA StreamTypes ==
    ASSUME IInv
    PROVE  /\ wfifo \in Seq(Nat) /\ rfifo \in Seq(Nat)
           /\ Len(wfifo) <= FifoDepth /\ Len(rfifo) <= FifoDepth
           /\ hostGot \in Seq(Nat) /\ app \in Seq(Nat) /\ tmp \in Seq(Nat)
           /\ hostSent \in Nat /\ accepted \in Nat
  BY Zenon DEF IInv, TypeOK, StreamTypeOK

LEMMA RingTypes ==
    ASSUME IInv
    PROVE  /\ tx_buf \in [Slots -> Nat] /\ tx_in \in Slots /\ tx_out \in Slots
           /\ rx_buf \in [Slots -> Nat] /\ rx_in \in Slots /\ rx_out \in Slots
  BY Zenon DEF IInv, TypeOK, RingTypeOK

LEMMA IndexTypes ==
    ASSUME IInv
    PROVE  /\ tx_in \in Nat /\ tx_in < BUF_LEN /\ tx_out \in Nat /\ tx_out < BUF_LEN
           /\ rx_in \in Nat /\ rx_in < BUF_LEN /\ rx_out \in Nat /\ rx_out < BUF_LEN
<1>1. /\ tx_in \in 0 .. BUF_LEN - 1 /\ tx_out \in 0 .. BUF_LEN - 1
      /\ rx_in \in 0 .. BUF_LEN - 1 /\ rx_out \in 0 .. BUF_LEN - 1
  BY Zenon DEF IInv, TypeOK, RingTypeOK, Slots
<1> QED BY <1>1, Sizes

LEMMA CopyTypes ==
    ASSUME IInv
    PROVE  /\ in \in Nat /\ out \in Nat /\ n \in Nat /\ i \in Nat /\ i <= n
           /\ count \in Nat /\ space \in Nat
           /\ fpc = "wCopy" => in + n <= BUF_LEN
           /\ fpc = "rCopy" => out + n <= BUF_LEN /\ n > 0
<1>1. in \in 0 .. BUF_LEN - 1 /\ out \in 0 .. BUF_LEN - 1 /\ n \in 0 .. BUF_LEN
      /\ i \in 0 .. n /\ count \in Nat
  BY Zenon DEF IInv, TypeOK, ForegroundTypeOK, Slots
<1>2. space \in 0 .. FifoDepth
  BY Zenon DEF IInv, TypeOK, IsrTypeOK
<1>3. /\ fpc = "wCopy" => in + n <= BUF_LEN
      /\ fpc = "rCopy" => out + n <= BUF_LEN /\ n > 0
  BY Zenon DEF IInv, Aux
<1>4. in \in Nat /\ out \in Nat /\ n \in Nat /\ i \in Nat /\ i <= n /\ space \in Nat
  BY <1>1, <1>2, Sizes
<1> QED BY <1>1, <1>3, <1>4

LEMMA StepTx == IInv /\ TxSpace /\ TxCopied /\ [Next]_vars => TxSpace' /\ TxCopied'
<1> SUFFICES ASSUME IInv, TxSpace, TxCopied, [Next]_vars PROVE TxSpace' /\ TxCopied'
  OBVIOUS
<1>1. CASE WriteLoad
  <2>1. TxSpace'
    BY <1>1 DEF WriteLoad, TxSpace, coreVars, isrVars
  <2>2. ASSUME fpc' = "wCopy"
        PROVE  TxCopied'
    <3>1. /\ count # 0 /\ WriteRoom(tx_in, tx_out) # 0
          /\ in' = tx_in /\ i' = 0 /\ n' = AtMost(WriteRoom(tx_in, tx_out), count)
          /\ tx_in' = tx_in /\ tx_out' = tx_out
      BY <1>1, <2>2 DEF WriteLoad, GoTo, tx
    <3>2. /\ WriteRoom(tx_in, tx_out) \in Nat
          /\ n' \in Nat /\ n' <= WriteRoom(tx_in, tx_out) /\ n' > 0
      <4>1. WriteRoom(tx_in, tx_out) \in Nat /\ count \in Nat
        BY WriteRoomFits, RingTypes, CopyTypes
      <4> QED BY <3>1, <4>1, AtMostIsLess
    <3>3. RingLen(tx_out, tx_in) + n' <= BUF_LEN - 1
      <4>1. /\ RingLen(tx_out, tx_in) + WriteRoom(tx_in, tx_out) <= BUF_LEN - 1
            /\ RingLen(tx_out, tx_in) \in Nat
        BY WriteRoomLeavesOne, RingLenRange, RingTypes
      <4> QED BY <3>2, <4>1, Sizes
    <3>4. \A j \in 1 .. i' : tx_buf'[in' + j - 1] = accepted' + j
      BY <3>1
    <3> QED BY <3>1, <3>2, <3>3, <3>4 DEF TxCopied
  <2> QED BY <2>1, <2>2 DEF TxCopied
<1>2. CASE WriteCopy
  <2>1. /\ fpc = "wCopy" /\ i < n /\ i' = i + 1
        /\ tx_buf' = [tx_buf EXCEPT ![in + i] = accepted + i + 1]
        /\ UNCHANGED <<tx_in, tx_out, in, n, accepted, wfifo, space>>
    BY <1>2 DEF WriteCopy, Foreground, coreVars, isrVars
  <2>2. /\ in + i \in Slots
        /\ \A j \in 1 .. i : in + j - 1 \in Slots /\ in + j - 1 # in + i
    BY <2>1, CopyTypes, Sizes DEF Slots
  <2>3. \A j \in 1 .. i + 1 : tx_buf'[in + j - 1] = accepted + j
    <3> TAKE j \in 1 .. i + 1
    <3>0. in \in Nat /\ i \in Nat /\ accepted \in Nat /\ tx_buf \in [Slots -> Nat]
      BY CopyTypes, StreamTypes, RingTypes
    <3>1. CASE j = i + 1
      <4>1. in + j - 1 = in + i /\ accepted + i + 1 = accepted + j
        BY <3>0, <3>1
      <4> QED BY <2>1, <2>2, <3>0, <4>1
    <3>2. CASE j # i + 1
      <4>1. j \in 1 .. i
        BY <3>0, <3>2
      <4>2. tx_buf'[in + j - 1] = tx_buf[in + j - 1]
        BY <2>1, <2>2, <3>0, <4>1
      <4>3. tx_buf[in + j - 1] = accepted + j
        BY <2>1, <4>1 DEF TxCopied
      <4> QED BY <4>2, <4>3
    <3> QED BY <3>1, <3>2
  <2> QED BY <2>1, <2>3 DEF TxCopied, TxSpace
<1>3. CASE WritePublish
  BY <1>3 DEF WritePublish, GoTo, TxSpace, TxCopied, coreVars, isrVars
<1>4. CASE IsrTop
  <2>1. /\ space' = WSpace \/ space' = 0
        /\ UNCHANGED <<wfifo, fpc, in, n, i, tx_in, tx_out, tx_buf, accepted>>
    BY <1>4 DEF IsrTop, coreVars, tx, fgVars
  <2>2. TxSpace'
    BY <2>1, StreamTypes, Sizes DEF TxSpace, WSpace
  <2> QED BY <2>1, <2>2 DEF TxCopied
<1>5. CASE IsrTxByte
  <2>1. /\ space > 0 /\ space' = space - 1 /\ tx_out # tx_in /\ tx_out' = Inc(tx_out)
        /\ wfifo' = IF Len(wfifo) < FifoDepth THEN Append(wfifo, tx_buf[tx_out]) ELSE wfifo
        /\ UNCHANGED <<fpc, in, n, i, tx_in, tx_buf, accepted>>
    BY <1>5 DEF IsrTxByte, WriteData, fgVars
  <2>2. Len(wfifo') = Len(wfifo) + 1 \/ Len(wfifo') = Len(wfifo)
    <3>1. tx_buf[tx_out] \in Nat /\ wfifo \in Seq(Nat)
      BY RingTypes, StreamTypes
    <3> QED BY <2>1, <3>1
  <2>3. TxSpace'
    <3>1. Len(wfifo) \in Nat /\ space \in Nat
      BY StreamTypes, CopyTypes
    <3> QED BY <2>1, <2>2, <3>1, Sizes DEF TxSpace
  <2>4. /\ RingLen(tx_out', tx_in) = RingLen(tx_out, tx_in) - 1
        /\ RingLen(tx_out, tx_in) \in Nat
    BY <2>1, IncShortens, RingLenRange, RingTypes
  <2>5. ASSUME fpc' = "wCopy"
        PROVE  RingLen(tx_out', tx_in) + n <= BUF_LEN - 1
    <3>1. RingLen(tx_out, tx_in) + n <= BUF_LEN - 1
      BY <2>1, <2>5 DEF TxCopied
    <3>2. n \in Nat
      BY CopyTypes
    <3> QED BY <2>4, <3>1, <3>2, Sizes
  <2>6. TxCopied'
    BY <2>1, <2>5 DEF TxCopied
  <2> QED BY <2>3, <2>6
<1>6. CASE LinkStep(HostTake)
  <2>1. /\ wfifo # <<>> /\ wfifo' = Tail(wfifo)
        /\ UNCHANGED <<space, fpc, in, n, i, tx_in, tx_out, tx_buf, accepted>>
    BY <1>6 DEF LinkStep, HostTake, fgVars, isrVars, tx
  <2>2. Len(wfifo') <= Len(wfifo) /\ Len(wfifo') \in Nat /\ Len(wfifo) \in Nat
    BY <2>1, StreamTypes
  <2>3. TxSpace'
    BY <2>1, <2>2, CopyTypes, Sizes DEF TxSpace
  <2> QED BY <2>1, <2>3 DEF TxCopied
<1>7. CASE /\ ~WriteLoad /\ ~WriteCopy /\ ~WritePublish /\ ~IsrTop /\ ~IsrTxByte
           /\ ~LinkStep(HostTake)
  BY <1>7, OthersLeaveTx DEF TxSpace, TxCopied
<1> QED
  BY <1>1, <1>2, <1>3, <1>4, <1>5, <1>6, <1>7

LEMMA StepRx == IInv /\ RxCopied /\ [Next]_vars => RxCopied'
<1> SUFFICES ASSUME IInv, RxCopied, [Next]_vars PROVE RxCopied'
  OBVIOUS
<1>1. CASE ReadLoad
  <2>1. /\ tmp = <<>> /\ tmp' = tmp /\ in' = rx_in /\ out' = rx_out /\ i' = 0
        /\ n' = AtMost(ReadAvail(rx_in, rx_out), count)
        /\ UNCHANGED <<rx_buf, rx_in, rx_out>>
    BY <1>1 DEF ReadLoad, Foreground, RxCopied, rx
  <2>2. n' <= RingLen(rx_out, rx_in)
    <3>1. /\ ReadAvail(rx_in, rx_out) \in Nat /\ count \in Nat
          /\ ReadAvail(rx_in, rx_out) <= RingLen(rx_out, rx_in)
          /\ RingLen(rx_out, rx_in) \in Nat
      BY ReadAvailFits, ReadAvailIsThere, RingLenRange, RingTypes, CopyTypes
    <3> QED BY <2>1, <3>1, AtMostIsLess
  <2> QED BY <2>1, <2>2 DEF RxCopied
<1>2. CASE ReadCopy
  <2>1. /\ fpc = "rCopy" /\ fpc' = "rCopy" /\ i < n /\ i' = i + 1
        /\ tmp' = Append(tmp, rx_buf[out + i])
        /\ UNCHANGED <<rx_buf, rx_in, rx_out, out, n>>
    BY <1>2 DEF ReadCopy, Foreground, rx
  <2>2. /\ Len(tmp) = i /\ out = rx_out /\ n <= RingLen(rx_out, rx_in)
        /\ \A j \in 1 .. i : tmp[j] = rx_buf[out + j - 1]
    BY <2>1 DEF RxCopied
  <2>3. rx_buf[out + i] \in Nat
    <3>1. out + i \in Slots
      BY <2>1, CopyTypes, Sizes DEF Slots
    <3> QED BY <3>1, RingTypes
  <2>4. /\ Len(tmp') = i + 1
        /\ \A j \in 1 .. i : tmp'[j] = tmp[j]
        /\ tmp'[i + 1] = rx_buf[out + i]
    BY <2>1, <2>2, <2>3, StreamTypes, AppendProperties
  <2>5. \A j \in 1 .. i + 1 : tmp'[j] = rx_buf[out + j - 1]
    <3> TAKE j \in 1 .. i + 1
    <3>0. i \in Nat /\ out \in Nat
      BY CopyTypes
    <3>1. CASE j = i + 1
      <4>1. out + j - 1 = out + i
        BY <3>0, <3>1
      <4> QED BY <2>4, <3>1, <4>1
    <3>2. CASE j # i + 1
      <4>1. j \in 1 .. i
        BY <3>0, <3>2
      <4> QED BY <2>2, <2>4, <4>1
    <3> QED BY <3>1, <3>2
  <2> QED BY <2>1, <2>2, <2>4, <2>5 DEF RxCopied
<1>3. CASE ReadPublish
  BY <1>3 DEF ReadPublish, GoTo, RxCopied
<1>4. CASE IsrRxByte
  <2>1. /\ Inc(rx_in) # rx_out /\ rx_in' = Inc(rx_in)
        /\ rx_buf' = [rx_buf EXCEPT ![rx_in] = Head(rfifo)]
        /\ UNCHANGED <<rx_out, fpc, out, n, i, tmp>>
    BY <1>4 DEF IsrRxByte, fgVars
  <2>2. CASE fpc = "rCopy"
    <3>1. /\ Len(tmp) = i /\ out = rx_out /\ n <= RingLen(rx_out, rx_in)
          /\ \A j \in 1 .. i : tmp[j] = rx_buf[out + j - 1]
      BY <2>2 DEF RxCopied
    <3>2. /\ RingLen(rx_out, rx_in') = RingLen(rx_out, rx_in) + 1
          /\ RingLen(rx_out, rx_in) + 1 <= BUF_LEN - 1
          /\ RingLen(rx_out, rx_in) \in Nat
      BY <2>1, IncLengthens, RingLenRange, RingTypes
    <3>3. n <= RingLen(rx_out, rx_in')
      BY <3>1, <3>2, CopyTypes
    <3>4. ASSUME NEW j \in 1 .. i
          PROVE  out + j - 1 \in Slots /\ out + j - 1 # rx_in
      <4>1. j \in 1 .. RingLen(rx_out, rx_in)
        BY <3>1, <3>2, CopyTypes
      <4>2. out + j - 1 \in Slots
        BY <2>2, CopyTypes, Sizes DEF Slots
      <4>3. At(out + j - 1) = out + j - 1
        BY <4>2, Sizes DEF At, Slots
      <4>4. At(rx_out + j - 1) # rx_in
        BY <4>1, RingEndIsFree, RingTypes
      <4> QED BY <3>1, <4>2, <4>3, <4>4
    <3>5. \A j \in 1 .. i : rx_buf'[out + j - 1] = rx_buf[out + j - 1]
      BY <2>1, <3>4, RingTypes
    <3> QED BY <2>1, <3>1, <3>3, <3>5 DEF RxCopied
  <2>3. CASE fpc # "rCopy"
    BY <2>1, <2>3 DEF RxCopied
  <2> QED BY <2>2, <2>3
<1>5. CASE LinkStep(HostPut)
  BY <1>5 DEF LinkStep, HostPut, rx, fgVars, RxCopied
<1>6. CASE ~ReadLoad /\ ~ReadCopy /\ ~ReadPublish /\ ~IsrRxByte /\ ~LinkStep(HostPut)
  <2>1. CASE fpc = "rCopy"
    BY <1>6, <2>1, OthersLeaveRx DEF RxCopied
  <2>2. CASE fpc # "rCopy"
    BY <1>6, <2>2, OthersLeaveRx DEF RxCopied
  <2> QED BY <2>1, <2>2
<1> QED
  BY <1>1, <1>2, <1>3, <1>4, <1>5, <1>6

LEMMA BytesAssociate ==
    ASSUME NEW s \in Seq(Nat), NEW t \in Seq(Nat), NEW u \in Seq(Nat)
    PROVE  (s \o t) \o u = s \o (t \o u)
  BY ConcatAssociative

(* A channel that hands out a front part of what is under way delivers.     *)
LEMMA FrontPart ==
    ASSUME NEW s \in Seq(Nat), NEW t \in Seq(Nat)
    PROVE  /\ Len(s \o t) = Len(s) + Len(t)
           /\ SubSeq(s \o t, 1, Len(s)) = s
           /\ SubSeq(s \o t, Len(s) + 1, Len(s \o t)) = t
<1>1. /\ s \o t \in Seq(Nat) /\ Len(s \o t) = Len(s) + Len(t)
      /\ \A k \in 1 .. Len(s) + Len(t) :
            (s \o t)[k] = IF k <= Len(s) THEN s[k] ELSE t[k - Len(s)]
  BY ConcatProperties
<1>2. Len(s) \in Nat /\ Len(t) \in Nat
  OBVIOUS
<1>3. SubSeq(s \o t, 1, Len(s)) = s
  <2> DEFINE a == SubSeq(s \o t, 1, Len(s))
  <2>0. \A k \in 1 .. Len(s) : (s \o t)[k] = s[k] /\ s[k] \in Nat
    BY <1>1, <1>2
  <2>1. /\ a \in Seq(Nat) /\ Len(a) = Len(s)
        /\ \A k \in 1 .. Len(s) : a[k] = (s \o t)[k]
    <3>1. /\ a \in Seq(Nat) /\ Len(a) = IF 1 <= Len(s) THEN Len(s) - 1 + 1 ELSE 0
          /\ \A k \in 1 .. Len(s) - 1 + 1 : a[k] = (s \o t)[1 + k - 1]
      BY <1>2, <2>0, SubSeqProperties
    <3> HIDE DEF a
    <3> QED BY <1>2, <3>1
  <2> HIDE DEF a
  <2>2. a = s
    BY <2>0, <2>1, SeqEqual
  <2> QED BY <2>2 DEF a
<1>4. SubSeq(s \o t, Len(s) + 1, Len(s \o t)) = t
  <2> DEFINE a == SubSeq(s \o t, Len(s) + 1, Len(s) + Len(t))
  <2>0. \A k \in 1 .. Len(t) : (s \o t)[Len(s) + k] = t[k] /\ t[k] \in Nat
    <3> TAKE k \in 1 .. Len(t)
    <3>1. Len(s) + k \in 1 .. Len(s) + Len(t) /\ ~(Len(s) + k <= Len(s)) /\ (Len(s) + k) - Len(s) = k
      BY <1>2
    <3> QED BY <1>1, <3>1
  <2>1. /\ a \in Seq(Nat) /\ Len(a) = Len(t)
        /\ \A k \in 1 .. Len(t) : a[k] = (s \o t)[Len(s) + k]
    <3>0. \A k \in Len(s) + 1 .. Len(s) + Len(t) : (s \o t)[k] \in Nat
      BY <1>1
    <3>1. /\ a \in Seq(Nat)
          /\ Len(a) = IF Len(s) + 1 <= Len(s) + Len(t)
                      THEN (Len(s) + Len(t)) - (Len(s) + 1) + 1 ELSE 0
          /\ \A k \in 1 .. (Len(s) + Len(t)) - (Len(s) + 1) + 1 :
                a[k] = (s \o t)[(Len(s) + 1) + k - 1]
      BY <1>2, <3>0, SubSeqProperties
    <3> HIDE DEF a
    <3>2. (Len(s) + Len(t)) - (Len(s) + 1) + 1 = Len(t)
      BY <1>2
    <3>3. \A k \in 1 .. Len(t) : (Len(s) + 1) + k - 1 = Len(s) + k
      BY <1>2
    <3>4. Len(a) = Len(t)
      BY <1>2, <3>1, <3>2
    <3> QED BY <3>1, <3>2, <3>3, <3>4
  <2> HIDE DEF a
  <2>2. a = t
    BY <2>0, <2>1, SeqEqual
  <2> QED BY <1>1, <2>2 DEF a
<1> QED BY <1>1, <1>3, <1>4

---------------------------------------------------------------------------
(* Every step of the driver and its hardware is a step of the transmit      *)
(* channel, or none: publishing accepts, the host's taking delivers, and    *)
(* the interrupt routine moves a byte within what is under way.             *)
LEMMA StepTxChannel ==
    IInv /\ TxSpace /\ TxCopied /\ [Next]_vars => [TxChannel!Next]_(TxChannel!chanVars)
<1> SUFFICES ASSUME IInv, TxSpace, TxCopied, [Next]_vars
             PROVE  TxChannel!Next \/ UNCHANGED TxChannel!chanVars
  OBVIOUS
<1> DEFINE ring == RingSeq(tx_buf, tx_out, tx_in)
<1>0. /\ ring \in Seq(Nat) /\ Len(ring) = RingLen(tx_out, tx_in)
      /\ RingLen(tx_out, tx_in) \in Nat /\ RingLen(tx_out, tx_in) < BUF_LEN
      /\ wfifo \in Seq(Nat) /\ Len(wfifo) <= FifoDepth /\ Len(wfifo) \in Nat
  <2>1. /\ ring \in Seq(Nat) /\ Len(ring) = RingLen(tx_out, tx_in)
        /\ RingLen(tx_out, tx_in) \in Nat /\ RingLen(tx_out, tx_in) < BUF_LEN
    BY RingTypes, RingSeqIs, RingLenRange
  <2>2. wfifo \in Seq(Nat) /\ Len(wfifo) <= FifoDepth /\ Len(wfifo) \in Nat
    BY StreamTypes
  <2> QED BY <2>1, <2>2
<1>1. CASE WriteLoad \/ IsrTop
  BY <1>1 DEF WriteLoad, IsrTop, coreVars, tx, fgVars, TxChannel!chanVars
<1>2. CASE WriteCopy
  <2>1. /\ fpc = "wCopy" /\ i < n
        /\ tx_buf' = [tx_buf EXCEPT ![in + i] = accepted + i + 1]
        /\ UNCHANGED <<tx_in, tx_out, accepted, wfifo, hostGot>>
    BY <1>2 DEF WriteCopy, Foreground, coreVars
  <2>2. ASSUME NEW k \in 1 .. RingLen(tx_out, tx_in)
        PROVE  At(tx_out + k - 1) # in + i
    <3>1. /\ in = tx_in /\ RingLen(tx_out, tx_in) + n <= BUF_LEN - 1
          /\ in + n <= BUF_LEN /\ n \in Nat /\ i \in Nat
      BY <2>1, CopyTypes DEF TxCopied
    <3>2. \A j \in 1 .. n : At(tx_out + k - 1) # tx_in + j - 1
      BY <3>1, RingGrows, RingTypes
    <3>3. i + 1 \in 1 .. n /\ tx_in + (i + 1) - 1 = in + i
      BY <2>1, <3>1, CopyTypes
    <3> QED BY <3>2, <3>3
  <2>3. \A k \in 1 .. RingLen(tx_out, tx_in) :
           tx_buf'[At(tx_out + k - 1)] = tx_buf[At(tx_out + k - 1)]
    <3>1. \A k \in 1 .. RingLen(tx_out, tx_in) : At(tx_out + k - 1) \in Slots
      BY RingSeqIs, RingTypes
    <3> QED BY <2>1, <2>2, <3>1, RingTypes
  <2>4. tx_buf' \in [Slots -> Nat]
    BY StepIInv, Zenon DEF IInv, TypeOK, RingTypeOK
  <2>5. RingSeq(tx_buf', tx_out, tx_in) = ring
    BY <2>3, <2>4, RingKeeps, RingTypes
  <2> QED BY <2>1, <2>5 DEF TxChannel!chanVars
<1>3. CASE WritePublish
  <2>1. /\ fpc = "wCopy" /\ i = n /\ accepted' = accepted + n
        /\ tx_in' = (in + n) % BUF_LEN
        /\ UNCHANGED <<tx_buf, tx_out, wfifo, hostGot>>
    BY <1>3 DEF WritePublish, Foreground, coreVars
  <2>2. /\ in = tx_in /\ n > 0 /\ RingLen(tx_out, tx_in) + n <= BUF_LEN - 1
        /\ \A j \in 1 .. n : tx_buf[tx_in + j - 1] = accepted + j
        /\ tx_in + n <= BUF_LEN /\ n \in Nat /\ accepted \in Nat
    BY <2>1, CopyTypes, StreamTypes DEF TxCopied
  <2> DEFINE s == [j \in 1 .. n |-> accepted + j]
  <2>3. s \in Seq(Nat) /\ Len(s) = n
    <3>1. s \in [1 .. n -> Nat]
      BY <2>2
    <3> QED BY <2>2, <3>1, SeqOfLen
  <2>4. tx_in' = At(tx_in + Len(s))
    <3>1. tx_in + n \in Nat /\ tx_in + n < 2 * BUF_LEN
      BY <2>2, IndexTypes, Sizes
    <3> QED BY <2>1, <2>2, <2>3, <3>1, ModWrap
  <2>5. RingSeq(tx_buf, tx_out, tx_in') = ring \o s
    <3>1. \A j \in 1 .. Len(s) : tx_buf[tx_in + j - 1] = s[j]
      BY <2>2, <2>3
    <3> HIDE DEF s
    <3> QED BY <2>2, <2>3, <2>4, <3>1, RingAppends, RingTypes
  <2> HIDE DEF ring, s
  <2>6. wfifo \o (ring \o s) = (wfifo \o ring) \o s
    BY <1>0, <2>3, BytesAssociate
  <2>7. n \in 1 .. (BUF_LEN - 1 + FifoDepth) - Len(wfifo \o ring)
    <3>1. Len(wfifo \o ring) = Len(wfifo) + Len(ring)
      BY <1>0, ConcatProperties
    <3> QED BY <1>0, <2>2, <3>1, Sizes
  <2>8. TxChannel!Accept
    <3>1. wfifo' \o RingSeq(tx_buf', tx_out', tx_in') = (wfifo \o ring) \o s
      BY <2>1, <2>5, <2>6
    <3>2. \E m \in 1 .. (BUF_LEN - 1 + FifoDepth) - Len(wfifo \o ring) :
             /\ accepted' = accepted + m
             /\ (wfifo \o ring)' = (wfifo \o ring) \o [j \in 1 .. m |-> accepted + j]
             /\ UNCHANGED hostGot
      <4> WITNESS n \in 1 .. (BUF_LEN - 1 + FifoDepth) - Len(wfifo \o ring)
      <4> QED BY <2>1, <3>1 DEF ring, s
    <3> QED BY <3>2, Zenon DEF TxChannel!Accept, ring
  <2> QED BY <2>8 DEF TxChannel!Next
<1>4. CASE IsrTxByte
  <2>1. /\ space > 0 /\ tx_out # tx_in /\ tx_out' = Inc(tx_out)
        /\ wfifo' = IF Len(wfifo) < FifoDepth THEN Append(wfifo, tx_buf[tx_out]) ELSE wfifo
        /\ UNCHANGED <<tx_in, tx_buf, accepted, hostGot>>
    BY <1>4 DEF IsrTxByte, WriteData, fgVars, hostVars
  <2> DEFINE s == <<tx_buf[tx_out]>>
             rest == RingSeq(tx_buf, tx_out', tx_in)
  <2>2. tx_buf[tx_out] \in Nat /\ s \in Seq(Nat) /\ Len(s) = 1
    BY RingTypes
  <2>3. wfifo' = wfifo \o s
    <3>1. Len(wfifo) < FifoDepth
      BY <1>0, <2>1, CopyTypes, Sizes DEF TxSpace
    <3> QED BY <1>0, <2>1, <2>2, <3>1, AppendIsConcat
  <2>4. tx_out' = At(tx_out + 1) /\ tx_out' \in Slots
    BY <2>1, IncIsAt, RingTypes
  <2>5. ring = s \o rest
    <3>1. tx_out + 1 <= BUF_LEN /\ 1 <= RingLen(tx_out, tx_in)
      <4>1. RingLen(tx_out, tx_in) >= 1 /\ RingLen(tx_out, tx_in) \in Nat
        BY <2>1, IncShortens, RingTypes, RingLenRange
      <4> QED BY <4>1, IndexTypes, Sizes
    <3>2. \A k \in 1 .. Len(s) : s[k] = tx_buf[tx_out + k - 1]
      <4>1. tx_out + 1 - 1 = tx_out
        BY IndexTypes
      <4> QED BY <2>2, <4>1
    <3> HIDE DEF s
    <3>3. ring = s \o RingSeq(tx_buf, At(tx_out + Len(s)), tx_in)
      BY <2>2, <3>1, <3>2, RingTakes, RingTypes
    <3> QED BY <2>2, <2>4, <3>3
  <2>6. rest \in Seq(Nat)
    BY <2>4, RingSeqIs, RingTypes
  <2> HIDE DEF ring, s, rest
  <2>7. wfifo' \o rest = wfifo \o ring
    BY <1>0, <2>2, <2>3, <2>5, <2>6, BytesAssociate
  <2> QED BY <2>1, <2>7 DEF TxChannel!chanVars, ring, rest
<1>5. CASE LinkStep(HostTake)
  <2>1. /\ wfifo # <<>> /\ wfifo' = Tail(wfifo) /\ hostGot' = Append(hostGot, Head(wfifo))
        /\ UNCHANGED <<tx_in, tx_out, tx_buf, accepted>>
    BY <1>5 DEF LinkStep, HostTake, fgVars, tx
  <2> DEFINE s == <<Head(wfifo)>>
             rest == Tail(wfifo) \o ring
  <2>2. /\ s \in Seq(Nat) /\ Len(s) = 1 /\ Tail(wfifo) \in Seq(Nat)
        /\ wfifo = s \o Tail(wfifo)
    BY <1>0, <2>1
  <2> HIDE DEF ring
  <2>3. rest \in Seq(Nat)
    BY <1>0, <2>2, ConcatProperties
  <2>4. wfifo \o ring = s \o rest
    <3> HIDE DEF s
    <3>1. (s \o Tail(wfifo)) \o ring = s \o rest
      BY <1>0, <2>2, BytesAssociate
    <3> QED BY <2>2, <3>1
  <2>5. hostGot' = hostGot \o s
    BY <1>0, <2>1, StreamTypes, AppendIsConcat, HeadOfBytes
  <2> HIDE DEF s, rest
  <2>6. /\ Len(wfifo \o ring) = 1 + Len(rest)
        /\ SubSeq(wfifo \o ring, 1, 1) = s
        /\ SubSeq(wfifo \o ring, 1 + 1, Len(wfifo \o ring)) = rest
    BY <2>2, <2>3, <2>4, FrontPart
  <2>7. 1 \in 1 .. Len(wfifo \o ring)
    BY <2>3, <2>6
  <2>8. TxChannel!Deliver
    BY <2>1, <2>5, <2>6, <2>7 DEF TxChannel!Deliver, ring, rest
  <2> QED BY <2>8 DEF TxChannel!Next
<1>6. CASE /\ ~WriteLoad /\ ~WriteCopy /\ ~WritePublish /\ ~IsrTop /\ ~IsrTxByte
           /\ ~LinkStep(HostTake)
  BY <1>6, OthersLeaveTx DEF TxChannel!chanVars
<1> QED
  BY <1>1, <1>2, <1>3, <1>4, <1>5, <1>6

(* Every step is a step of the receive channel, or none: the host accepts a *)
(* byte, read's publishing delivers what it copied, and the interrupt       *)
(* routine moves a byte from the FIFO to the ring.                          *)
LEMMA StepRxChannel ==
    IInv /\ RxCopied /\ [Next]_vars => [RxChannel!Next]_(RxChannel!chanVars)
<1> SUFFICES ASSUME IInv, RxCopied, [Next]_vars
             PROVE  RxChannel!Next \/ UNCHANGED RxChannel!chanVars
  OBVIOUS
<1> DEFINE ring == RingSeq(rx_buf, rx_out, rx_in)
<1>0. /\ ring \in Seq(Nat) /\ Len(ring) = RingLen(rx_out, rx_in)
      /\ RingLen(rx_out, rx_in) \in Nat /\ RingLen(rx_out, rx_in) < BUF_LEN
      /\ rfifo \in Seq(Nat) /\ Len(rfifo) <= FifoDepth /\ Len(rfifo) \in Nat
  <2>1. /\ ring \in Seq(Nat) /\ Len(ring) = RingLen(rx_out, rx_in)
        /\ RingLen(rx_out, rx_in) \in Nat /\ RingLen(rx_out, rx_in) < BUF_LEN
    BY RingTypes, RingSeqIs, RingLenRange
  <2>2. rfifo \in Seq(Nat) /\ Len(rfifo) <= FifoDepth /\ Len(rfifo) \in Nat
    BY StreamTypes
  <2> QED BY <2>1, <2>2
<1>1. CASE ReadLoad \/ ReadCopy
  BY <1>1 DEF ReadLoad, ReadCopy, coreVars, rx, RxChannel!chanVars
<1>2. CASE ReadPublish
  <2>1. /\ fpc = "rCopy" /\ i = n /\ app' = app \o tmp
        /\ rx_out' = (out + n) % BUF_LEN
        /\ UNCHANGED <<rx_buf, rx_in, rfifo, hostSent>>
    BY <1>2 DEF ReadPublish, Foreground, coreVars
  <2>2. /\ out = rx_out /\ n <= RingLen(rx_out, rx_in) /\ Len(tmp) = n /\ n > 0
        /\ \A j \in 1 .. n : tmp[j] = rx_buf[rx_out + j - 1]
        /\ rx_out + n <= BUF_LEN /\ n \in Nat
    BY <2>1, CopyTypes DEF RxCopied
  <2>3. rx_out' = At(rx_out + Len(tmp)) /\ rx_out' \in Slots
    <3>1. rx_out + n \in Nat /\ rx_out + n < 2 * BUF_LEN
      BY <2>2, IndexTypes, Sizes
    <3> QED BY <2>1, <2>2, <3>1, ModWrap
  <2> DEFINE rest == RingSeq(rx_buf, rx_out', rx_in)
  <2>. tmp \in Seq(Nat)
    BY StreamTypes
  <2>4. ring = tmp \o rest
    <3>1. /\ rx_out + Len(tmp) <= BUF_LEN /\ Len(tmp) <= RingLen(rx_out, rx_in)
          /\ \A k \in 1 .. Len(tmp) : tmp[k] = rx_buf[rx_out + k - 1]
      BY <2>2
    <3> QED BY <2>3, <3>1, RingTakes, RingTypes
  <2>5. rest \in Seq(Nat)
    BY <2>3, RingSeqIs, RingTypes
  <2> HIDE DEF ring, rest
  <2>6. ring \o rfifo = tmp \o (rest \o rfifo) /\ rest \o rfifo \in Seq(Nat)
    <3>1. (tmp \o rest) \o rfifo = tmp \o (rest \o rfifo) /\ rest \o rfifo \in Seq(Nat)
      BY <1>0, <2>5, BytesAssociate, ConcatProperties
    <3> QED BY <2>4, <3>1
  <2>7. /\ Len(ring \o rfifo) = n + Len(rest \o rfifo)
        /\ SubSeq(ring \o rfifo, 1, n) = tmp
        /\ SubSeq(ring \o rfifo, n + 1, Len(ring \o rfifo)) = rest \o rfifo
    <3>1. /\ Len(tmp \o (rest \o rfifo)) = Len(tmp) + Len(rest \o rfifo)
          /\ SubSeq(tmp \o (rest \o rfifo), 1, Len(tmp)) = tmp
          /\ SubSeq(tmp \o (rest \o rfifo), Len(tmp) + 1, Len(tmp \o (rest \o rfifo)))
                = rest \o rfifo
      BY <2>6, FrontPart
    <3> QED BY <2>2, <2>6, <3>1
  <2>8. n \in 1 .. Len(ring \o rfifo)
    <3>1. Len(rest \o rfifo) \in Nat
      BY <2>6
    <3> QED BY <2>2, <2>7, <3>1
  <2>9. RxChannel!Deliver
    <3>1. \E m \in 1 .. Len(ring \o rfifo) :
             /\ app' = app \o SubSeq(ring \o rfifo, 1, m)
             /\ (ring \o rfifo)' = SubSeq(ring \o rfifo, m + 1, Len(ring \o rfifo))
             /\ UNCHANGED hostSent
      <4> WITNESS n \in 1 .. Len(ring \o rfifo)
      <4> QED BY <2>1, <2>7 DEF ring, rest
    <3> QED BY <3>1, Zenon DEF RxChannel!Deliver, ring
  <2> QED BY <2>9 DEF RxChannel!Next
<1>3. CASE IsrRxByte
  <2>1. /\ Inc(rx_in) # rx_out /\ rfifo # <<>> /\ rfifo' = Tail(rfifo)
        /\ rx_buf' = [rx_buf EXCEPT ![rx_in] = Head(rfifo)]
        /\ rx_in' = Inc(rx_in)
        /\ UNCHANGED <<rx_out, hostSent, app>>
    BY <1>3 DEF IsrRxByte, ReadData, fgVars, hostVars
  <2> DEFINE s == <<Head(rfifo)>>
             more == RingSeq(rx_buf', rx_out, rx_in')
  <2>2. /\ s \in Seq(Nat) /\ Len(s) = 1 /\ s[1] = Head(rfifo)
        /\ Tail(rfifo) \in Seq(Nat) /\ rfifo = s \o Tail(rfifo)
    BY <1>0, <2>1
  <2>3. /\ rx_buf' \in [Slots -> Nat] /\ rx_in' \in Slots
        /\ rx_in' = At(rx_in + 1)
    <3>1. Head(rfifo) \in Nat
      BY <1>0, <2>1, HeadOfBytes
    <3> QED BY <2>1, <3>1, RingTypes, IncIsAt
  <2>4. more = ring \o s
    <3>1. RingLen(rx_out, rx_in) + 1 <= BUF_LEN - 1 /\ rx_in + 1 <= BUF_LEN
      BY <2>1, IncLengthens, RingTypes, IndexTypes, Sizes
    <3>2. ASSUME NEW k \in 1 .. RingLen(rx_out, rx_in)
          PROVE  rx_buf'[At(rx_out + k - 1)] = rx_buf[At(rx_out + k - 1)]
      <4>2. At(rx_out + k - 1) # rx_in
        BY RingEndIsFree, RingTypes
      <4>3. At(rx_out + k - 1) \in Slots
        BY RingSeqIs, RingTypes
      <4> QED BY <2>1, <4>2, <4>3, RingTypes
    <3>3. \A j \in 1 .. Len(s) : rx_buf'[rx_in + j - 1] = s[j]
      <4>1. rx_in + 1 - 1 = rx_in /\ rx_in \in Slots
        BY IndexTypes, RingTypes
      <4>2. rx_buf'[rx_in] = Head(rfifo)
        BY <2>1, <4>1, RingTypes
      <4> HIDE DEF s
      <4> QED BY <2>2, <4>1, <4>2
    <3> HIDE DEF s
    <3>4. RingSeq(rx_buf', rx_out, At(rx_in + Len(s))) = ring \o s
      <4>1. rx_in + Len(s) <= BUF_LEN /\ RingLen(rx_out, rx_in) + Len(s) <= BUF_LEN - 1
        BY <2>2, <3>1
      <4>2. /\ rx_buf \in [Slots -> Nat] /\ rx_buf' \in [Slots -> Nat]
            /\ rx_out \in Slots /\ rx_in \in Slots /\ s \in Seq(Nat)
        BY <2>2, <2>3, RingTypes
      <4>3. \A k \in 1 .. RingLen(rx_out, rx_in) :
               rx_buf'[At(rx_out + k - 1)] = rx_buf[At(rx_out + k - 1)]
        BY <3>2
      <4> QED BY <3>3, <4>1, <4>2, <4>3, RingAppends
    <3> QED BY <2>2, <2>3, <3>4
  <2> HIDE DEF ring, s, more
  <2>5. more \o rfifo' = ring \o rfifo
    <3>1. (ring \o s) \o Tail(rfifo) = ring \o (s \o Tail(rfifo))
      BY <1>0, <2>2, BytesAssociate
    <3> QED BY <2>1, <2>2, <2>4, <3>1
  <2> QED BY <2>1, <2>5 DEF RxChannel!chanVars, ring, more
<1>4. CASE LinkStep(HostPut)
  <2>1. /\ Len(rfifo) < FifoDepth /\ rfifo' = Append(rfifo, hostSent + 1)
        /\ hostSent' = hostSent + 1
        /\ UNCHANGED <<rx_buf, rx_out, rx_in, app>>
    BY <1>4 DEF LinkStep, HostPut, rx, fgVars
  <2> DEFINE s == [k \in 1 .. 1 |-> hostSent + k]
  <2>2. s \in Seq(Nat) /\ s = <<hostSent + 1>> /\ hostSent + 1 \in Nat
    BY StreamTypes
  <2>3. rfifo' = rfifo \o s
    BY <1>0, <2>1, <2>2, AppendIsConcat
  <2> HIDE DEF ring, s
  <2>4. ring \o rfifo' = (ring \o rfifo) \o s
    <3>1. (ring \o rfifo) \o s = ring \o (rfifo \o s)
      BY <1>0, <2>2, BytesAssociate
    <3> QED BY <2>3, <3>1
  <2>5. 1 \in 1 .. (BUF_LEN - 1 + FifoDepth) - Len(ring \o rfifo)
    <3>1. Len(ring \o rfifo) = Len(ring) + Len(rfifo)
      BY <1>0, ConcatProperties
    <3> QED BY <1>0, <2>1, <3>1, Sizes
  <2>6. RxChannel!Accept
    <3>1. \E m \in 1 .. (BUF_LEN - 1 + FifoDepth) - Len(ring \o rfifo) :
             /\ hostSent' = hostSent + m
             /\ (ring \o rfifo)' = (ring \o rfifo) \o [j \in 1 .. m |-> hostSent + j]
             /\ UNCHANGED app
      <4> WITNESS 1 \in 1 .. (BUF_LEN - 1 + FifoDepth) - Len(ring \o rfifo)
      <4> QED BY <2>1, <2>4 DEF ring, s
    <3> QED BY <3>1, Zenon DEF RxChannel!Accept, ring
  <2> QED BY <2>6 DEF RxChannel!Next
<1>5. CASE ~ReadLoad /\ ~ReadCopy /\ ~ReadPublish /\ ~IsrRxByte /\ ~LinkStep(HostPut)
  BY <1>5, OthersLeaveRx DEF RxChannel!chanVars
<1> QED
  BY <1>1, <1>2, <1>3, <1>4, <1>5

LEMMA EmptyRing ==
    ASSUME NEW buf \in [Slots -> Nat]
    PROVE  RingSeq(buf, 0, 0) = <<>>
<1>1. 0 \in Slots /\ RingLen(0, 0) = 0
  BY Sizes DEF Slots, RingLen
<1>2. RingSeq(buf, 0, 0) \in Seq(Nat) /\ Len(RingSeq(buf, 0, 0)) = 0
  BY <1>1, RingSeqIs
<1> QED BY <1>2, EmptySeq

LEMMA InitChannels ==
    Init => TxSpace /\ TxCopied /\ RxCopied /\ TxChannel!Init /\ RxChannel!Init
<1> SUFFICES ASSUME Init
             PROVE  TxSpace /\ TxCopied /\ RxCopied /\ TxChannel!Init /\ RxChannel!Init
  OBVIOUS
<1>1. /\ wfifo = <<>> /\ rfifo = <<>> /\ hostSent = 0 /\ hostGot = <<>> /\ space = 0
      /\ tx_in = 0 /\ tx_out = 0 /\ rx_in = 0 /\ rx_out = 0 /\ fpc = "init"
      /\ accepted = 0 /\ tmp = <<>> /\ app = <<>>
  BY DEF Init, CoreInit
<1>2. tx_buf \in [Slots -> Nat] /\ rx_buf \in [Slots -> Nat]
  BY DEF Init
<1>3. TxSpace /\ TxCopied /\ RxCopied
  BY <1>1, Sizes DEF TxSpace, TxCopied, RxCopied
<1>4. RingSeq(tx_buf, tx_out, tx_in) = <<>> /\ RingSeq(rx_buf, rx_out, rx_in) = <<>>
  BY <1>1, <1>2, EmptyRing
<1>5. TxChannel!Init /\ RxChannel!Init
  BY <1>1, <1>4 DEF TxChannel!Init, RxChannel!Init
<1> QED BY <1>3, <1>5

---------------------------------------------------------------------------
(* Spec => the ranges of all variables. *)
THEOREM TypeCorrect == Spec => []TypeOK
<1>1. IInv => TypeOK
  BY DEF IInv
<1> QED BY <1>1, InitIInv, StepIInv, PTL DEF Spec

(* A byte in the transmit ring is never left without a write interrupt,     *)
(* whatever the interleaving of write, the interrupt routine, the alarm and *)
(* the host.                                                                *)
THEOREM TxAlwaysArmed == Spec => []TxArmed
<1>1. IInv => TxArmed
  BY DEF IInv
<1> QED BY <1>1, InitIInv, StepIInv, PTL DEF Spec

(* The receive interrupt is never left off with an empty ring.              *)
THEOREM RxAlwaysArmed == Spec => []RxArmed
<1>1. IInv => RxArmed
  BY DEF IInv
<1> QED BY <1>1, InitIInv, StepIInv, PTL DEF Spec

(* All three writers of the control register, the foreground, the interrupt *)
(* routine and the alarm, start from a true copy of its enable bits.        *)
THEOREM ShadowTrue == Spec => []ShadowInSync
<1>1. IInv => ShadowInSync
  BY DEF IInv
<1> QED BY <1>1, InitIInv, StepIInv, PTL DEF Spec

(* The timeout tells whether its alarm runs, and "no timeout" is never       *)
(* reached, for any INT_MAX and any sequence of ioctl calls.                *)
THEOREM TimeoutIsKnown == Spec => []TimeoutKnown
<1>1. TInv => TimeoutKnown
  BY DEF TInv
<1> QED BY <1>1, InitTInv, StepTInv, PTL DEF Spec

(* For every buffer length and FIFO depth, whatever the interleaving: the   *)
(* bytes that write takes reach the host once each and in order, of which   *)
(* never more are under way than ring and FIFO hold.                        *)
THEOREM TransmitImplementsChannel == Spec => TxIsAStream
<1>1. Init => IInv /\ TxSpace /\ TxCopied /\ TxChannel!Init
  BY InitIInv, InitChannels
<1>2. IInv /\ TxSpace /\ TxCopied /\ [Next]_vars => IInv' /\ TxSpace' /\ TxCopied'
  BY StepIInv, StepTx
<1> QED BY <1>1, <1>2, StepTxChannel, PTL DEF Spec, TxIsAStream, TxChannel!Spec

(* And the bytes the host sends reach the callers of read once each and in  *)
(* order: a full ring stops the FIFO, and a full FIFO the host.             *)
THEOREM ReceiveImplementsChannel == Spec => RxIsAStream
<1>1. Init => IInv /\ RxCopied /\ RxChannel!Init
  BY InitIInv, InitChannels
<1>2. IInv /\ RxCopied /\ [Next]_vars => IInv' /\ RxCopied'
  BY StepIInv, StepRx
<1> QED BY <1>1, <1>2, StepRxChannel, PTL DEF Spec, RxIsAStream, RxChannel!Spec

---------------------------------------------------------------------------
(* Nothing is lost, repeated or overtaken between a bytes taken in and the  *)
(* bytes d that came out: t holds exactly those in between, in order, and   *)
(* no more than c of them.                                                 *)
Whole(a, t, d, c) ==
    /\ a \in Nat /\ t \in Seq(Nat) /\ d \in Seq(Nat)
    /\ Len(d) + Len(t) = a /\ Len(t) <= c
    /\ \A k \in 1 .. Len(d) : d[k] = k
    /\ \A k \in 1 .. Len(t) : t[k] = Len(d) + k

TxWhole == Whole(accepted, wfifo \o RingSeq(tx_buf, tx_out, tx_in), hostGot,
                 BUF_LEN - 1 + FifoDepth)
RxWhole == Whole(hostSent, RingSeq(rx_buf, rx_out, rx_in) \o rfifo, app,
                 BUF_LEN - 1 + FifoDepth)

(* Two runs of bytes put together, position by position. *)
LEMMA Joined ==
    ASSUME NEW s \in Seq(Nat), NEW u \in Seq(Nat), NEW l \in Nat, NEW m \in Nat,
           l = Len(s), m = Len(u)
    PROVE  /\ s \o u \in Seq(Nat) /\ Len(s \o u) = l + m
           /\ \A k \in 1 .. l + m : (s \o u)[k] = IF k <= l THEN s[k] ELSE u[k - l]
BY ConcatProperties

LEMMA WholeAccepts ==
    ASSUME NEW a, NEW t, NEW d, NEW c \in Nat, Whole(a, t, d, c), NEW m \in 1 .. c - Len(t)
    PROVE  Whole(a + m, t \o [j \in 1 .. m |-> a + j], d, c)
<1> DEFINE s == [j \in 1 .. m |-> a + j]
<1>1. /\ a \in Nat /\ t \in Seq(Nat) /\ d \in Seq(Nat) /\ m \in Nat
      /\ Len(t) \in Nat /\ Len(d) \in Nat /\ Len(d) + Len(t) = a /\ Len(t) + m <= c
  BY DEF Whole
<1>2. s \in Seq(Nat) /\ Len(s) = m /\ \A j \in 1 .. m : s[j] = a + j
  BY <1>1
<1> HIDE DEF s
<1>3. /\ t \o s \in Seq(Nat) /\ Len(t \o s) = Len(t) + m
      /\ \A k \in 1 .. Len(t) + m : (t \o s)[k] = IF k <= Len(t) THEN t[k] ELSE s[k - Len(t)]
  BY <1>1, <1>2, Joined
<1>4. \A k \in 1 .. Len(t) + m : (t \o s)[k] = Len(d) + k
  <2> TAKE k \in 1 .. Len(t) + m
  <2>1. CASE k <= Len(t)
    BY <2>1, <1>1, <1>3 DEF Whole
  <2>2. CASE k > Len(t)
    <3>1. k - Len(t) \in 1 .. m
      BY <2>2, <1>1
    <3>2. (t \o s)[k] = a + (k - Len(t))
      BY <2>2, <3>1, <1>1, <1>2, <1>3
    <3> QED BY <3>2, <1>1
  <2>3. k <= Len(t) \/ k > Len(t)
    BY <1>1
  <2> QED BY <2>1, <2>2, <2>3, Zenon
<1>5. Whole(a + m, t \o s, d, c)
  <2>1. a + m \in Nat /\ Len(d) + (Len(t) + m) = a + m
    BY <1>1
  <2>2. \A k \in 1 .. Len(d) : d[k] = k
    BY DEF Whole
  <2> QED BY <2>1, <2>2, <1>1, <1>3, <1>4, Zenon DEF Whole
<1> QED BY <1>5 DEF s

LEMMA WholeDelivers ==
    ASSUME NEW a, NEW t, NEW d, NEW c \in Nat, Whole(a, t, d, c), NEW m \in 1 .. Len(t)
    PROVE  Whole(a, SubSeq(t, m + 1, Len(t)), d \o SubSeq(t, 1, m), c)
<1> DEFINE f == SubSeq(t, 1, m)
           r == SubSeq(t, m + 1, Len(t))
<1>1. /\ a \in Nat /\ t \in Seq(Nat) /\ d \in Seq(Nat) /\ m \in Nat /\ m <= Len(t)
      /\ Len(t) \in Nat /\ Len(d) \in Nat /\ Len(d) + Len(t) = a /\ Len(t) <= c
  BY DEF Whole
<1>2. f \in Seq(Nat) /\ Len(f) = m /\ \A k \in 1 .. m : f[k] = t[k]
  BY <1>1
<1>3. r \in Seq(Nat) /\ Len(r) = Len(t) - m /\ \A k \in 1 .. Len(t) - m : r[k] = t[m + k]
  <2>1. m + 1 \in Int /\ Len(t) \in Int /\ \A k \in m + 1 .. Len(t) : t[k] \in Nat
    BY <1>1
  <2>2. /\ r \in Seq(Nat)
        /\ Len(r) = IF m + 1 <= Len(t) THEN Len(t) - (m + 1) + 1 ELSE 0
        /\ \A k \in 1 .. Len(t) - (m + 1) + 1 : r[k] = t[(m + 1) + k - 1]
    BY <2>1, SubSeqProperties
  <2>3. /\ Len(t) - m = IF m + 1 <= Len(t) THEN Len(t) - (m + 1) + 1 ELSE 0
        /\ Len(t) - m = Len(t) - (m + 1) + 1
    BY <1>1
  <2>4. ASSUME NEW k \in 1 .. Len(t) - m PROVE (m + 1) + k - 1 = m + k
    BY <1>1
  <2> HIDE DEF r
  <2> QED BY <2>2, <2>3, <2>4
<1> HIDE DEF f, r
<1>4. /\ d \o f \in Seq(Nat) /\ Len(d \o f) = Len(d) + m
      /\ \A k \in 1 .. Len(d) + m : (d \o f)[k] = IF k <= Len(d) THEN d[k] ELSE f[k - Len(d)]
  BY <1>1, <1>2, Joined
<1>5. \A k \in 1 .. Len(t) : t[k] = Len(d) + k
  BY DEF Whole
<1>6. \A k \in 1 .. Len(d) + m : (d \o f)[k] = k
  <2> TAKE k \in 1 .. Len(d) + m
  <2>1. CASE k <= Len(d)
    BY <2>1, <1>1, <1>4 DEF Whole
  <2>2. CASE k > Len(d)
    <3>1. k - Len(d) \in 1 .. m /\ k - Len(d) \in 1 .. Len(t)
      BY <2>2, <1>1
    <3>2. (d \o f)[k] = t[k - Len(d)]
      BY <2>2, <3>1, <1>1, <1>2, <1>4
    <3> QED BY <3>1, <3>2, <1>1, <1>5
  <2>3. k <= Len(d) \/ k > Len(d)
    BY <1>1
  <2> QED BY <2>1, <2>2, <2>3, Zenon
<1>7. \A k \in 1 .. Len(t) - m : r[k] = (Len(d) + m) + k
  <2> TAKE k \in 1 .. Len(t) - m
  <2>1. m + k \in 1 .. Len(t)
    BY <1>1
  <2> QED BY <2>1, <1>1, <1>3, <1>5
<1>8. Whole(a, r, d \o f, c)
  <2>1. (Len(d) + m) + (Len(t) - m) = a /\ Len(t) - m <= c
    BY <1>1
  <2> QED BY <2>1, <1>1, <1>3, <1>4, <1>6, <1>7, Zenon DEF Whole
<1> QED BY <1>8 DEF f, r

LEMMA TxWholeKept == TxWhole /\ [TxChannel!Next]_(TxChannel!chanVars) => TxWhole'
<1> SUFFICES ASSUME TxWhole, TxChannel!Next \/ UNCHANGED TxChannel!chanVars
             PROVE  TxWhole'
  OBVIOUS
<1> DEFINE t == wfifo \o RingSeq(tx_buf, tx_out, tx_in)
           c == BUF_LEN - 1 + FifoDepth
<1>0. c \in Nat /\ Whole(accepted, t, hostGot, c)
  BY Sizes DEF TxWhole
<1>1. CASE TxChannel!Accept
  <2>1. PICK m \in 1 .. c - Len(t) :
           /\ accepted' = accepted + m /\ hostGot' = hostGot
           /\ t' = t \o [j \in 1 .. m |-> accepted + j]
    BY <1>1, Zenon DEF TxChannel!Accept
  <2> HIDE DEF t, c
  <2>2. Whole(accepted + m, t \o [j \in 1 .. m |-> accepted + j], hostGot, c)
    BY <1>0, WholeAccepts
  <2>3. Whole(accepted', t', hostGot', c)
    BY <2>1, <2>2
  <2> QED BY <2>3 DEF TxWhole, t, c
<1>2. CASE TxChannel!Deliver
  <2>1. PICK m \in 1 .. Len(t) :
           /\ accepted' = accepted /\ hostGot' = hostGot \o SubSeq(t, 1, m)
           /\ t' = SubSeq(t, m + 1, Len(t))
    BY <1>2, Zenon DEF TxChannel!Deliver
  <2> HIDE DEF t, c
  <2>2. Whole(accepted, SubSeq(t, m + 1, Len(t)), hostGot \o SubSeq(t, 1, m), c)
    BY <1>0, WholeDelivers
  <2>3. Whole(accepted', t', hostGot', c)
    BY <2>1, <2>2
  <2> QED BY <2>3 DEF TxWhole, t, c
<1>3. CASE UNCHANGED TxChannel!chanVars
  BY <1>3 DEF TxChannel!chanVars, TxWhole, Whole
<1> QED BY <1>1, <1>2, <1>3 DEF TxChannel!Next

LEMMA RxWholeKept == RxWhole /\ [RxChannel!Next]_(RxChannel!chanVars) => RxWhole'
<1> SUFFICES ASSUME RxWhole, RxChannel!Next \/ UNCHANGED RxChannel!chanVars
             PROVE  RxWhole'
  OBVIOUS
<1> DEFINE t == RingSeq(rx_buf, rx_out, rx_in) \o rfifo
           c == BUF_LEN - 1 + FifoDepth
<1>0. c \in Nat /\ Whole(hostSent, t, app, c)
  BY Sizes DEF RxWhole
<1>1. CASE RxChannel!Accept
  <2>1. PICK m \in 1 .. c - Len(t) :
           /\ hostSent' = hostSent + m /\ app' = app
           /\ t' = t \o [j \in 1 .. m |-> hostSent + j]
    BY <1>1, Zenon DEF RxChannel!Accept
  <2> HIDE DEF t, c
  <2>2. Whole(hostSent + m, t \o [j \in 1 .. m |-> hostSent + j], app, c)
    BY <1>0, WholeAccepts
  <2>3. Whole(hostSent', t', app', c)
    BY <2>1, <2>2
  <2> QED BY <2>3 DEF RxWhole, t, c
<1>2. CASE RxChannel!Deliver
  <2>1. PICK m \in 1 .. Len(t) :
           /\ hostSent' = hostSent /\ app' = app \o SubSeq(t, 1, m)
           /\ t' = SubSeq(t, m + 1, Len(t))
    BY <1>2, Zenon DEF RxChannel!Deliver
  <2> HIDE DEF t, c
  <2>2. Whole(hostSent, SubSeq(t, m + 1, Len(t)), app \o SubSeq(t, 1, m), c)
    BY <1>0, WholeDelivers
  <2>3. Whole(hostSent', t', app', c)
    BY <2>1, <2>2
  <2> QED BY <2>3 DEF RxWhole, t, c
<1>3. CASE UNCHANGED RxChannel!chanVars
  BY <1>3 DEF RxChannel!chanVars, RxWhole, Whole
<1> QED BY <1>1, <1>2, <1>3 DEF RxChannel!Next

(* The bytes that write accepted and the host has not read are in the FIFO  *)
(* and, behind them, in the ring, and what the host has read is the first   *)
(* that write was given: nothing is lost, repeated or out of order.         *)
THEOREM NothingLostToTheHost == Spec => []TxWhole
<1>1. TxChannel!Init => TxWhole
  BY Sizes DEF TxChannel!Init, TxWhole, Whole
<1> QED BY <1>1, TxWholeKept, TransmitImplementsChannel, PTL DEF TxIsAStream, TxChannel!Spec

(* The same from the host to the callers of read: what they have not got    *)
(* is in the ring and, behind it, in the FIFO.                              *)
THEOREM NothingLostFromTheHost == Spec => []RxWhole
<1>1. RxChannel!Init => RxWhole
  BY Sizes DEF RxChannel!Init, RxWhole, Whole
<1> QED BY <1>1, RxWholeKept, ReceiveImplementsChannel, PTL DEF RxIsAStream, RxChannel!Spec
=============================================================================
