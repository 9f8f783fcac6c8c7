------------------------- MODULE SerialDriverProofs -------------------------
(***************************************************************************)
(* What holds of SerialDriver for every ring size, water mark and peer.    *)
(* The inductive invariant is TypeOK /\ Inv, with FlowInv under Sizing and *)
(* ReturnInv when LD A,I can be trusted.  Each part of it speaks of few    *)
(* variables, so it is proved from the steps that write them; a frame      *)
(* lemma says that no other step does.                                     *)
(***************************************************************************)
EXTENDS SerialDriver, TLAPS

Slot(N, t, c) == (t + c) % N

\* Slot t + c of a ring of N slots, for an offset of at most N, wraps once.
LEMMA Wrap ==
  \A N \in Nat \ {0} : \A t \in 0 .. N - 1, c \in 0 .. N :
     Slot(N, t, c) = IF t + c < N THEN t + c ELSE t + c - N
BY DEF Slot

\* It is inside the ring,
LEMMA SlotInside ==
  \A N \in Nat \ {0} : \A t \in 0 .. N - 1, c \in 0 .. N :
     Slot(N, t, c) \in 0 .. N - 1
BY Wrap

\* different offsets below N give different slots,
LEMMA SlotDistinct ==
  \A N \in Nat \ {0} : \A t \in 0 .. N - 1, c, d \in 0 .. N - 1 :
     Slot(N, t, c) = Slot(N, t, d) => c = d
<1> TAKE N \in Nat \ {0}
<1> TAKE t \in 0 .. N - 1, c, d \in 0 .. N - 1
<1>1. Slot(N, t, c) = IF t + c < N THEN t + c ELSE t + c - N
  BY Wrap
<1>2. Slot(N, t, d) = IF t + d < N THEN t + d ELSE t + d - N
  BY Wrap
<1> QED BY <1>1, <1>2

\* and advancing the slot or the base adds one to the offset.
LEMMA SlotNext ==
  \A N \in Nat \ {0} : \A t, c \in 0 .. N - 1 :
     /\ Slot(N, Slot(N, t, c), 1) = Slot(N, t, c + 1)
     /\ Slot(N, Slot(N, t, 1), c) = Slot(N, t, c + 1)
<1> TAKE N \in Nat \ {0}
<1> TAKE t, c \in 0 .. N - 1
<1>1. Slot(N, t, c) = IF t + c < N THEN t + c ELSE t + c - N
  BY Wrap
<1>2. Slot(N, t, 1) = IF t + 1 < N THEN t + 1 ELSE t + 1 - N
  BY Wrap
<1>3. Slot(N, t, c + 1) = IF t + (c + 1) < N THEN t + (c + 1) ELSE t + (c + 1) - N
  BY Wrap
<1>4. Slot(N, t, c) \in 0..N-1 /\ Slot(N, t, 1) \in 0..N-1 
  BY <1>1, <1>2
<1>5. Slot(N, Slot(N, t, c), 1) = Slot(N, t, c + 1)
  BY Wrap, <1>1, <1>3, <1>4
<1>6. Slot(N, Slot(N, t, 1), c) = Slot(N, t, c + 1)
  BY Wrap, <1>2, <1>3, <1>4
<1> QED BY <1>5, <1>6
-----------------------------------------------------------------------------
(* Frames: which steps write what.                                         *)

Opening == {"start", "initDi", "initSetup"}
Sending == {"sendKick", "sendAdvance"}
OutKept == /\ UNCHANGED <<outVars, txVars, accepted, wire, Leaving>>
           /\ pc' \in Sending => pc \in Sending
           /\ pc' \in Opening => pc \in Opening
OutWriter == \/ InitSetup \/ SendStore \/ SendKick \/ SendAdvance \/ TxIsr
             \/ TxShift \/ CloseQuiet

\* Only these seven steps touch the transmit stream.
LEMMA OutFrame == [Next]_vars /\ ~OutWriter => OutKept
<1> USE DEF Step, Jump, Lock, Di, txVars, histVars, OutKept, Opening, Sending, Leaving
<1>1. ASSUME Open, ~InitSetup PROVE OutKept
  BY <1>1 DEF Open, InitRefused, InitLock, InitDi, InitUnlock, InitFail
<1>2. ASSUME Send, ~SendStore, ~SendKick, ~SendAdvance PROVE OutKept
  BY <1>2 DEF Send, SendLock, SendDi, SendRefuse, RefusalReturnsTo, SendBusy
<1>3. ASSUME Recv PROVE OutKept
  BY <1>3 DEF Recv, RecvLock, RecvDi, RecvEmpty, RecvTake, RecvKeepRts,
              RecvSelectWr5, RecvWriteWr5
<1>4. ASSUME Close, ~CloseQuiet PROVE OutKept
  BY <1>4 DEF Close, CloseLock, CloseDi
<1>5. ASSUME Unlock \/ BdosCall \/ BdosReturn PROVE OutKept
  BY <1>5 DEF Unlock, BdosCall, BdosReturn
<1>6. ASSUME RxIsr \/ RtsRelease \/ RxArrive PROVE OutKept
  BY <1>6 DEF RxIsr, RtsRelease, RxArrive, cpuVars
<1>7. ASSUME Closed \/ UNCHANGED vars PROVE OutKept
  BY <1>7 DEF Closed, vars, cpuVars
<1> HIDE DEF OutKept
<1> QED
  BY <1>1, <1>2, <1>3, <1>4, <1>5, <1>6, <1>7
  DEF Next, OutWriter, Sio, Isr, Open, Send, Close

-----------------------------------------------------------------------------
(* The transmit stream.                                                    *)

\* The slots of the transmit ring are inside it, distinct, and shift with the
\* tail.
LEMMA OutSlotType ==
  ASSUME OutType PROVE \A i \in 0 .. OutSize : OutSlot(i) \in 0 .. OutSize - 1
<1>1. \A i : OutSlot(i) = Slot(OutSize, outTail, i)
  BY DEF OutSlot, Slot
<1> QED BY <1>1, SlotInside, SizeAssumption DEF OutType

\* Two offsets below the size name two slots.
LEMMA OutSlotDistinct ==
  ASSUME OutType
  PROVE  \A i, j \in 0 .. OutSize - 1 : OutSlot(i) = OutSlot(j) => i = j
<1>1. \A i : OutSlot(i) = Slot(OutSize, outTail, i)
  BY DEF OutSlot, Slot
<1> QED BY <1>1, SlotDistinct, SizeAssumption DEF OutType

\* The slot after the one at an offset is at the next offset, and so is the slot
\* at that offset from the next tail.
LEMMA OutSlotNext ==
  ASSUME OutType
  PROVE  \A i \in 0 .. OutSize - 1 :
           /\ OutNext(OutSlot(i)) = OutSlot(i + 1)
           /\ (OutNext(outTail) + i) % OutSize = OutSlot(i + 1)
<1>1. \A i : /\ OutSlot(i) = Slot(OutSize, outTail, i)
             /\ OutNext(i) = Slot(OutSize, i, 1)
             /\ \A t : (t + i) % OutSize = Slot(OutSize, t, i)
  BY DEF OutSlot, OutNext, Slot
<1> QED BY <1>1, SlotNext, SizeAssumption DEF OutType

\* Offset 0 is the tail.
LEMMA OutSlotZero == ASSUME OutType PROVE OutSlot(0) = outTail
<1>1. OutSlot(0) = Slot(OutSize, outTail, 0)
  BY DEF OutSlot, Slot
<1> QED BY <1>1, Wrap, SizeAssumption DEF OutType

\* Advancing an index keeps it inside the transmit ring.
LEMMA OutNextType ==
  \A i \in 0 .. OutSize - 1 : OutNext(i) \in 0 .. OutSize - 1
<1>1. \A i : OutNext(i) = Slot(OutSize, i, 1)
  BY DEF OutNext, Slot
<1> QED BY <1>1, SlotInside, SizeAssumption

\* Every step keeps the transmit ring holding exactly the accepted bytes not yet
\* sent, in order.
LEMMA OutStep ==
  ASSUME ControlType, OutType, OutInv, MaskInv
  PROVE  [Next]_vars => OutType' /\ OutInv'
<1>1. ASSUME OutKept PROVE OutType' /\ OutInv'
  BY <1>1 DEF OutKept, OutType, OutInv, outVars, txVars, OutSlot, LastSent,
              Opening, Sending
<1>2. ASSUME InitSetup PROVE OutType' /\ OutInv'
  BY <1>2, SizeAssumption
  DEF InitSetup, Jump, OutType, OutInv, OutSlot, LastSent, Leaving, outVars,
      txVars, histVars
<1>3. ASSUME SendStore PROVE OutType' /\ OutInv'
  <2>1. /\ outBuf' = [outBuf EXCEPT ![outHead] = accepted + 1]
        /\ outTail' = outTail
        /\ outCount < OutSize /\ outCount' = outCount + 1
        /\ accepted' = accepted + 1 /\ wire' = wire
        /\ txHold' = txHold /\ txPend' = txPend
    BY <1>3 DEF SendStore, txVars
  <2>2. /\ Leaving = 0 /\ Leaving' = 0
        /\ pc' \notin Opening /\ outCount' # 0
    BY <1>3, <2>1 DEF SendStore, Jump, Leaving, Opening, OutType
  <2>3. \A i : OutSlot(i)' = OutSlot(i)
    BY <2>1 DEF OutSlot
  <2>4. /\ outHead = OutSlot(outCount) /\ outHead' = OutSlot(outCount + 1)
        /\ outHead' \in 0 .. OutSize - 1
    <3>1. outHead' = OutNext(outHead) /\ outHead \in 0 .. OutSize - 1
      BY <1>3 DEF SendStore, OutType
    <3>2. outHead = OutSlot(outCount)
      BY DEF OutInv
    <3>3. outCount \in 0 .. OutSize - 1
      BY <2>1, SizeAssumption DEF OutType
    <3> QED BY <3>1, <3>2, <3>3, OutSlotNext, OutNextType
  <2>5. OutType'
    <3>1. outHead' \in 0 .. OutSize - 1
      BY <2>4
    <3> QED BY <2>1, <3>1, SizeAssumption DEF OutType
  <2>6. /\ outBuf'[OutSlot(outCount)] = accepted + 1
        /\ \A i \in 0 .. outCount - 1 : outBuf'[OutSlot(i)] = outBuf[OutSlot(i)]
    <3>1. \A i \in 0 .. outCount - 1 : OutSlot(i) # OutSlot(outCount)
      BY <2>1, OutSlotDistinct, SizeAssumption DEF OutType
    <3>2. \A i \in 0 .. outCount : OutSlot(i) \in 0 .. OutSize - 1
      BY OutSlotType, SizeAssumption DEF OutType
    <3> QED BY <2>1, <2>4, <3>1, <3>2 DEF OutType
  <2>7. LastSent' = LastSent /\ LastSent \in Nat
    BY <2>1 DEF OutType, LastSent
  <2>8. OutInv'
    BY <2>1, <2>2, <2>3, <2>4, <2>5, <2>6, <2>7 DEF OutInv, OutType, Opening
  <2> QED BY <2>5, <2>8
<1>4. ASSUME SendKick PROVE OutType' /\ OutInv'
  <2>1. /\ outBuf' = outBuf /\ outHead' = outHead /\ outTail' = outTail
        /\ outCount' = outCount /\ accepted' = accepted /\ wire' = wire
        /\ txHold = 0 /\ txHold' = outBuf[outTail] /\ txPend' = FALSE
    BY <1>4 DEF SendKick, TransmitterEmpty, KickByte, outVars, histVars
  <2>2. /\ Leaving = 0 /\ Leaving' = 1 /\ outCount > 0 /\ pc' \notin Opening
    BY <1>4 DEF SendKick, Jump, Leaving, Opening, OutInv
  <2>3. \A i : OutSlot(i)' = OutSlot(i)
    BY <2>1 DEF OutSlot
  <2>4. LastSent = wire
    BY <2>1 DEF LastSent
  <2>5. txHold' = wire + 1
    BY <2>1, <2>2, <2>4, OutSlotZero DEF OutInv, OutType
  <2>6. OutType'
    BY <2>1, <2>5 DEF OutType
  <2>7. LastSent' = LastSent + 1 /\ LastSent \in Nat
    BY <2>1, <2>4, <2>5 DEF LastSent, OutType
  <2>8. OutInv'
    BY <2>1, <2>2, <2>3, <2>5, <2>6, <2>7 DEF OutInv, OutType, Opening
  <2> QED BY <2>6, <2>8
<1>5. ASSUME SendAdvance PROVE OutType' /\ OutInv'
  <2>1. /\ outBuf' = outBuf /\ outHead' = outHead
        /\ outCount' = outCount - 1
        /\ accepted' = accepted /\ wire' = wire
        /\ txHold' = txHold /\ txPend' = txPend
    BY <1>5 DEF SendAdvance, txVars, histVars
  <2>2. /\ Leaving = 1 /\ Leaving' = 0 /\ outCount > 0
        /\ pc' \notin Opening \cup Sending
    BY <1>5 DEF SendAdvance, Jump, Leaving, Opening, Sending, OutInv
  <2>3. /\ \A i \in 0 .. OutSize - 1 : OutSlot(i)' = OutSlot(i + 1)
        /\ outTail' \in 0 .. OutSize - 1
    <3>1. outTail' = OutNext(outTail) /\ outTail \in 0 .. OutSize - 1
      BY <1>5 DEF SendAdvance, OutType
    <3> QED BY <3>1, OutSlotNext, OutNextType DEF OutSlot
  <2>4. OutType'
    BY <2>1, <2>2, <2>3, SizeAssumption DEF OutType
  <2>5. LastSent' = LastSent /\ LastSent \in Nat
    BY <2>1 DEF LastSent, OutType
  <2>6. OutInv'
    <3>1. outHead' = OutSlot(outCount)'
      <4>1. outCount - 1 \in 0 .. OutSize - 1 /\ (outCount - 1) + 1 = outCount
        BY <2>2, SizeAssumption DEF OutType
      <4> QED BY <2>1, <2>3, <4>1 DEF OutInv
    <3>2. LastSent' + outCount' = accepted' + Leaving'
      BY <2>1, <2>2, <2>5 DEF OutInv, OutType
    <3>3. ASSUME NEW i \in Leaving' .. outCount' - 1
          PROVE  outBuf'[OutSlot(i)'] = LastSent' + 1 + i - Leaving'
      <4>1. i \in 0 .. OutSize - 1 /\ i + 1 \in 1 .. outCount - 1
        BY <2>1, <2>2, SizeAssumption DEF OutType
      <4>2. outBuf[OutSlot(i + 1)] = LastSent + 1 + (i + 1) - 1
        BY <2>2, <4>1 DEF OutInv
      <4> QED BY <2>1, <2>2, <2>3, <2>5, <4>1, <4>2
    <3>4. txHold' # 0 => txHold' = wire' + 1 /\ ~txPend'
      BY <2>1 DEF OutInv
    <3> QED BY <2>2, <3>1, <3>2, <3>3, <3>4 DEF OutInv, Opening, Sending
  <2> QED BY <2>4, <2>6
<1>6. ASSUME TxIsr PROVE OutType' /\ OutInv'
  <2>1. /\ outBuf' = outBuf /\ outHead' = outHead /\ pc' = pc
        /\ accepted' = accepted /\ wire' = wire /\ txPend /\ txPend' = FALSE
        /\ Leaving = 0 /\ Leaving' = 0 /\ pc \notin Opening \ {"start", "initDi"}
        /\ pc \notin Sending
    BY <1>6 DEF TxIsr, cpuVars, histVars, MaskInv, Masked, Leaving, Opening,
                Sending
  <2>2. txHold = 0 /\ LastSent = wire
    BY <2>1 DEF OutInv, LastSent
  <2>3. CASE outCount = 0
    <3>1. outTail' = outTail /\ outCount' = 0 /\ txHold' = 0
      BY <1>6, <2>2, <2>3 DEF TxIsr
    <3>2. OutType' /\ \A i : OutSlot(i)' = OutSlot(i)
      BY <2>1, <2>3, <3>1 DEF OutType, OutSlot
    <3>3. LastSent' = LastSent
      BY <2>1, <2>2, <3>1 DEF LastSent
    <3>4. OutInv'
      BY <2>1, <2>2, <2>3, <3>1, <3>2, <3>3 DEF OutInv, OutType, Sending
    <3> QED BY <3>2, <3>4
  <2>4. CASE outCount # 0
    <3>1. outCount' = outCount - 1 /\ txHold' = outBuf[outTail]
      BY <1>6, <2>4 DEF TxIsr
    <3>2. /\ \A i \in 0 .. OutSize - 1 : OutSlot(i)' = OutSlot(i + 1)
          /\ outTail' \in 0 .. OutSize - 1
      <4>1. outTail' = OutNext(outTail) /\ outTail \in 0 .. OutSize - 1
        BY <1>6, <2>4 DEF TxIsr, OutType
      <4> QED BY <4>1, OutSlotNext, OutNextType DEF OutSlot
    <3>3. outCount > 0 /\ pc \notin Opening
      BY <2>4 DEF OutType, OutInv, Opening
    <3>4. txHold' = wire + 1
      BY <2>1, <2>2, <3>1, <3>3, OutSlotZero DEF OutInv, OutType
    <3>5. OutType'
      <4>1. outCount' \in 0 .. OutSize
        BY <3>1, <3>3, SizeAssumption DEF OutType
      <4>2. txHold' \in Nat
        BY <3>4 DEF OutType
      <4>3. outTail' \in 0 .. OutSize - 1
        BY <3>2
      <4> QED BY <2>1, <4>1, <4>2, <4>3 DEF OutType
    <3>6. LastSent' = LastSent + 1 /\ LastSent \in Nat
      BY <2>1, <2>2, <3>4 DEF LastSent, OutType
    <3>7. OutInv'
      <4>1. outHead' = OutSlot(outCount)'
        <5>1. outCount - 1 \in 0 .. OutSize - 1 /\ (outCount - 1) + 1 = outCount
          BY <3>3, SizeAssumption DEF OutType
        <5> QED BY <2>1, <3>1, <3>2, <5>1 DEF OutInv
      <4>2. LastSent' + outCount' = accepted' + Leaving'
        BY <2>1, <3>1, <3>6 DEF OutInv, OutType
      <4>3. ASSUME NEW i \in Leaving' .. outCount' - 1
            PROVE  outBuf'[OutSlot(i)'] = LastSent' + 1 + i - Leaving'
        <5>1. i \in 0 .. OutSize - 1 /\ i + 1 \in 0 .. outCount - 1
          BY <2>1, <3>1, SizeAssumption DEF OutType
        <5>2. outBuf[OutSlot(i + 1)] = LastSent + 1 + (i + 1) - 0
          BY <2>1, <5>1 DEF OutInv
        <5> QED BY <2>1, <3>2, <3>6, <5>1, <5>2
      <4> QED BY <2>1, <3>3, <3>4, <4>1, <4>2, <4>3 DEF OutInv, Opening, Sending
    <3> QED BY <3>5, <3>7
  <2> QED BY <2>3, <2>4
<1>7. ASSUME TxShift PROVE OutType' /\ OutInv'
  <2>1. /\ txHold # 0 /\ txHold' = 0 /\ wire' = txHold /\ txPend' = ie
        /\ outBuf' = outBuf /\ outHead' = outHead /\ outTail' = outTail
        /\ outCount' = outCount /\ accepted' = accepted
        /\ Leaving' = Leaving /\ pc' = pc
    BY <1>7 DEF TxShift, Leaving, cpuVars, outVars
  <2>2. OutType' /\ \A i : OutSlot(i)' = OutSlot(i)
    BY <2>1 DEF OutType, ControlType, OutSlot
  <2>3. LastSent' = LastSent
    BY <2>1 DEF LastSent
  <2>4. OutInv'
    BY <2>1, <2>2, <2>3 DEF OutInv
  <2> QED BY <2>2, <2>4
<1>8. ASSUME CloseQuiet PROVE OutType' /\ OutInv'
  BY <1>8 DEF CloseQuiet, Jump, outVars, OutType, OutInv, OutSlot, LastSent,
              Leaving, histVars
<1> QED BY <1>1, <1>2, <1>3, <1>4, <1>5, <1>6, <1>7, <1>8, OutFrame DEF OutWriter
-----------------------------------------------------------------------------
(* The receive stream.                                                     *)

InKept == /\ UNCHANGED <<inVars, rxFifo, arrived, got>>
          /\ serial_fault => serial_fault'
          /\ pc' \in Opening => pc \in Opening
InWriter == InitSetup \/ RxIsr \/ RxArrive \/ RecvTake

\* Only these four steps touch the receive stream.
LEMMA InFrame == [Next]_vars /\ ~InWriter => InKept
<1> USE DEF Step, Jump, Lock, Di, histVars, linkVars, InKept, Opening
<1>1. ASSUME Open, ~InitSetup PROVE InKept
  BY <1>1 DEF Open, InitRefused, InitLock, InitDi, InitUnlock, InitFail
<1>2. ASSUME Send PROVE InKept
  BY <1>2 DEF Send, SendLock, SendDi, SendRefuse, RefusalReturnsTo, SendStore,
              SendKick, SendBusy, SendAdvance
<1>3. ASSUME Recv, ~RecvTake PROVE InKept
  <2>1. ASSUME RecvLock \/ RecvDi \/ RecvEmpty \/ RecvKeepRts PROVE InKept
    BY <2>1 DEF RecvLock, RecvDi, RecvEmpty, RecvKeepRts
  <2>2. ASSUME RecvSelectWr5 PROVE InKept
    BY <2>2 DEF RecvSelectWr5
  <2>3. ASSUME RecvWriteWr5 PROVE InKept
    BY <2>3 DEF RecvWriteWr5
  <2> QED BY <1>3, <2>1, <2>2, <2>3 DEF Recv
<1>4. ASSUME Close PROVE InKept
  BY <1>4 DEF Close, CloseLock, CloseDi, CloseQuiet
<1>5. ASSUME Unlock \/ BdosCall \/ BdosReturn PROVE InKept
  BY <1>5 DEF Unlock, BdosCall, BdosReturn
<1>6. ASSUME TxIsr \/ TxShift \/ RtsRelease PROVE InKept
  BY <1>6 DEF TxIsr, TxShift, RtsRelease, cpuVars
<1>7. ASSUME Closed \/ UNCHANGED vars PROVE InKept
  BY <1>7 DEF Closed, vars, cpuVars
<1> HIDE DEF InKept
<1> QED
  BY <1>1, <1>2, <1>3, <1>4, <1>5, <1>6, <1>7
  DEF Next, InWriter, Sio, Isr, Open, Recv

\* The slots of the receive ring, as for the transmit ring.
LEMMA InSlotType ==
  ASSUME InType PROVE \A i \in 0 .. InSize : InSlot(i) \in 0 .. InSize - 1
<1>1. \A i : InSlot(i) = Slot(InSize, inTail, i)
  BY DEF InSlot, Slot
<1> QED BY <1>1, SlotInside, SizeAssumption DEF InType

\* Two offsets below the size name two slots.
LEMMA InSlotDistinct ==
  ASSUME InType
  PROVE  \A i, j \in 0 .. InSize - 1 : InSlot(i) = InSlot(j) => i = j
<1>1. \A i : InSlot(i) = Slot(InSize, inTail, i)
  BY DEF InSlot, Slot
<1> QED BY <1>1, SlotDistinct, SizeAssumption DEF InType

\* The slot after the one at an offset is at the next offset, and so is the slot
\* at that offset from the next tail.
LEMMA InSlotNext ==
  ASSUME InType
  PROVE  \A i \in 0 .. InSize - 1 :
           /\ InNext(InSlot(i)) = InSlot(i + 1)
           /\ (InNext(inTail) + i) % InSize = InSlot(i + 1)
<1>1. \A i : /\ InSlot(i) = Slot(InSize, inTail, i)
             /\ InNext(i) = Slot(InSize, i, 1)
             /\ \A t : (t + i) % InSize = Slot(InSize, t, i)
  BY DEF InSlot, InNext, Slot
<1> QED BY <1>1, SlotNext, SizeAssumption DEF InType

\* Offset 0 is the tail.
LEMMA InSlotZero == ASSUME InType PROVE InSlot(0) = inTail
<1>1. InSlot(0) = Slot(InSize, inTail, 0)
  BY DEF InSlot, Slot
<1> QED BY <1>1, Wrap, SizeAssumption DEF InType

\* Advancing an index keeps it inside the receive ring.
LEMMA InNextType ==
  \A i \in 0 .. InSize - 1 : InNext(i) \in 0 .. InSize - 1
<1>1. \A i : InNext(i) = Slot(InSize, i, 1)
  BY DEF InNext, Slot
<1> QED BY <1>1, SlotInside, SizeAssumption

\* While the link has not failed, the oldest byte of the ring is the next one;
\* always, it is a later one, with room for those behind it.
LEMMA Oldest ==
  ASSUME InType, InInv, inCount # 0
  PROVE  /\ inBuf[inTail] \in got + 1 .. arrived - rxFifo
         /\ inBuf[inTail] + (inCount - 1) <= arrived - rxFifo
         /\ ~serial_fault => inBuf[inTail] = got + 1
<1>1. inCount - 1 \in 0 .. inCount - 1 /\ 0 \in 0 .. inCount - 1
  BY SizeAssumption DEF InType
<1>2. inBuf[InSlot(0)] \in got + 1 + 0 .. arrived - rxFifo
  BY <1>1 DEF InInv
<1>3. inBuf[InSlot(inCount - 1)] \in got + 1 + (inCount - 1) .. arrived - rxFifo
  BY <1>1 DEF InInv
<1>4. inBuf[InSlot(0)] + (inCount - 1) <= arrived - rxFifo
  <2>1. CASE inCount = 1
    BY <1>2, <2>1 DEF InType
  <2>2. CASE inCount # 1
    <3>1. inBuf[InSlot(0)] + ((inCount - 1) - 0) <= inBuf[InSlot(inCount - 1)]
      BY <1>1, <2>2 DEF InInv, InType
    <3> QED BY <1>2, <1>3, <3>1 DEF InType
  <2> QED BY <2>1, <2>2
<1>5. ~serial_fault => got + inCount = arrived - rxFifo
  BY DEF InInv
<1> QED BY <1>2, <1>4, <1>5, InSlotZero, PeerAssumption, SizeAssumption DEF InType

\* Every step keeps the receive ring holding bytes not yet delivered, in order,
\* and until the link fails all of them.
LEMMA InStep ==
  ASSUME InType, InInv, MaskInv
  PROVE  [Next]_vars => InType' /\ InInv'
<1>1. ASSUME InKept PROVE InType' /\ InInv'
  <2>1. \A i : InSlot(i)' = InSlot(i)
    BY <1>1 DEF InKept, inVars, InSlot
  <2> QED BY <1>1, <2>1 DEF InKept, inVars, InType, InInv, Opening
<1>2. ASSUME InitSetup PROVE InType' /\ InInv'
  BY <1>2, SizeAssumption, PeerAssumption
  DEF InitSetup, Jump, InType, InInv, InSlot, histVars
<1>3. ASSUME RxArrive PROVE InType' /\ InInv'
  <2>1. /\ inBuf' = inBuf /\ inHead' = inHead /\ inTail' = inTail
        /\ inCount' = inCount /\ got' = got /\ pc' = pc
        /\ serial_fault' = serial_fault /\ rxFifo < FifoDepth
        /\ arrived' = arrived + 1 /\ rxFifo' = rxFifo + 1
    BY <1>3 DEF RxArrive, inVars, cpuVars, linkVars
  <2>2. \A i : InSlot(i)' = InSlot(i)
    BY <2>1 DEF InSlot
  <2>3. InType'
    BY <2>1, PeerAssumption DEF InType
  <2>4. arrived' - rxFifo' = arrived - rxFifo
    BY <2>1, PeerAssumption DEF InType
  <2>5. InInv'
    BY <2>1, <2>2, <2>4 DEF InInv
  <2> QED BY <2>3, <2>5
<1>4. ASSUME RecvTake PROVE InType' /\ InInv'
  <2>1. /\ inBuf' = inBuf /\ inHead' = inHead /\ inCount' = inCount - 1
        /\ rxFifo' = rxFifo /\ arrived' = arrived
        /\ serial_fault' = serial_fault
    BY <1>4 DEF RecvTake, linkVars
  <2>2. inCount # 0 /\ pc' \notin Opening
    BY <1>4 DEF RecvTake, Jump, Opening
  <2>3. /\ \A i \in 0 .. InSize - 1 : InSlot(i)' = InSlot(i + 1)
        /\ inTail' \in 0 .. InSize - 1
    <3>1. inTail' = InNext(inTail) /\ inTail \in 0 .. InSize - 1
      BY <1>4 DEF RecvTake, InType
    <3> QED BY <3>1, InSlotNext, InNextType DEF InSlot
  <2>4. /\ got' \in got + 1 .. arrived - rxFifo
        /\ got' + (inCount - 1) <= arrived - rxFifo
        /\ ~serial_fault => got' = got + 1
    <3>1. got' = inBuf[inTail]
      BY <1>4 DEF RecvTake
    <3> QED BY <2>2, <3>1, Oldest
  <2>5. got' = inBuf[InSlot(0)]
    BY <1>4, InSlotZero DEF RecvTake
  <2>6. InType'
    <3>1. inTail' \in 0 .. InSize - 1 /\ got' \in Nat
      BY <2>3, <2>4, PeerAssumption DEF InType
    <3> QED BY <2>1, <2>2, <3>1, SizeAssumption DEF InType
  <2>7. inHead' = InSlot(inCount)'
    <3>1. inCount - 1 \in 0 .. InSize - 1 /\ (inCount - 1) + 1 = inCount
      BY <2>2, SizeAssumption DEF InType
    <3> QED BY <2>1, <2>3, <3>1 DEF InInv
  <2>8. got' + inCount' <= arrived' - rxFifo'
    BY <2>1, <2>4
  <2>9. ~serial_fault' => got' + inCount' = arrived' - rxFifo'
    <3>1. ~serial_fault => got + inCount = arrived - rxFifo
      BY DEF InInv
    <3> QED BY <2>1, <2>4, <3>1, SizeAssumption, PeerAssumption DEF InType
  <2>10. ASSUME NEW i \in 0 .. inCount' - 1
         PROVE  inBuf'[InSlot(i)'] \in got' + 1 + i .. arrived' - rxFifo'
    <3>1. i \in 0 .. InSize - 1 /\ i + 1 \in 1 .. inCount - 1
          /\ 0 \in 0 .. inCount - 1 /\ i + 1 \in 0 .. inCount - 1
      BY <2>1, SizeAssumption DEF InType
    <3>2. inBuf[InSlot(i + 1)] \in got + 1 + (i + 1) .. arrived - rxFifo
      BY <3>1 DEF InInv
    <3>3. inBuf[InSlot(0)] + ((i + 1) - 0) <= inBuf[InSlot(i + 1)]
      BY <3>1 DEF InInv
    <3>4. InSlot(i)' = InSlot(i + 1)
      BY <2>3, <3>1
    <3>5. got' + (i + 1) <= inBuf[InSlot(i + 1)]
      BY <2>5, <3>1, <3>3
    <3> QED BY <2>1, <2>4, <3>1, <3>2, <3>4, <3>5, PeerAssumption DEF InType
  <2>11. ASSUME NEW i \in 0 .. inCount' - 1, NEW j \in 0 .. inCount' - 1, i < j
         PROVE  inBuf'[InSlot(i)'] + (j - i) <= inBuf'[InSlot(j)']
    <3>1. /\ i \in 0 .. InSize - 1 /\ i + 1 \in 0 .. inCount - 1
          /\ j \in 0 .. InSize - 1 /\ j + 1 \in 0 .. inCount - 1
          /\ i + 1 < j + 1 /\ (j + 1) - (i + 1) = j - i
      BY <2>1, <2>11, SizeAssumption DEF InType
    <3>2. inBuf[InSlot(i + 1)] + ((j + 1) - (i + 1)) <= inBuf[InSlot(j + 1)]
      BY <3>1 DEF InInv
    <3> QED BY <2>1, <2>3, <3>1, <3>2
  <2>12. InInv'
    BY <2>2, <2>7, <2>8, <2>9, <2>10, <2>11 DEF InInv, Opening
  <2> QED BY <2>6, <2>12
<1>5. ASSUME RxIsr PROVE InType' /\ InInv'
  <2>1. /\ rxFifo > 0 /\ rxFifo' = rxFifo - 1 /\ arrived' = arrived
        /\ got' = got /\ pc' = pc /\ pc \notin Opening
    BY <1>5 DEF RxIsr, cpuVars, histVars, MaskInv, Opening
  <2>2. rxFifo' \in 0 .. FifoDepth /\ arrived' - rxFifo' = arrived - rxFifo + 1
    BY <2>1, PeerAssumption DEF InType
  <2>3. CASE inCount >= InSize
    <3>1. /\ inBuf' = inBuf /\ inHead' = inHead /\ inTail' = inTail
          /\ inCount' = inCount /\ serial_fault' = TRUE
      BY <1>5, <2>3 DEF RxIsr, inVars
    <3>2. \A i : InSlot(i)' = InSlot(i)
      BY <3>1 DEF InSlot
    <3>3. InType'
      BY <2>1, <2>2, <3>1 DEF InType
    <3>4. ASSUME NEW i \in 0 .. inCount' - 1
          PROVE  inBuf'[InSlot(i)'] \in got' + 1 + i .. arrived' - rxFifo'
      <4>1. inBuf[InSlot(i)] \in got + 1 + i .. arrived - rxFifo
        BY <3>1, <3>4 DEF InInv
      <4> QED BY <2>1, <2>2, <3>1, <3>2, <4>1, PeerAssumption DEF InType
    <3>5. got' + inCount' <= arrived' - rxFifo'
      BY <2>1, <2>2, <3>1, PeerAssumption, SizeAssumption DEF InInv, InType
    <3>6. InInv'
      BY <2>1, <3>1, <3>2, <3>4, <3>5 DEF InInv, Opening
    <3> QED BY <3>3, <3>6
  <2>4. CASE ~(inCount >= InSize)
    <3>1. /\ inBuf' = [inBuf EXCEPT ![inHead] = arrived - rxFifo + 1]
          /\ inTail' = inTail /\ inCount' = inCount + 1
          /\ serial_fault' = serial_fault
      BY <1>5, <2>4 DEF RxIsr, Received
    <3>2. inCount \in 0 .. InSize - 1
      BY <2>4, SizeAssumption DEF InType
    <3>3. \A i : InSlot(i)' = InSlot(i)
      BY <3>1 DEF InSlot
    <3>4. /\ inHead = InSlot(inCount) /\ inHead' = InSlot(inCount + 1)
          /\ inHead' \in 0 .. InSize - 1
      <4>1. inHead' = InNext(inHead) /\ inHead \in 0 .. InSize - 1
        BY <1>5, <2>4 DEF RxIsr, InType
      <4>2. inHead = InSlot(inCount)
        BY DEF InInv
      <4> QED BY <3>2, <4>1, <4>2, InSlotNext, InNextType
    <3>5. got + inCount <= arrived - rxFifo
      BY DEF InInv
    <3>6. InType'
      <4>1. inHead' \in 0 .. InSize - 1 /\ inCount' \in 0 .. InSize
        BY <3>1, <3>2, <3>4, SizeAssumption
      <4>2. arrived - rxFifo + 1 \in Nat
        BY <3>2, <3>5, PeerAssumption, SizeAssumption DEF InType
      <4> QED BY <2>1, <2>2, <3>1, <4>1, <4>2 DEF InType
    <3>7. /\ inBuf'[InSlot(inCount)] = arrived - rxFifo + 1
          /\ \A i \in 0 .. inCount - 1 : inBuf'[InSlot(i)] = inBuf[InSlot(i)]
      <4>1. \A i \in 0 .. inCount - 1 : InSlot(i) # InSlot(inCount)
        BY <3>2, InSlotDistinct, SizeAssumption DEF InType
      <4>2. \A i \in 0 .. inCount : InSlot(i) \in 0 .. InSize - 1
        BY InSlotType, SizeAssumption DEF InType
      <4> QED BY <3>1, <3>4, <4>1, <4>2 DEF InType
    <3>8. ASSUME NEW i \in 0 .. inCount' - 1
          PROVE  inBuf'[InSlot(i)'] \in got' + 1 + i .. arrived' - rxFifo'
      <4>1. CASE i = inCount
        BY <2>1, <2>2, <3>2, <3>3, <3>5, <3>7, <4>1, PeerAssumption DEF InType
      <4>2. CASE i # inCount
        <5>1. i \in 0 .. inCount - 1
          BY <3>1, <3>2, <4>2
        <5>2. inBuf[InSlot(i)] \in got + 1 + i .. arrived - rxFifo
          BY <5>1 DEF InInv
        <5> QED BY <2>1, <2>2, <3>3, <3>7, <5>1, <5>2, PeerAssumption DEF InType
      <4> QED BY <4>1, <4>2
    <3>9. ASSUME NEW i \in 0 .. inCount' - 1, NEW j \in 0 .. inCount' - 1, i < j
          PROVE  inBuf'[InSlot(i)'] + (j - i) <= inBuf'[InSlot(j)']
      <4>1. i \in 0 .. inCount - 1
        BY <3>1, <3>2, <3>9
      <4>2. CASE j = inCount
        <5>1. inCount - 1 \in 0 .. inCount - 1
          BY <3>2, <4>1
        <5>2. inBuf[InSlot(inCount - 1)] \in got + 1 + (inCount - 1) .. arrived - rxFifo
          BY <5>1 DEF InInv
        <5>3. inBuf[InSlot(i)] \in got + 1 + i .. arrived - rxFifo
          BY <4>1 DEF InInv
        <5>4. inBuf[InSlot(i)] + (inCount - 1 - i) <= arrived - rxFifo
          <6>1. CASE i = inCount - 1
            BY <3>2, <5>3, <6>1
          <6>2. CASE i # inCount - 1
            <7>1. i < inCount - 1
              BY <3>2, <4>1, <6>2
            <7>2. inBuf[InSlot(i)] + (inCount - 1 - i) <= inBuf[InSlot(inCount - 1)]
              BY <4>1, <5>1, <7>1 DEF InInv
            <7> QED BY <3>2, <4>1, <5>2, <5>3, <7>2, PeerAssumption DEF InType
          <6> QED BY <6>1, <6>2
        <5> QED BY <3>2, <3>3, <3>7, <4>1, <4>2, <5>3, <5>4, PeerAssumption DEF InType
      <4>3. CASE j # inCount
        <5>1. j \in 0 .. inCount - 1
          BY <3>1, <3>2, <4>3
        <5>2. inBuf[InSlot(i)] + (j - i) <= inBuf[InSlot(j)]
          BY <3>9, <4>1, <5>1 DEF InInv
        <5> QED BY <3>3, <3>7, <4>1, <5>1, <5>2
      <4> QED BY <4>2, <4>3
    <3>10. /\ got' + inCount' <= arrived' - rxFifo'
           /\ ~serial_fault' => got' + inCount' = arrived' - rxFifo'
      BY <2>1, <2>2, <3>1, <3>2, PeerAssumption DEF InInv, InType
    <3>11. inHead' = InSlot(inCount)'
      BY <3>1, <3>3, <3>4
    <3>12. InInv'
      BY <2>1, <3>8, <3>9, <3>10, <3>11 DEF InInv, Opening
    <3> QED BY <3>6, <3>12
  <2> QED BY <2>3, <2>4
<1> QED BY <1>1, <1>2, <1>3, <1>4, <1>5, InFrame DEF InWriter
-----------------------------------------------------------------------------
(* Control: types, the interrupt window, and the WR5 register.             *)

\* Every step keeps the control variables in their types.
LEMMA ControlStep == ASSUME ControlType PROVE [Next]_vars => ControlType'
<1> USE DEF ControlType, Labels, cpuVars, linkVars, Step, Jump, Lock, ReadIff, Di
<1>1. ASSUME Open PROVE ControlType'
  BY <1>1 DEF Open, InitRefused, InitLock, InitDi, InitSetup, InitUnlock, InitFail
<1>2. ASSUME Send PROVE ControlType'
  BY <1>2 DEF Send, SendLock, SendDi, SendRefuse, RefusalReturnsTo, SendStore,
              SendKick, SendBusy, SendAdvance
<1>3. ASSUME Recv PROVE ControlType'
  BY <1>3 DEF Recv, RecvLock, RecvDi, RecvEmpty, RecvTake, RecvKeepRts,
              RecvSelectWr5, RecvWriteWr5
<1>4. ASSUME Close \/ Unlock \/ BdosCall \/ BdosReturn PROVE ControlType'
  BY <1>4 DEF Close, CloseLock, CloseDi, CloseQuiet, Unlock, BdosCall, BdosReturn
<1>5. ASSUME Isr \/ Sio PROVE ControlType'
  BY <1>5 DEF Isr, RxIsr, TxIsr, Sio, TxShift, RtsRelease, RxArrive
<1>6. ASSUME Closed \/ UNCHANGED vars PROVE ControlType'
  BY <1>6 DEF Closed, vars
<1> HIDE DEF ControlType
<1> QED BY <1>1, <1>2, <1>3, <1>4, <1>5, <1>6 DEF Next

\* Interrupts stay off from DI to the unlock, and the channel is quiet until it
\* is set up.
LEMMA MaskStep == ASSUME ControlType, MaskInv PROVE [Next]_vars => MaskInv'
<1> USE DEF MaskInv, Masked, cpuVars, Step, Jump, Lock, Di
<1>1. ASSUME Open PROVE MaskInv'
  <2>1. ASSUME InitUnlock PROVE MaskInv'
    <3>1. CASE saved
      BY <2>1, <3>1 DEF InitUnlock
    <3>2. CASE ~saved
      <4>1. ~iff /\ UNCHANGED ie
        BY <2>1 DEF InitUnlock
      <4>2. ~iff'
        BY <2>1, <3>2, <4>1 DEF InitUnlock
      <4>3. pc' = "initFail"
        BY <2>1, <3>2 DEF InitUnlock
      <4> QED BY <4>1, <4>2, <4>3
    <3> QED BY <3>1, <3>2
  <2>2. ASSUME Open, ~InitUnlock PROVE MaskInv'
    BY <2>2 DEF Open, InitRefused, InitLock, InitDi, InitSetup, InitFail
  <2> QED BY <1>1, <2>1, <2>2
<1>2. ASSUME Send PROVE MaskInv'
  BY <1>2 DEF Send, SendLock, SendDi, SendRefuse, RefusalReturnsTo, SendStore,
              SendKick, SendBusy, SendAdvance
<1>3. ASSUME Recv PROVE MaskInv'
  <2>1. ASSUME RecvLock \/ RecvDi \/ RecvEmpty \/ RecvTake PROVE MaskInv'
    BY <2>1 DEF RecvLock, RecvDi, RecvEmpty, RecvTake
  <2>2. ASSUME RecvKeepRts PROVE MaskInv'
    BY <2>2 DEF RecvKeepRts
  <2>3. ASSUME RecvSelectWr5 PROVE MaskInv'
    BY <2>3 DEF RecvSelectWr5
  <2>4. ASSUME RecvWriteWr5 PROVE MaskInv'
    BY <2>4 DEF RecvWriteWr5
  <2> QED BY <1>3, <2>1, <2>2, <2>3, <2>4 DEF Recv
<1>4. ASSUME Close \/ Unlock \/ BdosCall \/ BdosReturn PROVE MaskInv'
  BY <1>4 DEF Close, CloseLock, CloseDi, CloseQuiet, Unlock, BdosCall, BdosReturn
<1>5. ASSUME Isr \/ Sio PROVE MaskInv'
  BY <1>5 DEF Isr, RxIsr, TxIsr, Sio, TxShift, RtsRelease, RxArrive
<1>6. ASSUME Closed \/ UNCHANGED vars PROVE MaskInv'
  BY <1>6 DEF Closed, vars
<1> HIDE DEF MaskInv
<1> QED BY <1>1, <1>2, <1>3, <1>4, <1>5, <1>6 DEF Next

RtsKept == /\ UNCHANGED rtsVars
           /\ \/ pc # "recvWr5" /\ pc' # "recvWr5"
              \/ pc' = pc /\ inCount' = inCount
RtsWriter == InitSetup \/ RecvSelectWr5 \/ RecvWriteWr5 \/ RxIsr \/ CloseQuiet
             \/ RtsRelease \/ RxArrive

\* Only these seven steps touch RTS: WR5, its shadow and pointer, the line and
\* the peer's credit.
LEMMA RtsFrame == [Next]_vars /\ ~RtsWriter => RtsKept
<1> USE DEF Step, Jump, Lock, Di, RtsKept
<1>1. ASSUME Open, ~InitSetup PROVE RtsKept
  BY <1>1 DEF Open, InitRefused, InitLock, InitDi, InitUnlock, InitFail
<1>2. ASSUME Send PROVE RtsKept
  BY <1>2 DEF Send, SendLock, SendDi, SendRefuse, RefusalReturnsTo, SendStore,
              SendKick, SendBusy, SendAdvance
<1>3. ASSUME RecvLock \/ RecvDi \/ RecvEmpty \/ RecvTake \/ RecvKeepRts
      PROVE  RtsKept
  BY <1>3 DEF RecvLock, RecvDi, RecvEmpty, RecvTake, RecvKeepRts
<1>4. ASSUME CloseLock \/ CloseDi \/ Unlock \/ BdosCall \/ BdosReturn
      PROVE  RtsKept
  BY <1>4 DEF CloseLock, CloseDi, Unlock, BdosCall, BdosReturn
<1>5. ASSUME TxIsr \/ TxShift PROVE RtsKept
  BY <1>5 DEF TxIsr, TxShift, cpuVars, inVars
<1>6. ASSUME Closed \/ UNCHANGED vars PROVE RtsKept
  BY <1>6 DEF Closed, vars, cpuVars, inVars
<1> HIDE DEF RtsKept
<1> QED
  BY <1>1, <1>2, <1>3, <1>4, <1>5, <1>6
  DEF Next, RtsWriter, Sio, Isr, Open, Recv, Close

\* Every step keeps the register pointer at 0 and the shadow of WR5 true, but for
\* the two writes of serial_write_wr5.
LEMMA RtsStep ==
  ASSUME RtsType, RtsInv, MaskInv, InType
  PROVE  [Next]_vars => RtsType' /\ RtsInv'
<1>1. ASSUME RtsKept PROVE RtsType' /\ RtsInv'
  <2>1. RtsType'
    BY <1>1 DEF RtsKept, rtsVars, RtsType
  <2>2. RtsInv'
    BY <1>1 DEF RtsKept, rtsVars, RtsInv
  <2> QED BY <2>1, <2>2
<1>2. ASSUME InitSetup PROVE RtsType' /\ RtsInv'
  <2>1. /\ wr5Rts' = TRUE /\ regPtr' = 0 /\ sioRts' = TRUE /\ rtsLine' = TRUE
        /\ credit' = PeerSlack /\ pc' # "recvWr5"
    BY <1>2 DEF InitSetup, Jump
  <2> QED BY <2>1, PeerAssumption DEF RtsType, RtsInv
<1>3. ASSUME CloseQuiet PROVE RtsType' /\ RtsInv'
  <2>1. /\ wr5Rts' = FALSE /\ regPtr' = 0 /\ sioRts' = FALSE
        /\ rtsLine' \in BOOLEAN /\ credit' = credit /\ pc' # "recvWr5"
    BY <1>3 DEF CloseQuiet, Jump
  <2> QED BY <2>1 DEF RtsType, RtsInv
<1>4. ASSUME RecvSelectWr5 PROVE RtsType' /\ RtsInv'
  BY <1>4 DEF RecvSelectWr5, Jump, RaiseRts, RtsType, RtsInv, inVars
<1>5. ASSUME RecvWriteWr5 PROVE RtsType' /\ RtsInv'
  BY <1>5, PeerAssumption, ModeAssumption
  DEF RecvWriteWr5, WriteWr5, Jump, RtsType, RtsInv
<1>6. ASSUME RxIsr PROVE RtsType' /\ RtsInv'
  <2>1. pc' = pc /\ pc # "recvWr5"
    BY <1>6 DEF RxIsr, cpuVars, MaskInv, Masked
  <2>2. HandlerLowersRts \/ UNCHANGED rtsVars
    BY <1>6 DEF RxIsr
  <2>3. CASE HandlerLowersRts
    <3>1. /\ wr5Rts' = FALSE /\ regPtr' = 0 /\ sioRts' = FALSE
          /\ rtsLine' \in BOOLEAN /\ credit' = credit
      BY <2>3 DEF HandlerLowersRts, ShadowAfterLowering
    <3> QED BY <2>1, <3>1 DEF RtsType, RtsInv
  <2>4. CASE UNCHANGED rtsVars
    BY <2>1, <2>4 DEF rtsVars, RtsType, RtsInv
  <2> QED BY <2>2, <2>3, <2>4
<1>7. ASSUME RtsRelease PROVE RtsType' /\ RtsInv'
  BY <1>7 DEF RtsRelease, RtsType, RtsInv, cpuVars, inVars
<1>8. ASSUME RxArrive PROVE RtsType' /\ RtsInv'
  <2>1. /\ pc' = pc /\ inCount' = inCount
        /\ wr5Rts' = wr5Rts /\ regPtr' = regPtr /\ sioRts' = sioRts
        /\ rtsLine' = rtsLine /\ credit' \in 0 .. PeerSlack
    BY <1>8, PeerAssumption DEF RxArrive, cpuVars, inVars, RtsType
  <2> QED BY <2>1 DEF RtsType, RtsInv
<1> QED
  BY <1>1, <1>2, <1>3, <1>4, <1>5, <1>6, <1>7, <1>8, RtsFrame DEF RtsWriter
-----------------------------------------------------------------------------
(* No lost wakeup, on either side.                                         *)

\* The port is open whenever the program runs on it, and an open port
\* interrupts.
LEMMA OpenStep == ASSUME OpenInv PROVE [Next]_vars => OpenInv'
<1> USE DEF OpenInv, linkVars, cpuVars, Step, Jump, Lock, Di
<1>1. ASSUME Open PROVE OpenInv'
  <2>1. ASSUME InitRefused \/ InitLock \/ InitDi \/ InitSetup PROVE OpenInv'
    BY <2>1 DEF InitRefused, InitLock, InitDi, InitSetup
  <2>2. ASSUME InitUnlock PROVE OpenInv'
    BY <2>2 DEF InitUnlock
  <2>3. ASSUME InitFail PROVE OpenInv'
    BY <2>3 DEF InitFail
  <2> QED BY <1>1, <2>1, <2>2, <2>3 DEF Open
<1>2. ASSUME Send PROVE OpenInv'
  BY <1>2 DEF Send, SendLock, SendDi, SendRefuse, RefusalReturnsTo, SendStore,
              SendKick, SendBusy, SendAdvance
<1>3. ASSUME Recv PROVE OpenInv'
  <2>1. ASSUME RecvLock \/ RecvDi \/ RecvEmpty \/ RecvTake PROVE OpenInv'
    BY <2>1 DEF RecvLock, RecvDi, RecvEmpty, RecvTake
  <2>2. ASSUME RecvKeepRts PROVE OpenInv'
    BY <2>2 DEF RecvKeepRts
  <2>3. ASSUME RecvSelectWr5 PROVE OpenInv'
    BY <2>3 DEF RecvSelectWr5
  <2>4. ASSUME RecvWriteWr5 PROVE OpenInv'
    BY <2>4 DEF RecvWriteWr5
  <2> QED BY <1>3, <2>1, <2>2, <2>3, <2>4 DEF Recv
<1>4. ASSUME Close \/ BdosCall \/ BdosReturn PROVE OpenInv'
  BY <1>4 DEF Close, CloseLock, CloseDi, CloseQuiet, BdosCall, BdosReturn
<1>5. ASSUME Unlock PROVE OpenInv'
  <2>1. /\ UNCHANGED <<serial_open, ie>>
        /\ pc' = IF serial_open THEN "idle" ELSE "closed"
    BY <1>5 DEF Unlock
  <2> QED BY <2>1
<1>6. ASSUME Isr \/ Sio PROVE OpenInv'
  BY <1>6 DEF Isr, RxIsr, TxIsr, Sio, TxShift, RtsRelease, RxArrive
<1>7. ASSUME Closed \/ UNCHANGED vars PROVE OpenInv'
  BY <1>7 DEF Closed, vars
<1> HIDE DEF OpenInv
<1> QED BY <1>1, <1>2, <1>3, <1>4, <1>5, <1>6, <1>7 DEF Next

\* A drained receive ring has RTS up.
LEMMA BacklogStep ==
  ASSUME InType, RtsInv, BacklogInv
  PROVE  [Next]_vars => BacklogInv'
<1> USE DEF BacklogInv, linkVars, cpuVars, rtsVars, inVars, Step, Jump, Lock, Di
<1>1. ASSUME Open PROVE BacklogInv'
  BY <1>1 DEF Open, InitRefused, InitLock, InitDi, InitSetup, InitUnlock, InitFail
<1>2. ASSUME Send PROVE BacklogInv'
  BY <1>2 DEF Send, SendLock, SendDi, SendRefuse, RefusalReturnsTo, SendStore,
              SendKick, SendBusy, SendAdvance
<1>3. ASSUME RecvLock \/ RecvDi \/ RecvEmpty PROVE BacklogInv'
  BY <1>3 DEF RecvLock, RecvDi, RecvEmpty
<1>4. ASSUME RecvTake \/ RecvSelectWr5 PROVE BacklogInv'
  BY <1>4 DEF RecvTake, RecvSelectWr5
<1>5. ASSUME RecvKeepRts PROVE BacklogInv'
  <2>1. /\ UNCHANGED <<serial_open, sioRts, inCount>>
        /\ pc = "recvFlow" /\ (wr5Rts \/ ~(inCount <= LowWater))
    BY <1>5 DEF RecvKeepRts, RaiseRts
  <2>2. wr5Rts = sioRts
    BY <2>1 DEF RtsInv
  <2> QED BY <2>1, <2>2, WaterAssumption DEF InType
<1>6. ASSUME RecvWriteWr5 PROVE BacklogInv'
  <2>1. sioRts' = IF regPtr = 5 THEN TRUE ELSE sioRts
    BY <1>6 DEF RecvWriteWr5, WriteWr5
  <2>2. regPtr = 5
    BY <1>6 DEF RecvWriteWr5, RtsInv
  <2> QED BY <2>1, <2>2
<1>7. ASSUME Close \/ Unlock \/ BdosCall \/ BdosReturn PROVE BacklogInv'
  BY <1>7 DEF Close, CloseLock, CloseDi, CloseQuiet, Unlock, BdosCall, BdosReturn
<1>8. ASSUME TxIsr \/ Sio PROVE BacklogInv'
  BY <1>8 DEF TxIsr, Sio, TxShift, RtsRelease, RxArrive
<1>9. ASSUME RxIsr PROVE BacklogInv'
  <2>1. pc' = pc /\ serial_open' = serial_open
    BY <1>9 DEF RxIsr
  <2>2. CASE inCount >= InSize
    <3>1. inCount' = inCount
      BY <1>9, <2>2 DEF RxIsr
    <3> QED BY <2>1, <2>2, <3>1, WaterAssumption, SizeAssumption DEF InType
  <2>3. CASE ~(inCount >= InSize)
    <3>1. /\ inCount' = inCount + 1
          /\ inCount' >= HighWater \/ UNCHANGED rtsVars
      BY <1>9, <2>3 DEF RxIsr, ReachesHighWater
    <3>2. CASE inCount' >= HighWater
      BY <3>1, <3>2, WaterAssumption DEF InType
    <3>3. CASE UNCHANGED rtsVars
      BY <2>1, <3>1, <3>3, WaterAssumption DEF InType
    <3> QED BY <3>1, <3>2, <3>3
  <2> QED BY <2>2, <2>3
<1>10. ASSUME Closed \/ UNCHANGED vars PROVE BacklogInv'
  BY <1>10 DEF Closed, vars
<1> HIDE DEF BacklogInv
<1> QED
  BY <1>1, <1>2, <1>3, <1>4, <1>5, <1>6, <1>7, <1>8, <1>9, <1>10
  DEF Next, Recv, Isr

\* The oldest byte of the transmit ring is the one after the last sent.
LEMMA OldestOut ==
  ASSUME OutType, OutInv, Leaving = 0, outCount # 0
  PROVE  outBuf[outTail] = LastSent + 1 /\ LastSent \in Nat
<1>1. 0 \in Leaving .. outCount - 1
  BY SizeAssumption DEF OutType
<1>2. outBuf[OutSlot(0)] = LastSent + 1 + 0 - 0
  BY <1>1 DEF OutInv
<1>3. LastSent \in Nat
  BY DEF OutType, LastSent
<1> QED BY <1>2, <1>3, OutSlotZero

\* A filled transmit ring has a transmission or its interrupt to come.
LEMMA ArmedStep ==
  ASSUME OutType, OutInv, MaskInv, ArmedInv
  PROVE  [Next]_vars => ArmedInv'
<1> USE DEF ArmedInv, cpuVars, outVars, txVars, Step, Jump, Lock, Di
<1>1. ASSUME Open PROVE ArmedInv'
  <2>1. ASSUME InitSetup PROVE ArmedInv'
    <3>1. outCount' = 0
      BY <2>1 DEF InitSetup
    <3> QED BY <3>1
  <2>2. ASSUME InitRefused \/ InitLock \/ InitDi PROVE ArmedInv'
    BY <2>2 DEF InitRefused, InitLock, InitDi
  <2>3. ASSUME InitUnlock PROVE ArmedInv'
    BY <2>3 DEF InitUnlock
  <2>4. ASSUME InitFail PROVE ArmedInv'
    BY <2>4 DEF InitFail
  <2> QED BY <1>1, <2>1, <2>2, <2>3, <2>4 DEF Open
<1>2. ASSUME SendLock \/ SendDi \/ SendRefuse \/ SendStore PROVE ArmedInv'
  BY <1>2 DEF SendLock, SendDi, SendRefuse, RefusalReturnsTo, SendStore
<1>3. ASSUME SendKick PROVE ArmedInv'
  <2>1. txHold' = outBuf[outTail] /\ pc = "sendKick"
    BY <1>3 DEF SendKick, KickByte
  <2>2. Leaving = 0 /\ outCount # 0
    BY <2>1 DEF Leaving, OutInv, OutType
  <2>3. txHold' # 0
    BY <2>1, <2>2, OldestOut
  <2> QED BY <2>3
<1>4. ASSUME SendBusy PROVE ArmedInv'
  BY <1>4 DEF SendBusy, TransmitterEmpty
<1>5. ASSUME SendAdvance PROVE ArmedInv'
  BY <1>5 DEF SendAdvance, OutInv
<1>6. ASSUME Recv PROVE ArmedInv'
  BY <1>6 DEF Recv, RecvLock, RecvDi, RecvEmpty, RecvTake, RecvKeepRts,
              RecvSelectWr5, RecvWriteWr5
<1>7. ASSUME Close \/ Unlock \/ BdosCall \/ BdosReturn PROVE ArmedInv'
  BY <1>7 DEF Close, CloseLock, CloseDi, CloseQuiet, Unlock, BdosCall, BdosReturn
<1>8. ASSUME RxIsr \/ Sio PROVE ArmedInv'
  <2>1. ASSUME RxIsr \/ RtsRelease \/ RxArrive PROVE ArmedInv'
    BY <2>1 DEF RxIsr, RtsRelease, RxArrive
  <2>2. ASSUME TxShift PROVE ArmedInv'
    <3>1. ie' = ie /\ txPend' = ie
      BY <2>2 DEF TxShift
    <3>2. ie' => txPend'
      BY <3>1
    <3> QED BY <3>2
  <2> QED BY <1>8, <2>1, <2>2 DEF Sio
<1>9. ASSUME TxIsr PROVE ArmedInv'
  <2>1. CASE outCount = 0
    BY <1>9, <2>1 DEF TxIsr
  <2>2. CASE outCount # 0
    <3>1. txHold' = outBuf[outTail] /\ Leaving = 0
      BY <1>9, <2>2 DEF TxIsr, MaskInv, Masked, Leaving
    <3>2. txHold' # 0
      BY <2>2, <3>1, OldestOut
    <3> QED BY <3>2
  <2> QED BY <2>1, <2>2
<1>10. ASSUME Closed \/ UNCHANGED vars PROVE ArmedInv'
  BY <1>10 DEF Closed, vars
<1> HIDE DEF ArmedInv
<1> QED
  BY <1>1, <1>2, <1>3, <1>4, <1>5, <1>6, <1>7, <1>8, <1>9, <1>10
  DEF Next, Send, Isr
-----------------------------------------------------------------------------
(* Flow control and the interrupt flag, under assumptions on the hardware. *)

\* What the design counts on: RTS falls at once, and the slots above the
\* high-water mark hold what the SIO and the peer still have then.
Sizing == ~DelayedRts /\ HighWater - 1 + FifoDepth + PeerSlack <= InSize

\* Room is left for everything that can still come once RTS has fallen.
LEMMA FlowStep ==
  ASSUME Sizing, InType, RtsType, RtsInv, MaskInv, FlowInv
  PROVE  [Next]_vars => FlowInv'
<1>1. ASSUME RtsKept, InKept PROVE FlowInv'
  BY <1>1 DEF RtsKept, InKept, rtsVars, inVars, FlowInv
<1>2. ASSUME InitSetup PROVE FlowInv'
  BY <1>2, WaterAssumption DEF InitSetup, FlowInv
<1>3. ASSUME RecvTake PROVE FlowInv'
  <2>1. /\ inCount' = inCount - 1 /\ rxFifo' = rxFifo /\ UNCHANGED rtsVars
    BY <1>3 DEF RecvTake
  <2> QED BY <2>1, WaterAssumption, SizeAssumption, PeerAssumption
          DEF FlowInv, rtsVars, InType, RtsType
<1>4. ASSUME RecvSelectWr5 PROVE FlowInv'
  BY <1>4 DEF RecvSelectWr5, FlowInv, inVars
<1>5. ASSUME RecvWriteWr5 PROVE FlowInv'
  <2>1. regPtr = 5 /\ inCount <= LowWater /\ inCount' = inCount
    BY <1>5 DEF RecvWriteWr5, Jump, RtsInv, inVars
  <2>2. sioRts' = TRUE /\ rtsLine' = TRUE /\ credit' = PeerSlack
    BY <1>5, <2>1 DEF RecvWriteWr5, WriteWr5
  <2> QED BY <2>1, <2>2, WaterAssumption DEF FlowInv, InType
<1>6. ASSUME CloseQuiet PROVE FlowInv'
  <2>1. /\ sioRts' = FALSE /\ rtsLine' = FALSE /\ credit' = credit
        /\ inCount' = inCount /\ rxFifo' = rxFifo
    BY <1>6 DEF CloseQuiet, Sizing, inVars
  <2>2. inCount + rxFifo + credit <= InSize
    BY WaterAssumption, SizeAssumption, PeerAssumption
    DEF FlowInv, Sizing, InType, RtsType
  <2> QED BY <2>1, <2>2 DEF FlowInv
<1>7. ASSUME RtsRelease PROVE FlowInv'
  BY <1>7 DEF RtsRelease, FlowInv
<1>8. ASSUME RxArrive PROVE FlowInv'
  <2>1. /\ sioRts' = sioRts /\ rtsLine' = rtsLine /\ inCount' = inCount
        /\ rxFifo' = rxFifo + 1
        /\ credit' = IF rtsLine THEN credit ELSE credit - 1
    BY <1>8 DEF RxArrive, inVars
  <2> QED BY <2>1, SizeAssumption, PeerAssumption DEF FlowInv, InType, RtsType
<1>9. ASSUME RxIsr PROVE FlowInv'
  <2>1. rxFifo' = rxFifo - 1 /\ wr5Rts = sioRts
    BY <1>9 DEF RxIsr, RtsInv, MaskInv, Masked
  <2>2. ASSUME HandlerLowersRts
        PROVE  sioRts' = FALSE /\ rtsLine' = FALSE /\ credit' = credit
    BY <2>2 DEF HandlerLowersRts, Sizing
  <2>3. CASE inCount >= InSize
    <3>1. inCount' = inCount /\ HandlerLowersRts
      BY <1>9, <2>3 DEF RxIsr, inVars
    <3> QED BY <2>1, <2>2, <2>3, <3>1, WaterAssumption, SizeAssumption,
               PeerAssumption DEF FlowInv, InType, RtsType
  <2>4. CASE ~(inCount >= InSize) /\ ReachesHighWater /\ wr5Rts
    <3>1. inCount' = inCount + 1 /\ HandlerLowersRts
      BY <1>9, <2>4 DEF RxIsr
    <3> QED BY <2>1, <2>2, <2>4, <3>1, WaterAssumption, SizeAssumption,
               PeerAssumption DEF FlowInv, Sizing, InType, RtsType
  <2>5. CASE ~(inCount >= InSize) /\ ~(ReachesHighWater /\ wr5Rts)
    <3>1. inCount' = inCount + 1 /\ UNCHANGED rtsVars
      BY <1>9, <2>5 DEF RxIsr
    <3>2. sioRts => ~(inCount' >= HighWater)
      BY <2>1, <2>5 DEF ReachesHighWater
    <3> QED BY <2>1, <3>1, <3>2, WaterAssumption, SizeAssumption,
               PeerAssumption DEF FlowInv, rtsVars, InType, RtsType
  <2> QED BY <2>3, <2>4, <2>5
<1> QED
  BY <1>1, <1>2, <1>3, <1>4, <1>5, <1>6, <1>7, <1>8, <1>9, RtsFrame, InFrame
  DEF RtsWriter, InWriter

\* An operation entered with interrupts enabled remembers so until it has given
\* them back.
Free == {"start", "idle", "bdos", "initDi", "sendDi", "recvDi", "closeDi"}
ReturnInv == /\ pc \in Free => iff
             /\ pc \notin {"start", "closed"} => saved

\* While LD A,I tells the truth, every step keeps that.
LEMMA ReturnStep ==
  ASSUME ~LdAIErratum, ReturnInv PROVE [Next]_vars => ReturnInv'
<1> USE DEF ReturnInv, Free, cpuVars, Step, Jump, Lock, ReadIff, Di
<1>1. ASSUME Open PROVE ReturnInv'
  <2>1. ASSUME InitUnlock PROVE ReturnInv'
    <3>1. saved /\ saved' = saved
      BY <2>1 DEF InitUnlock
    <3>2. pc' = "idle" /\ iff' = (saved \/ iff)
      BY <2>1, <3>1 DEF InitUnlock
    <3>3. iff'
      BY <3>1, <3>2
    <3> QED BY <3>1, <3>3
  <2>2. ASSUME Open, ~InitUnlock PROVE ReturnInv'
    BY <2>2 DEF Open, InitRefused, InitLock, InitDi, InitSetup, InitFail
  <2> QED BY <1>1, <2>1, <2>2
<1>2. ASSUME Send PROVE ReturnInv'
  BY <1>2 DEF Send, SendLock, SendDi, SendRefuse, RefusalReturnsTo, SendStore,
              SendKick, SendBusy, SendAdvance
<1>3. ASSUME RecvLock \/ RecvDi \/ RecvEmpty \/ RecvTake PROVE ReturnInv'
  BY <1>3 DEF RecvLock, RecvDi, RecvEmpty, RecvTake
<1>4. ASSUME RecvKeepRts \/ RecvSelectWr5 PROVE ReturnInv'
  BY <1>4 DEF RecvKeepRts, RecvSelectWr5
<1>5. ASSUME RecvWriteWr5 PROVE ReturnInv'
  BY <1>5 DEF RecvWriteWr5
<1>6. ASSUME Close \/ BdosCall \/ BdosReturn PROVE ReturnInv'
  BY <1>6 DEF Close, CloseLock, CloseDi, CloseQuiet, BdosCall, BdosReturn
<1>7. ASSUME Unlock PROVE ReturnInv'
  <2>1. saved /\ saved' = saved /\ iff' = (saved \/ iff)
    BY <1>7 DEF Unlock
  <2>2. iff'
    BY <2>1
  <2> QED BY <2>1, <2>2
<1>8. ASSUME Isr \/ Sio PROVE ReturnInv'
  BY <1>8 DEF Isr, RxIsr, TxIsr, Sio, TxShift, RtsRelease, RxArrive
<1>9. ASSUME Closed \/ UNCHANGED vars PROVE ReturnInv'
  BY <1>9 DEF Closed, vars
<1> HIDE DEF ReturnInv
<1> QED
  BY <1>1, <1>2, <1>3, <1>4, <1>5, <1>6, <1>7, <1>8, <1>9 DEF Next, Recv
-----------------------------------------------------------------------------
(* The results.                                                            *)

\* The program starts in the invariant.
LEMMA InitOK == Init => TypeOK /\ Inv /\ FlowInv
<1> SUFFICES ASSUME Init PROVE TypeOK /\ Inv /\ FlowInv
  OBVIOUS
<1>1. ControlType
  BY ModeAssumption DEF Init, ControlType, Labels
<1>2. OutType
  <2>1. /\ 0 \in 0 .. OutSize - 1 /\ 0 \in 0 .. OutSize
        /\ outBuf = [i \in 0 .. OutSize - 1 |-> 0]
        /\ outHead = 0 /\ outTail = 0 /\ outCount = 0
        /\ txHold = 0 /\ txPend = FALSE /\ accepted = 0 /\ wire = 0
    BY SizeAssumption DEF Init
  <2> QED BY <2>1 DEF OutType
<1>3. InType
  <2>1. /\ 0 \in 0 .. InSize - 1 /\ 0 \in 0 .. InSize /\ 0 \in 0 .. FifoDepth
        /\ inBuf = [i \in 0 .. InSize - 1 |-> 0]
        /\ inHead = 0 /\ inTail = 0 /\ inCount = 0
        /\ rxFifo = 0 /\ arrived = 0 /\ got = 0
    BY SizeAssumption, PeerAssumption DEF Init
  <2> QED BY <2>1 DEF InType
<1>4. RtsType
  <2>1. /\ 0 \in 0 .. PeerSlack /\ credit = 0 /\ regPtr = 0
        /\ wr5Rts = FALSE /\ sioRts = FALSE /\ rtsLine = FALSE
    BY PeerAssumption DEF Init
  <2> QED BY <2>1 DEF RtsType
<1>5. MaskInv /\ RtsInv /\ OpenInv /\ BacklogInv /\ ArmedInv
  BY DEF Init, MaskInv, Masked, RtsInv, OpenInv, BacklogInv, ArmedInv
<1>6. OutInv
  BY SizeAssumption DEF Init, OutInv, OutSlot, LastSent, Leaving
<1>7. InInv
  BY SizeAssumption DEF Init, InInv, InSlot
<1>8. FlowInv
  <2>1. /\ sioRts = FALSE /\ rtsLine = FALSE
        /\ inCount = 0 /\ rxFifo = 0 /\ credit = 0
    BY DEF Init
  <2>2. inCount + rxFifo + credit <= InSize
    BY <2>1, SizeAssumption
  <2> QED BY <2>1, <2>2 DEF FlowInv
<1> QED BY <1>1, <1>2, <1>3, <1>4, <1>5, <1>6, <1>7, <1>8 DEF TypeOK, Inv

\* Every step keeps the invariant: the sum of the step lemmas.
LEMMA StepOK == TypeOK /\ Inv /\ [Next]_vars => TypeOK' /\ Inv'
<1> SUFFICES ASSUME TypeOK, Inv, [Next]_vars PROVE TypeOK' /\ Inv'
  OBVIOUS
<1> USE DEF TypeOK, Inv
<1>1. OutType' /\ OutInv'
  BY OutStep
<1>2. InType' /\ InInv'
  BY InStep
<1>3. ControlType' /\ MaskInv'
  BY ControlStep, MaskStep
<1>4. RtsType' /\ RtsInv'
  BY RtsStep
<1>5. OpenInv' /\ BacklogInv' /\ ArmedInv'
  BY OpenStep, BacklogStep, ArmedStep
<1> QED BY <1>1, <1>2, <1>3, <1>4, <1>5

\* Every variable keeps its type: indices stay inside the rings whatever their
\* sizes, and the counts never pass them.
THEOREM TypeCorrect == Spec => []TypeOK
<1>1. Init => TypeOK /\ Inv
  BY InitOK
<1> QED BY <1>1, StepOK, PTL DEF Spec

\* The inductive invariant holds of every reachable state.
THEOREM Invariant == Spec => []Inv
<1>1. Init => TypeOK /\ Inv
  BY InitOK
<1> QED BY <1>1, StepOK, PTL DEF Spec

\* A handler never meets the SIO's register pointer half-way, and the shadow of
\* WR5 tells the truth.
THEOREM ControlWord == Spec => []ControlWordIntact
<1>1. RtsInv /\ MaskInv => ControlWordIntact
  BY DEF RtsInv, MaskInv, Masked, ControlWordIntact
<1>2. Inv => ControlWordIntact
  BY <1>1 DEF Inv
<1> QED BY <1>2, Invariant, PTL

\* RTS is never left low over a drained ring.
THEOREM RtsRaised == Spec => []RtsLowMeansBacklog
<1>1. OpenInv /\ BacklogInv => RtsLowMeansBacklog
  BY DEF OpenInv, BacklogInv, RtsLowMeansBacklog
<1>2. Inv => RtsLowMeansBacklog
  BY <1>1 DEF Inv
<1> QED BY <1>2, Invariant, PTL

\* No lost TX wakeup.
THEOREM TransmitterArmed == Spec => []TxArmed
<1>1. OpenInv /\ ArmedInv => TxArmed
  BY DEF OpenInv, ArmedInv, TxArmed
<1>2. Inv => TxArmed
  BY <1>1 DEF Inv
<1> QED BY <1>2, Invariant, PTL

\* With RTS that falls at once and room for the characters in flight, the RX
\* handler never finds the ring full.
THEOREM NeverOverrun == Sizing => (Spec => []NoOverrun)
<1> SUFFICES ASSUME Sizing PROVE Spec => []NoOverrun
  OBVIOUS
<1>1. Init => TypeOK /\ Inv /\ FlowInv
  BY InitOK
<1>2. TypeOK /\ Inv /\ FlowInv /\ [Next]_vars => FlowInv'
  BY FlowStep DEF TypeOK, Inv
<1>3. TypeOK /\ FlowInv => NoOverrun
  BY WaterAssumption, SizeAssumption, PeerAssumption
  DEF TypeOK, InType, RtsType, FlowInv, NoOverrun
<1> QED BY <1>1, <1>2, <1>3, StepOK, PTL DEF Spec

\* With a flip-flop that is read right, a program entered with interrupts
\* enabled has them enabled between any two operations.
THEOREM InterruptsComeBack ==
  ~LdAIErratum /\ EntryIff = {TRUE} => (Spec => []InterruptsReturn)
<1> SUFFICES ASSUME ~LdAIErratum, EntryIff = {TRUE}
             PROVE  Spec => []InterruptsReturn
  OBVIOUS
<1>1. Init => ReturnInv
  BY DEF Init, ReturnInv, Free
<1>2. ReturnInv /\ [Next]_vars => ReturnInv'
  BY ReturnStep
<1>3. ReturnInv => InterruptsReturn
  BY DEF ReturnInv, Free, InterruptsReturn
<1> QED BY <1>1, <1>2, <1>3, PTL DEF Spec
-----------------------------------------------------------------------------
(* The driver implements SerialFifo.                                       *)

StreamWriter == SendStore \/ SendRefuse \/ TxShift \/ RxArrive \/ RecvTake
                \/ RxIsr

\* Every other step leaves the streams as they are.
LEMMA StreamFrame == [Next]_vars /\ ~StreamWriter => UNCHANGED Fifo!vars
<1> USE DEF Fifo!vars, Step, Jump, Lock, Di, histVars, linkVars
<1>1. ASSUME Open PROVE UNCHANGED Fifo!vars
  BY <1>1 DEF Open, InitRefused, InitLock, InitDi, InitSetup, InitUnlock, InitFail
<1>2. ASSUME Send, ~SendStore, ~SendRefuse PROVE UNCHANGED Fifo!vars
  BY <1>2 DEF Send, SendLock, SendDi, SendKick, SendBusy, SendAdvance
<1>3. ASSUME Recv, ~RecvTake PROVE UNCHANGED Fifo!vars
  BY <1>3 DEF Recv, RecvLock, RecvDi, RecvEmpty, RecvKeepRts, RecvSelectWr5,
              RecvWriteWr5
<1>4. ASSUME Close \/ Unlock \/ BdosCall \/ BdosReturn
      PROVE  UNCHANGED Fifo!vars
  BY <1>4 DEF Close, CloseLock, CloseDi, CloseQuiet, Unlock, BdosCall, BdosReturn
<1>5. ASSUME TxIsr \/ RtsRelease PROVE UNCHANGED Fifo!vars
  BY <1>5 DEF TxIsr, RtsRelease
<1>6. ASSUME Closed \/ UNCHANGED vars PROVE UNCHANGED Fifo!vars
  BY <1>6 DEF Closed, vars
<1> HIDE DEF Fifo!vars
<1> QED
  BY <1>1, <1>2, <1>3, <1>4, <1>5, <1>6 DEF Next, StreamWriter, Isr, Sio

\* A store accepts a byte, a shift emits one, a receive delivers one; a full
\* ring fails the link.
LEMMA StreamStep ==
  ASSUME TypeOK, Inv, [Next]_vars PROVE [Fifo!Next]_(Fifo!vars)
<1> USE DEF TypeOK, Inv, histVars, linkVars
<1>1. ASSUME SendStore PROVE Fifo!Accept
  <2>1. /\ accepted' = accepted + 1
        /\ UNCHANGED <<wire, arrived, got, serial_fault>>
        /\ outCount < OutSize /\ Leaving = 0
    BY <1>1 DEF SendStore, Jump, Leaving
  <2>2. LastSent \in Nat /\ LastSent <= wire + 1
    BY DEF LastSent, OutInv, OutType
  <2>3. LastSent + outCount = accepted
    BY <2>1 DEF OutInv, OutType
  <2>4. accepted - wire < OutSize + 1
    BY <2>1, <2>2, <2>3, SizeAssumption DEF OutType
  <2> QED BY <2>1, <2>4 DEF Fifo!Accept
<1>2. ASSUME TxShift PROVE Fifo!Emit
  <2>1. /\ txHold # 0 /\ wire' = txHold
        /\ UNCHANGED <<accepted, arrived, got, serial_fault>>
    BY <1>2 DEF TxShift
  <2>2. wire' = wire + 1 /\ LastSent = wire + 1
    BY <2>1 DEF OutInv, LastSent
  <2>3. LastSent + outCount = accepted + Leaving /\ Leaving <= outCount
    BY SizeAssumption DEF OutInv, OutType, Leaving
  <2>4. wire < accepted
    BY <2>2, <2>3, SizeAssumption DEF OutType, Leaving
  <2> QED BY <2>1, <2>2, <2>4 DEF Fifo!Emit
<1>3. ASSUME RxArrive PROVE Fifo!Arrive
  <2>1. /\ arrived' = arrived + 1 /\ rxFifo < FifoDepth
        /\ UNCHANGED <<accepted, wire, got, serial_fault>>
    BY <1>3 DEF RxArrive
  <2>2. ~serial_fault => arrived - got < InSize + FifoDepth
    BY <2>1, SizeAssumption, PeerAssumption DEF InInv, InType
  <2> QED BY <2>1, <2>2 DEF Fifo!Arrive
<1>4. ASSUME RecvTake PROVE Fifo!Deliver
  <2>1. /\ got' = inBuf[inTail] /\ inCount # 0
        /\ UNCHANGED <<accepted, wire, arrived, serial_fault>>
    BY <1>4 DEF RecvTake
  <2>2. got' \in got + 1 .. arrived - rxFifo /\ (~serial_fault => got' = got + 1)
    BY <2>1, Oldest
  <2>3. got' \in got + 1 .. arrived
    BY <2>2, PeerAssumption DEF InType
  <2> QED BY <2>1, <2>2, <2>3 DEF Fifo!Deliver
<1>5. ASSUME SendRefuse PROVE Fifo!Fail
  BY <1>5 DEF SendRefuse, Fifo!Fail
<1>6. ASSUME RxIsr PROVE Fifo!Fail \/ UNCHANGED Fifo!vars
  BY <1>6 DEF RxIsr, Fifo!Fail, Fifo!vars
<1> QED
  BY <1>1, <1>2, <1>3, <1>4, <1>5, <1>6, StreamFrame DEF StreamWriter, Fifo!Next

\* The driver implements the two ordered streams, whatever the sizes, the peer,
\* the chip's RTS and the state of the interrupt flag.
THEOREM ImplementsFifo == Spec => OrderedStreams
<1>1. Init => TypeOK /\ Inv
  BY InitOK
<1>2. Init => Fifo!Init
  BY DEF Init, Fifo!Init
<1>3. TypeOK /\ Inv /\ [Next]_vars => [Fifo!Next]_(Fifo!vars)
  BY StreamStep
<1> QED BY <1>1, <1>2, <1>3, StepOK, PTL DEF Spec, OrderedStreams, Fifo!Spec
=============================================================================
