---------------------------- MODULE SerialDriver ----------------------------
(***************************************************************************)
(* The interrupt-driven serial driver: the foreground half of              *)
(* src/src/serial_link.c (serial_initialize, serial_send_character,        *)
(* serial_receive_character, the UART part of paket_link_close), the IM2   *)
(* handlers of src/src/serial_isr.s, and, external, the Z80 SIO, the CPU's *)
(* interrupt flip-flop and the peer at the other end of the cable.         *)
(*                                                                         *)
(* The foreground runs in steps of one port operation or one ring update;  *)
(* a handler is one step, because it runs with interrupts disabled while   *)
(* the foreground waits and the SIO only moves what it does not touch.     *)
(* A byte is its position in its stream (see SerialFifo).                  *)
(***************************************************************************)
EXTENDS Integers

CONSTANTS OutSize,     \* paket_serial_output_size, SERIAL_TX_RING_SIZE
          InSize,      \* paket_serial_input_size, SERIAL_RX_RING_SIZE
          HighWater,   \* SERIAL_RX_HIGH_WATER
          LowWater,    \* paket_serial_input_low_water
          FifoDepth,   \* characters the SIO holds for the CPU
          PeerSlack,   \* characters the peer sends after it sees RTS fall
          DelayedRts,  \* the SIO keeps RTS up until its transmitter is idle
          LdAIErratum, \* LD A,I may misreport when an interrupt is accepted
          EntryIff,    \* interrupt states PAKET may be entered in
          MaxOut,      \* bound: bytes libsquid sends
          MaxIn        \* bound: bytes the peer sends

ASSUME SizeAssumption == OutSize \in Nat \ {0} /\ InSize \in Nat \ {0}
ASSUME WaterAssumption == HighWater \in Nat /\ LowWater \in Nat
                          /\ LowWater < HighWater /\ HighWater < InSize
ASSUME PeerAssumption == FifoDepth \in Nat \ {0} /\ PeerSlack \in Nat
ASSUME ModeAssumption == DelayedRts \in BOOLEAN /\ LdAIErratum \in BOOLEAN
                         /\ EntryIff \subseteq BOOLEAN
ASSUME BoundAssumption == MaxOut \in Nat /\ MaxIn \in Nat

VARIABLES
  \* the foreground and the CPU
  pc, saved, iff,
  \* link state
  serial_open, serial_fault, vectors, wr5Rts,
  \* the two rings
  outBuf, outHead, outTail, outCount, inBuf, inHead, inTail, inCount,
  \* the SIO channel: register pointer, WR5 RTS bit, RTS line, interrupts
  \* enabled, transmit buffer (0 when empty), TX interrupt pending, characters
  \* received and not yet read
  regPtr, sioRts, rtsLine, ie, txHold, txPend, rxFifo,
  \* the peer's remaining characters after RTS fell
  credit,
  \* history: the streams' positions
  accepted, wire, arrived, got

cpuVars  == <<pc, saved, iff>>
linkVars == <<serial_open, serial_fault, vectors>>
outVars  == <<outBuf, outHead, outTail, outCount>>
inVars   == <<inBuf, inHead, inTail, inCount>>
rtsVars  == <<wr5Rts, regPtr, sioRts, rtsLine, credit>>
txVars   == <<txHold, txPend>>
histVars == <<accepted, wire, arrived, got>>
vars == <<cpuVars, linkVars, outVars, inVars, rtsVars, txVars, ie, rxFifo,
          histVars>>

OutNextMutant(i) == i + 1  \* the mask forgotten
OutNext(i) == (i + 1) % OutSize
InNext(i)  == (i + 1) % InSize

Labels == {"start", "initDi", "initSetup", "initUnlock", "initFail", "idle",
           "sendDi", "sendCheck", "sendKick", "sendAdvance",
           "recvDi", "recvTake", "recvFlow", "recvWr5",
           "closeDi", "closeQuiet", "unlock", "bdos", "closed"}

Init == /\ pc = "start" /\ saved = FALSE /\ iff \in EntryIff
        /\ serial_open = FALSE /\ serial_fault = FALSE /\ vectors = FALSE
        /\ outBuf = [i \in 0 .. OutSize - 1 |-> 0]
        /\ outHead = 0 /\ outTail = 0 /\ outCount = 0
        /\ inBuf = [i \in 0 .. InSize - 1 |-> 0]
        /\ inHead = 0 /\ inTail = 0 /\ inCount = 0
        /\ wr5Rts = FALSE /\ regPtr = 0 /\ sioRts = FALSE /\ rtsLine = FALSE
        /\ ie = FALSE /\ txHold = 0 /\ txPend = FALSE /\ rxFifo = 0
        /\ credit = 0
        /\ accepted = 0 /\ wire = 0 /\ arrived = 0 /\ got = 0
-----------------------------------------------------------------------------
(* The SIO (external).                                                     *)

\* A value for WR5 reaches it only when the pointer selects it, and every
\* write of a value brings the pointer back to 0.  RTS follows the bit up at
\* once; down, a chip that delays it waits for an idle transmitter.
WriteWr5(rts) ==
  /\ regPtr' = 0
  /\ sioRts' = IF regPtr = 5 THEN rts ELSE sioRts
  /\ rtsLine' = (sioRts' \/ (DelayedRts /\ rtsLine /\ txHold # 0))
  /\ credit' = IF sioRts' THEN PeerSlack ELSE credit

ShadowAfterLoweringMutant == wr5Rts  \* the shadow is not stored back
ShadowAfterLowering == FALSE

\* The two writes of a handler.  Were the foreground between its own two, the
\* first would land in WR5 (5 has RTS clear) and the second in WR0: either
\* way the bit is cleared.
HandlerLowersRts ==
  /\ regPtr' = 0
  /\ sioRts' = FALSE
  /\ rtsLine' = (DelayedRts /\ rtsLine /\ txHold # 0)
  /\ wr5Rts' = ShadowAfterLowering
  /\ UNCHANGED credit

\* The transmit buffer empties onto the line, when CTS lets it, and that
\* latches the TX interrupt.
TxShift == /\ txHold # 0
           /\ wire' = txHold
           /\ txHold' = 0
           /\ txPend' = ie
           /\ UNCHANGED <<cpuVars, linkVars, outVars, inVars, rtsVars, ie,
                          rxFifo, accepted, arrived, got>>

\* The delayed fall of RTS.
RtsRelease == /\ rtsLine /\ ~sioRts /\ txHold = 0
              /\ rtsLine' = FALSE
              /\ UNCHANGED <<cpuVars, linkVars, outVars, inVars, wr5Rts, regPtr,
                             sioRts, credit, txVars, ie, rxFifo, histVars>>

\* The peer's next character.  It sends freely while it sees RTS, and PeerSlack
\* more once it has fallen.  The FifoDepth guard is the timing assumption that
\* interrupts are never held off for longer than the hardware buffers.
RxArrive == /\ arrived < MaxIn
            /\ rxFifo < FifoDepth
            /\ rtsLine \/ credit > 0
            /\ credit' = IF rtsLine THEN credit ELSE credit - 1
            /\ arrived' = arrived + 1
            /\ rxFifo' = rxFifo + 1
            /\ UNCHANGED <<cpuVars, linkVars, outVars, inVars, wr5Rts, regPtr,
                           sioRts, rtsLine, txVars, ie, accepted, wire, got>>
-----------------------------------------------------------------------------
(* The handlers of serial_isr.s.                                           *)

Received == arrived - rxFifo + 1  \* the character the data port gives

ReachesHighWaterMutant == inCount' > HighWater
ReachesHighWater == inCount' >= HighWater

RxIsr ==
  /\ iff /\ ie /\ vectors /\ rxFifo > 0
  /\ rxFifo' = rxFifo - 1
  /\ IF inCount >= InSize
     THEN /\ serial_fault' = TRUE
          /\ HandlerLowersRts
          /\ UNCHANGED inVars
     ELSE /\ inBuf' = [inBuf EXCEPT ![inHead] = Received]
          /\ inHead' = InNext(inHead)
          /\ inCount' = inCount + 1
          /\ IF ReachesHighWater /\ wr5Rts
             THEN HandlerLowersRts ELSE UNCHANGED rtsVars
          /\ UNCHANGED <<inTail, serial_fault>>
  /\ UNCHANGED <<cpuVars, serial_open, vectors, outVars, txVars, ie, histVars>>

TxIsr ==
  /\ iff /\ ie /\ vectors /\ txPend
  /\ txPend' = FALSE
  /\ IF outCount = 0
     THEN UNCHANGED <<outTail, outCount, txHold>>
     ELSE /\ txHold' = outBuf[outTail]
          /\ outTail' = OutNext(outTail)
          /\ outCount' = outCount - 1
  /\ UNCHANGED <<cpuVars, linkVars, outBuf, outHead, inVars, rtsVars, ie,
                 rxFifo, histVars>>
-----------------------------------------------------------------------------
(* Steps every foreground operation shares.                                *)

\* paket_serial_interrupt_lock reads the flip-flop with LD A,I, then disables
\* interrupts: two instructions, and a handler may run between them.
ReadIff == saved' \in IF iff /\ LdAIErratum THEN BOOLEAN ELSE {iff}

Jump(from, to) == pc = from /\ pc' = to

\* A step that only moves on.
Step(from, to) ==
  /\ Jump(from, to)
  /\ UNCHANGED <<saved, iff, linkVars, outVars, inVars, rtsVars, txVars, ie,
                 rxFifo, histVars>>

Lock(from, to) ==
  /\ Jump(from, to) /\ ReadIff
  /\ UNCHANGED <<iff, linkVars, outVars, inVars, rtsVars, txVars, ie, rxFifo,
                 histVars>>

Di(from, to) ==
  /\ Jump(from, to) /\ iff' = FALSE
  /\ UNCHANGED <<saved, linkVars, outVars, inVars, rtsVars, txVars, ie, rxFifo,
                 histVars>>

Unlock == /\ Jump("unlock", IF serial_open THEN "idle" ELSE "closed")
          /\ iff' = (saved \/ iff)
          /\ UNCHANGED <<saved, linkVars, outVars, inVars, rtsVars, txVars, ie,
                         rxFifo, histVars>>
-----------------------------------------------------------------------------
(* serial_initialize.                                                      *)

\* serial_common_memory_available said no.
InitRefused == Step("start", "closed")

InitLock == Lock("start", "initDi")
InitDi   == Di("initDi", "initSetup")

InitSetup ==
  /\ Jump("initSetup", "initUnlock")
  /\ outHead' = 0 /\ outTail' = 0 /\ outCount' = 0
  /\ inHead' = 0 /\ inTail' = 0 /\ inCount' = 0
  /\ vectors' = TRUE
  /\ serial_open' = TRUE
  /\ ie' = TRUE
  /\ regPtr' = 0 /\ wr5Rts' = TRUE /\ sioRts' = TRUE /\ rtsLine' = TRUE
  /\ credit' = PeerSlack
  /\ UNCHANGED <<saved, iff, serial_fault, outBuf, inBuf, txVars, rxFifo,
                 histVars>>

InitUnlock == /\ Jump("initUnlock", IF saved THEN "idle" ELSE "initFail")
              /\ iff' = (saved \/ iff)
              /\ UNCHANGED <<saved, linkVars, outVars, inVars, rtsVars, txVars,
                             ie, rxFifo, histVars>>

InitFail == /\ Jump("initFail", "closed")
            /\ vectors' = FALSE
            /\ serial_open' = FALSE
            /\ UNCHANGED <<saved, iff, serial_fault, outVars, inVars, rtsVars,
                           txVars, ie, rxFifo, histVars>>
-----------------------------------------------------------------------------
(* serial_send_character.                                                  *)

SendLock == accepted < MaxOut /\ Lock("idle", "sendDi")
SendDi   == Di("sendDi", "sendCheck")

RefusalReturnsToMutant == "idle"  \* an early return that forgets to unlock
RefusalReturnsTo == "unlock"

SendRefuse ==
  /\ Jump("sendCheck", RefusalReturnsTo)
  /\ (~serial_open \/ outCount >= OutSize)
  /\ serial_fault' = TRUE
  /\ UNCHANGED <<saved, iff, serial_open, vectors, outVars, inVars, rtsVars,
                 txVars, ie, rxFifo, histVars>>

SendStore ==
  /\ Jump("sendCheck", "sendKick")
  /\ serial_open /\ outCount < OutSize
  /\ outBuf' = [outBuf EXCEPT ![outHead] = accepted + 1]
  /\ outHead' = OutNext(outHead)
  /\ outCount' = outCount + 1
  /\ accepted' = accepted + 1
  /\ UNCHANGED <<saved, iff, linkVars, outTail, inVars, rtsVars, txVars, ie,
                 rxFifo, wire, arrived, got>>

TransmitterEmptyMutant == txPend  \* kicks only when an interrupt is due
TransmitterEmpty == txHold = 0    \* RR0 bit 2

KickByteMutant == accepted        \* sends the new byte past those queued
KickByte == outBuf[outTail]

SendKick ==
  /\ Jump("sendKick", "sendAdvance")
  /\ TransmitterEmpty
  /\ txHold' = KickByte
  /\ txPend' = FALSE
  /\ UNCHANGED <<saved, iff, linkVars, outVars, inVars, rtsVars, ie, rxFifo,
                 histVars>>

SendBusy == ~TransmitterEmpty /\ Step("sendKick", "unlock")

SendAdvance ==
  /\ Jump("sendAdvance", "unlock")
  /\ outTail' = OutNext(outTail)
  /\ outCount' = outCount - 1
  /\ UNCHANGED <<saved, iff, linkVars, outBuf, outHead, inVars, rtsVars, txVars,
                 ie, rxFifo, histVars>>
-----------------------------------------------------------------------------
(* serial_receive_character.                                               *)

RecvLock == Lock("idle", "recvDi")
RecvDiMutant == Step("recvDi", "recvTake")  \* interrupts stay enabled
RecvDi   == Di("recvDi", "recvTake")

RecvEmpty == (~serial_open \/ inCount = 0) /\ Step("recvTake", "unlock")

RecvTake ==
  /\ Jump("recvTake", "recvFlow")
  /\ serial_open /\ inCount # 0
  /\ got' = inBuf[inTail]
  /\ inTail' = InNext(inTail)
  /\ inCount' = inCount - 1
  /\ UNCHANGED <<saved, iff, linkVars, outVars, inBuf, inHead, rtsVars, txVars,
                 ie, rxFifo, accepted, wire, arrived>>

RaiseRtsMutant == inCount < LowWater /\ ~wr5Rts
RaiseRts == inCount <= LowWater /\ ~wr5Rts

RecvKeepRts == ~RaiseRts /\ Step("recvFlow", "unlock")

\* serial_write_wr5: the register number, then the value and the shadow.
RecvSelectWr5 ==
  /\ Jump("recvFlow", "recvWr5")
  /\ RaiseRts
  /\ regPtr' = 5
  /\ UNCHANGED <<saved, iff, linkVars, outVars, inVars, wr5Rts, sioRts, rtsLine,
                 credit, txVars, ie, rxFifo, histVars>>

RecvWriteWr5 ==
  /\ Jump("recvWr5", "unlock")
  /\ WriteWr5(TRUE)
  /\ wr5Rts' = TRUE
  /\ UNCHANGED <<saved, iff, linkVars, outVars, inVars, txVars, ie, rxFifo,
                 histVars>>
-----------------------------------------------------------------------------
(* The rest of the program, and paket_link_close.                          *)

\* A CP/M call (console, disk): handlers keep running in common memory.
BdosCall   == Step("idle", "bdos")
BdosReturn == Step("bdos", "idle")

CloseLock == Lock("idle", "closeDi")
CloseDi   == Di("closeDi", "closeQuiet")

CloseQuiet ==
  /\ Jump("closeQuiet", "unlock")
  /\ ie' = FALSE
  /\ txPend' = FALSE
  /\ regPtr' = 0 /\ wr5Rts' = FALSE /\ sioRts' = FALSE
  /\ rtsLine' = (DelayedRts /\ rtsLine /\ txHold # 0)
  /\ vectors' = FALSE
  /\ serial_open' = FALSE
  /\ UNCHANGED <<saved, iff, serial_fault, outVars, inVars, credit, txHold,
                 rxFifo, histVars>>

\* The transient has given the port back; only the hardware still moves.
Closed == pc = "closed" /\ UNCHANGED vars
-----------------------------------------------------------------------------
Send == SendLock \/ SendDi \/ SendRefuse \/ SendStore \/ SendKick \/ SendBusy
        \/ SendAdvance
Recv == RecvLock \/ RecvDi \/ RecvEmpty \/ RecvTake \/ RecvKeepRts
        \/ RecvSelectWr5 \/ RecvWriteWr5
Open == InitRefused \/ InitLock \/ InitDi \/ InitSetup \/ InitUnlock \/ InitFail
Close == CloseLock \/ CloseDi \/ CloseQuiet
Sio == TxShift \/ RtsRelease \/ RxArrive
Isr == RxIsr \/ TxIsr

Next == Open \/ Send \/ Recv \/ Close \/ Unlock \/ BdosCall \/ BdosReturn
        \/ Isr \/ Sio \/ Closed

Spec == Init /\ [][Next]_vars

\* What the hardware and the program do for sure: the peer does not hold CTS off
\* for ever, the CPU takes a pending interrupt after EI, an operation once begun
\* runs to its end, and the link is polled (pump_link) again and again.
Operation == Open
             \/ SendDi \/ SendRefuse \/ SendStore \/ SendKick \/ SendBusy
             \/ SendAdvance \/ RecvDi \/ RecvEmpty \/ RecvTake \/ RecvKeepRts
             \/ RecvSelectWr5 \/ RecvWriteWr5 \/ CloseDi \/ CloseQuiet
             \/ Unlock \/ BdosReturn

Fairness == /\ WF_vars(TxShift) /\ WF_vars(RtsRelease)
            /\ SF_vars(TxIsr) /\ SF_vars(RxIsr)
            /\ WF_vars(Operation) /\ SF_vars(RecvLock)

LiveSpec == Spec /\ Fairness
-----------------------------------------------------------------------------
(* Properties.                                                             *)

\* Every variable keeps its type; ring indices stay inside their rings and the
\* counts never exceed the sizes.
ControlType ==
  /\ pc \in Labels /\ saved \in BOOLEAN /\ iff \in BOOLEAN
  /\ serial_open \in BOOLEAN /\ serial_fault \in BOOLEAN /\ vectors \in BOOLEAN
  /\ ie \in BOOLEAN
OutType ==
  /\ outBuf \in [0 .. OutSize - 1 -> Nat]
  /\ outHead \in 0 .. OutSize - 1 /\ outTail \in 0 .. OutSize - 1
  /\ outCount \in 0 .. OutSize
  /\ txHold \in Nat /\ txPend \in BOOLEAN
  /\ accepted \in Nat /\ wire \in Nat
InType ==
  /\ inBuf \in [0 .. InSize - 1 -> Nat]
  /\ inHead \in 0 .. InSize - 1 /\ inTail \in 0 .. InSize - 1
  /\ inCount \in 0 .. InSize
  /\ rxFifo \in 0 .. FifoDepth
  /\ arrived \in Nat /\ got \in Nat
RtsType ==
  /\ wr5Rts \in BOOLEAN /\ regPtr \in {0, 5} /\ sioRts \in BOOLEAN
  /\ rtsLine \in BOOLEAN /\ credit \in 0 .. PeerSlack
TypeOK == ControlType /\ OutType /\ InType /\ RtsType

\* Interrupts stay off from DI to the unlock, and only serial_write_wr5 leaves
\* the register pointer selected, inside that window.
Masked == {"initSetup", "initUnlock", "initFail", "sendCheck", "sendKick",
           "sendAdvance", "recvTake", "recvFlow", "recvWr5", "closeQuiet",
           "unlock"}
MaskInv == /\ pc \in Masked => ~iff
           /\ pc \in {"start", "initDi", "initSetup"} => ~ie
RtsInv == /\ regPtr = IF pc = "recvWr5" THEN 5 ELSE 0
          /\ pc # "recvWr5" => wr5Rts = sioRts
          /\ pc = "recvWr5" => ~wr5Rts /\ ~sioRts /\ inCount <= LowWater

\* Bytes 1 .. LastSent have left the ring; between SendKick and SendAdvance the
\* oldest slot is already on its way.
LastSent == IF txHold # 0 THEN txHold ELSE wire
Leaving  == IF pc = "sendAdvance" THEN 1 ELSE 0
OutSlot(i) == (outTail + i) % OutSize
InSlot(i)  == (inTail + i) % InSize

\* The transmit ring holds exactly the accepted bytes not yet sent, in order.
OutInv == /\ outHead = OutSlot(outCount)
          /\ txHold # 0 => txHold = wire + 1 /\ ~txPend
          /\ LastSent + outCount = accepted + Leaving
          /\ \A i \in Leaving .. outCount - 1 :
               outBuf[OutSlot(i)] = LastSent + 1 + i - Leaving
          /\ pc \in {"sendKick", "sendAdvance"} => outCount > 0
          /\ pc \in {"start", "initDi", "initSetup"} => outCount = 0

\* The receive ring holds bytes that arrived after the last one delivered, in
\* order, and until the link fails exactly all of them.
InInv == /\ inHead = InSlot(inCount)
         /\ got + inCount <= arrived - rxFifo
         /\ \A i \in 0 .. inCount - 1 :
              inBuf[InSlot(i)] \in got + 1 + i .. arrived - rxFifo
         /\ \A i, j \in 0 .. inCount - 1 :
              i < j => inBuf[InSlot(i)] + (j - i) <= inBuf[InSlot(j)]
         /\ ~serial_fault => got + inCount = arrived - rxFifo
         /\ pc \in {"start", "initDi", "initSetup"} => inCount = 0

\* After RTS fell, the ring still has room for all that can yet come.
FlowInv == /\ rtsLine = sioRts
           /\ sioRts => inCount < HighWater /\ credit = PeerSlack
           /\ ~sioRts => inCount + rxFifo + credit <= InSize

\* The channel interrupts from before the port opens until it is closed.
OpenInv == /\ pc \in {"initUnlock", "idle", "bdos"} => serial_open
           /\ serial_open => ie

\* A drained ring has RTS up, except inside the receive that drained it.
BacklogInv == serial_open /\ ~sioRts /\ pc \notin {"recvFlow", "recvWr5"} =>
                inCount > LowWater

\* A filled one has a transmission or its interrupt to come, except inside the
\* send that filled it.
ArmedInv == ie /\ pc # "sendKick" /\ outCount > 0 => txHold # 0 \/ txPend

Inv == MaskInv /\ RtsInv /\ OutInv /\ InInv /\ OpenInv /\ BacklogInv /\ ArmedInv

\* The driver implements the two ordered streams of SerialFifo: nothing is
\* lost, repeated or reordered on the way out, nor on the way in before the
\* link has visibly failed (the comment of paket_serial_rx_full).
Fifo == INSTANCE SerialFifo WITH OutCapacity <- OutSize + 1,
                                 InCapacity  <- InSize + FifoDepth,
                                 fault       <- serial_fault
OrderedStreams == Fifo!Spec

\* The slots above the high-water mark take everything the SIO and the peer
\* still hold when RTS falls: the RX handler never finds the ring full.
NoOverrun == inCount = InSize => rxFifo = 0

\* A handler never finds the SIO's register pointer between the two writes of
\* serial_write_wr5, and outside those writes the shadow of WR5 tells the truth.
ControlWordIntact == /\ iff => regPtr = 0
                     /\ pc # "recvWr5" => wr5Rts = sioRts

\* RTS is never left low over a drained ring: were it, no byte would arrive, no
\* receive would take one, and the peer would wait for ever.
RtsLowMeansBacklog == pc = "idle" /\ ~sioRts => inCount > LowWater

\* A queued byte always has something coming that will move it: the buffer is
\* being sent or its interrupt is pending (no lost TX wakeup).
TxArmed == pc \in {"idle", "bdos"} /\ outCount > 0 => txHold # 0 \/ txPend

\* Every operation gives interrupts back as the program was entered with them,
\* enabled: "Return 1 in A when maskable interrupts were enabled".
InterruptsReturn == pc \in {"idle", "bdos"} => iff

\* Once the IM2 words are restored the channel interrupts no more: "Disable
\* every selected-channel interrupt before restoring the IM2 words".
NoStrayInterrupt == pc = "closed" => ~ie

\* Around a CP/M call the transmit ring is drained and RTS is low
\* (docs/research/COMPATIBILITY.md).
BdosQuiet == pc = "bdos" => outCount = 0 /\ ~sioRts

\* Every accepted byte reaches the line, unless the port is closed first.
TxDelivered == \A k \in 1 .. MaxOut :
                 (accepted >= k) ~> (wire >= k \/ ~serial_open)

\* RTS does not stay low for ever while the port is open.
RtsRecovers == ~rtsLine ~> (rtsLine \/ pc = "closed")
=============================================================================
