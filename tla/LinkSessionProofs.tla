-------------------------- MODULE LinkSessionProofs --------------------------
(***************************************************************************)
(* What PAKET borrows it gives back, on every path through main, for every *)
(* number of link epochs.  The invariant says where in the program each    *)
(* loan is out: MaskInv the RTC's enable bits, LinkInv the channel, the    *)
(* socket and the client.                                                  *)
(***************************************************************************)
EXTENDS LinkSession, TLAPS

Linked   == {"capabilities", "application"}
Polled   == {"connect", "pump", "client"} \cup Linked
Shutting == {"linger", "lingering", "squid_close"}
DriverUp == {"socket", "uart_close"} \cup Polled \cup Shutting
Masked   == {"run", "initialize", "acknowledge", "unmask"} \cup DriverUp

MaskInv ==
  /\ original \in {"off", "on"}
  /\ pc = "startup" => control = original /\ early = NotCaptured
  /\ pc = "begin" => control = "off" /\ early = original
  /\ pc \in {"startup", "begin"} => ~masked
  /\ pc \in Masked \cup {"unmask at end"} => masked
  /\ pc = "exit" => ~masked
  /\ masked => control = "off" /\ saved = original /\ early = NotCaptured
  /\ ~masked /\ pc \notin {"startup", "begin"} => control = original
  /\ pc \in {"startup", "begin"} \cup (Masked \ {"unmask"}) => ~nmi

LinkInv ==
  /\ serial_open <=> pc \in DriverUp
  /\ socket => pc \in Polled \cup Shutting
  /\ pc \in Polled => socket
  /\ opened => pc \in DriverUp
  /\ pc \in {"client"} \cup Linked => opened
  /\ pc = "application" => client

Places == {"startup", "begin", "run", "initialize", "socket", "connect", "client",
           "capabilities", "application", "pump", "linger", "lingering", "squid_close",
           "uart_close", "acknowledge", "unmask", "report",
           "acknowledge at end", "unmask at end", "exit"}

SessionInv == pc \in Places /\ MaskInv /\ LinkInv

USE DEF Goto, Linked, Polled, Shutting, DriverUp, Masked, Places,
        rtc, mask, driver, link, squid

\* Before the hook nothing is borrowed.
LEMMA InitOK == Init => SessionInv
BY DEF Init, SessionInv, MaskInv, LinkInv

\* The startup hook and process_begin take the enable bits.
LEMMA MaskOK ==
  ASSUME SessionInv, Startup \/ ProcessBegin \/ StartOpen
  PROVE  SessionInv'
<1>1. CASE Startup
  BY <1>1 DEF Startup, Quiesced, SessionInv, MaskInv, LinkInv
<1>2. CASE ProcessBegin
  <2>1. original # NotCaptured
    BY NotCapturedAssumption DEF SessionInv, MaskInv
  <2> QED BY <1>2, <2>1 DEF ProcessBegin, Mask, Captured, Quiesced, SessionInv,
                            MaskInv, LinkInv
<1>3. CASE StartOpen
  <2>1. masked
    BY <1>3 DEF StartOpen, SessionInv, MaskInv
  <2> QED BY <1>3, <2>1 DEF StartOpen, Mask, SessionInv, MaskInv, LinkInv
<1> QED BY <1>1, <1>2, <1>3

\* rtc_restore_interrupts gives them back.
LEMMA RestoreOK ==
  ASSUME SessionInv, Acknowledge \/ Unmask
  PROVE  SessionInv'
<1>1. CASE Acknowledge
  BY <1>1 DEF Acknowledge, SessionInv, MaskInv, LinkInv
<1>2. CASE Unmask
  BY <1>2 DEF Unmask, SessionInv, MaskInv, LinkInv
<1> QED BY <1>1, <1>2

\* Opening the link leaves the mask alone.
LEMMA OpenOK ==
  ASSUME SessionInv,
         \/ NoCommonMemory \/ Initialized \/ NoSocket \/ Socket \/ Connect
         \/ Pump \/ LinkUp
  PROVE  SessionInv'
<1>1. CASE NoCommonMemory
  BY <1>1 DEF NoCommonMemory, SessionInv, MaskInv, LinkInv
<1>2. CASE Initialized
  BY <1>2 DEF Initialized, SessionInv, MaskInv, LinkInv
<1>3. CASE NoSocket
  BY <1>3 DEF NoSocket, SessionInv, MaskInv, LinkInv
<1>4. CASE Socket
  BY <1>4 DEF Socket, SessionInv, MaskInv, LinkInv
<1>5. CASE Connect
  BY <1>5 DEF Connect, SessionInv, MaskInv, LinkInv
<1>6. CASE Pump
  BY <1>6 DEF Pump, Pumped, SessionInv, MaskInv, LinkInv
<1>7. CASE LinkUp
  BY <1>7 DEF LinkUp, SessionInv, MaskInv, LinkInv
<1> QED BY <1>1, <1>2, <1>3, <1>4, <1>5, <1>6, <1>7

\* So do the run itself and the close up to the RTC.
LEMMA RunOK ==
  ASSUME SessionInv,
         \/ Leave \/ TakeClient \/ Capabilities \/ Exchange \/ Finish
         \/ Report \/ StartLinger \/ Linger \/ LingerOver \/ SquidClose \/ UartClose
  PROVE  SessionInv'
<1>1. CASE Leave
  BY <1>1 DEF Leave, SessionInv, MaskInv, LinkInv
<1>2. CASE TakeClient
  BY <1>2 DEF TakeClient, SessionInv, MaskInv, LinkInv
<1>3. CASE Capabilities
  BY <1>3 DEF Capabilities, Checked, SessionInv, MaskInv, LinkInv
<1>4. CASE Exchange
  BY <1>4 DEF Exchange, Pumped, SessionInv, MaskInv, LinkInv
<1>5. CASE Finish
  BY <1>5 DEF Finish, SessionInv, MaskInv, LinkInv
<1>6. CASE Report
  BY <1>6 DEF Report, SessionInv, MaskInv, LinkInv
<1>7. CASE StartLinger
  BY <1>7 DEF StartLinger, SessionInv, MaskInv, LinkInv
<1>8. CASE Linger
  BY <1>8 DEF Linger, Pumped, SessionInv, MaskInv, LinkInv
<1>9. CASE SquidClose
  BY <1>9 DEF SquidClose, SocketClosed, SessionInv, MaskInv, LinkInv
<1>10. CASE UartClose
  BY <1>10 DEF UartClose, SessionInv, MaskInv, LinkInv
<1>11. CASE LingerOver
  BY <1>11 DEF LingerOver, SessionInv, MaskInv, LinkInv
<1> QED BY <1>1, <1>2, <1>3, <1>4, <1>5, <1>6, <1>7, <1>8, <1>9, <1>10, <1>11

\* The peer, the clock and the receive handler.
LEMMA OutsideOK ==
  ASSUME SessionInv,
         \/ PeerLink \/ TimePasses \/ MinuteEdge \/ Overrun \/ UNCHANGED vars
  PROVE  SessionInv'
<1>1. CASE PeerLink
  BY <1>1 DEF PeerLink, Polling, SessionInv, MaskInv, LinkInv
<1>2. CASE TimePasses
  BY <1>2 DEF TimePasses, SessionInv, MaskInv, LinkInv
<1>3. CASE MinuteEdge
  BY <1>3 DEF MinuteEdge, SessionInv, MaskInv, LinkInv
<1>4. CASE Overrun
  BY <1>4 DEF Overrun, SessionInv, MaskInv, LinkInv
<1>5. CASE UNCHANGED vars
  BY <1>5 DEF vars, SessionInv, MaskInv, LinkInv
<1> QED BY <1>1, <1>2, <1>3, <1>4, <1>5

\* Every step keeps the invariant.
LEMMA StepOK == ASSUME SessionInv PROVE [Next]_vars => SessionInv'
BY MaskOK, RestoreOK, OpenOK, RunOK, OutsideOK
   DEF Next, Program, Open, Close, Main, Done

\* The invariant holds throughout.
LEMMA Invariance == Spec => []SessionInv
BY InitOK, StepOK, PTL DEF Spec

\* When PAKET exits the RTC's interrupt enable bits are what they were before the
\* startup hook, whichever open, exchange or close failed.
THEOREM RtcIsRestored == Spec => []RtcGivenBack
<1>1. SessionInv => RtcGivenBack
  BY DEF SessionInv, MaskInv, RtcGivenBack
<1> QED BY <1>1, Invariance, PTL

\* When PAKET exits the socket is closed and the channel released.
THEOREM EverythingIsReleased == Spec => []AllReleased
<1>1. SessionInv => AllReleased
  BY DEF SessionInv, LinkInv, AllReleased
<1> QED BY <1>1, Invariance, PTL

\* The port is polled only while open, and the application always has a client.
THEOREM NeverPollsClosed == Spec => []PollsAreOpen
<1>1. SessionInv => PollsAreOpen
  BY DEF SessionInv, LinkInv, PollsAreOpen
<1> QED BY <1>1, Invariance, PTL

\* No minute edge becomes an NMI before the close has restored the enable bits.
THEOREM QuietUntilClosed == Spec => []QuietWhileBorrowed
<1>1. SessionInv => QuietWhileBorrowed
  BY DEF SessionInv, MaskInv, LinkInv, QuietWhileBorrowed
<1> QED BY <1>1, Invariance, PTL
=============================================================================
