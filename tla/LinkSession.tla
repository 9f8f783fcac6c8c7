----------------------------- MODULE LinkSession -----------------------------
(***************************************************************************)
(* One run of PAKET.COM as far as it borrows the machine: the startup hook *)
(* of src/src/serial_isr.s, main and run of src/src/main.c, and            *)
(* paket_link_open, paket_link_close and the RTC mask of                   *)
(* src/src/serial_link.c.  Three things are borrowed and must be given     *)
(* back on every path: the RTC's interrupt enable bits, the serial channel *)
(* with its IM2 words, and libsquid's socket.  SerialDriver models what    *)
(* the channel does in between; libsquid, the RTC and the application are  *)
(* external here.                                                          *)
(***************************************************************************)
EXTENDS Naturals

CONSTANTS Epochs,      \* libsquid's link epochs (uint8_t)
          NotCaptured  \* 0xff in paket_rtc_early_control

ASSUME EpochsAssumption == Epochs \in Nat \ {0}
ASSUME NotCapturedAssumption == NotCaptured \notin {"off", "on"}

VARIABLES
  pc, late,              \* late: the time of a timed wait is over
  control, status, nmi,  \* RTC: enable bits, latched source, and (history) an
                         \* edge that reached the CPU while PAKET was loaded
  early, saved, masked,  \* paket_rtc_early_control, rtc_interrupt_control/_masked
  serial_open, serial_fault, socket, opened, link_epoch,
  up, epoch,             \* libsquid: snet_link_is_up, snet_link_epoch
  client,                \* paket_link_client gave a client, not NULL
  original               \* history: the enable bits before the run

rtc     == <<control, status, nmi>>
mask    == <<early, saved, masked>>
driver  == <<serial_open, serial_fault>>
link    == <<socket, opened, link_epoch>>
squid   == <<up, epoch>>
vars == <<pc, late, rtc, mask, driver, link, squid, client, original>>

Init == /\ pc = "startup" /\ late = FALSE
        /\ original \in {"off", "on"} /\ control = original
        /\ status = FALSE /\ nmi = FALSE
        /\ early = NotCaptured /\ saved = "off" /\ masked = FALSE
        /\ serial_open = FALSE /\ serial_fault = FALSE
        /\ socket = FALSE /\ opened = FALSE /\ link_epoch = 0
        /\ up = FALSE /\ epoch = 0 /\ client = FALSE

Goto(p) == pc' = p

\* A minute passes: the source is latched, masked or not, and a rising line is
\* an NMI.
MinuteEdge == /\ pc \notin {"startup", "exit"}
              /\ status' = TRUE
              /\ nmi' = (nmi \/ (control = "on" /\ ~status))
              /\ UNCHANGED <<pc, late, control, mask, driver, link, squid, client,
                             original>>

\* The receive handler finds its ring full.
Overrun == /\ serial_open /\ serial_fault' = TRUE
           /\ UNCHANGED <<pc, late, rtc, mask, serial_open, link, squid, client, original>>

\* What the enable bits are set to for the run.
QuiescedMutant == control  \* captured but not masked
Quiesced == "off"

\* The hook in _GSINIT.
Startup == /\ pc = "startup" /\ Goto("begin")
           /\ early' = control /\ control' = Quiesced /\ status' = FALSE
           /\ UNCHANGED <<late, nmi, saved, masked, driver, link, squid, client, original>>

\* rtc_mask_interrupts.
CapturedMutant == control  \* the hook's capture is overlooked
Captured == IF early # NotCaptured THEN early ELSE control
Mask == IF masked THEN UNCHANGED <<rtc, mask>>
        ELSE /\ saved' = Captured /\ early' = NotCaptured
             /\ control' = Quiesced /\ status' = FALSE /\ masked' = TRUE
             /\ UNCHANGED nmi

ProcessBegin == /\ pc = "begin" /\ Goto("run") /\ Mask
                /\ UNCHANGED <<late, driver, link, squid, client, original>>

\* Bad options, help, too many arguments; or bad link settings.
Leave == /\ pc = "run" /\ Goto("acknowledge at end")
         /\ UNCHANGED <<late, rtc, mask, driver, link, squid, client, original>>

StartOpen == /\ pc = "run" /\ Goto("initialize") /\ Mask
             /\ socket' = FALSE /\ serial_fault' = FALSE /\ serial_open' = FALSE
             /\ opened' = FALSE /\ link_epoch' = 0
             /\ UNCHANGED <<late, squid, client, original>>

\* serial_initialize.
NoCommonMemory == /\ pc = "initialize" /\ Goto("acknowledge")
                  /\ UNCHANGED <<late, rtc, mask, driver, link, squid, client, original>>
Initialized == /\ pc = "initialize" /\ Goto("socket") /\ serial_open' = TRUE
               /\ UNCHANGED <<late, rtc, mask, serial_fault, link, squid, client, original>>

\* squid_open and squid_connect.
NoSocket == /\ pc = "socket" /\ Goto("linger")
            /\ socket' \in BOOLEAN  \* a socket that would not connect
            /\ UNCHANGED <<late, rtc, mask, driver, opened, link_epoch, squid, client,
                           original>>
Socket == /\ pc = "socket" /\ Goto("connect") /\ socket' = TRUE /\ late' = FALSE
          /\ UNCHANGED <<rtc, mask, driver, opened, link_epoch, squid, client,
                         original>>

\* While pump_link is called snet_burst may bring the link up, in a new epoch, or
\* down; whether and when is the peer's.
Polling == pc \in {"pump", "capabilities", "lingering", "application"}
PeerLink == /\ Polling
            /\ \/ up /\ up' = FALSE /\ UNCHANGED epoch
               \/ ~up /\ up' = TRUE /\ epoch' = (epoch + 1) % Epochs
            /\ UNCHANGED <<pc, late, rtc, mask, driver, link, client, original>>

\* Time passes while paket_link_open or paket_link_close waits.
TimePasses == /\ pc \in {"connect", "pump", "lingering"}
              /\ late' = TRUE
              /\ UNCHANGED <<pc, rtc, mask, driver, link, squid, client, original>>

\* Polling a closed port is a fault.
Pumped == serial_fault' = (serial_fault \/ ~serial_open)

\* The loop until the link is up: paket_connect_timeout_ms is asked after every
\* poll, and is then decisive even if the poll brought the link up.
ExpiredMutant == FALSE  \* only a fault ends the wait
Expired == late
Connect == /\ pc = "connect" /\ ~up /\ Goto("pump")
           /\ UNCHANGED <<late, rtc, mask, driver, link, squid, client, original>>
Pump == /\ pc = "pump" /\ Pumped
        /\ Goto(IF serial_fault' \/ Expired THEN "linger" ELSE "connect")
        /\ UNCHANGED <<late, rtc, mask, serial_open, link, squid, client, original>>
LinkUp == /\ pc = "connect" /\ up /\ Goto("client")
          /\ link_epoch' = epoch /\ opened' = TRUE
          /\ UNCHANGED <<late, rtc, mask, driver, socket, squid, client, original>>

\* paket_link_client.
Usable == opened /\ ~serial_fault /\ up /\ epoch = link_epoch
TakeClient == /\ pc = "client" /\ Goto("capabilities")
              /\ client' = Usable
              /\ UNCHANGED <<late, rtc, mask, driver, link, squid, original>>

\* paket_check_capabilities: refuses a missing client, else one exchange.
CheckedMutant == {"application", "linger"}  \* a missing client is not noticed
Checked == IF client THEN {"application", "linger"} ELSE {"linger"}
Capabilities == /\ pc = "capabilities" /\ pc' \in Checked
                /\ UNCHANGED <<late, rtc, mask, driver, link, squid, client, original>>

\* paket_application_run: any number of polls, then it returns.
Exchange == /\ pc = "application" /\ Pumped
            /\ UNCHANGED <<pc, late, rtc, mask, serial_open, link, squid, client,
                           original>>
Finish == /\ pc = "application" /\ Goto("linger")
          /\ UNCHANGED <<late, rtc, mask, driver, link, squid, client, original>>

\* paket_link_close: 100 ms of polling, if there is a link to be polled.
Lingers == serial_open /\ up /\ ~serial_fault
StartLinger == /\ pc = "linger" /\ Goto(IF Lingers THEN "lingering" ELSE "squid_close")
               /\ late' = FALSE
               /\ UNCHANGED <<rtc, mask, driver, link, squid, client, original>>
Linger == /\ pc = "lingering" /\ ~late /\ Pumped
          /\ Goto(IF serial_fault' THEN "squid_close" ELSE "lingering")
          /\ UNCHANGED <<late, rtc, mask, serial_open, link, squid, client, original>>
LingerOver == /\ pc = "lingering" /\ late /\ Goto("squid_close")
              /\ UNCHANGED <<late, rtc, mask, driver, link, squid, client, original>>

SocketClosedMutant == IF opened THEN FALSE ELSE socket  \* only of an open link
SocketClosed == FALSE
SquidClose == /\ pc = "squid_close" /\ Goto("uart_close")
              /\ socket' = SocketClosed
              /\ UNCHANGED <<late, rtc, mask, driver, opened, link_epoch, squid, client,
                             original>>

UartClose == /\ pc = "uart_close" /\ Goto("acknowledge")
             /\ serial_open' = FALSE /\ opened' = FALSE
             /\ UNCHANGED <<late, rtc, mask, serial_fault, socket, link_epoch, squid,
                            client, original>>

\* rtc_restore_interrupts: acknowledge, then give the enable bits back.  It ends
\* a failed open and every close, and once more the process.
Acknowledge ==
  /\ pc \in {"acknowledge", "acknowledge at end"}
  /\ IF masked
     THEN status' = FALSE /\ Goto(IF pc = "acknowledge" THEN "unmask" ELSE "unmask at end")
     ELSE UNCHANGED status /\ Goto(IF pc = "acknowledge" THEN "report" ELSE "exit")
  /\ UNCHANGED <<late, control, nmi, mask, driver, link, squid, client, original>>
Unmask ==
  /\ pc \in {"unmask", "unmask at end"}
  /\ Goto(IF pc = "unmask" THEN "report" ELSE "exit")
  /\ control' = saved /\ masked' = FALSE
  /\ nmi' = (nmi \/ (saved = "on" /\ status))
  /\ UNCHANGED <<late, status, early, saved, driver, link, squid, client, original>>

\* What run still prints, and its return to main.
Report == /\ pc = "report" /\ Goto("acknowledge at end")
          /\ UNCHANGED <<late, rtc, mask, driver, link, squid, client, original>>

Done == pc = "exit" /\ UNCHANGED vars

Open    == \/ StartOpen \/ NoCommonMemory \/ Initialized \/ NoSocket \/ Socket
           \/ Connect \/ Pump \/ LinkUp
Close   == \/ StartLinger \/ Linger \/ LingerOver
           \/ SquidClose \/ UartClose \/ Acknowledge \/ Unmask
Main    == \/ Startup \/ ProcessBegin \/ Leave \/ TakeClient \/ Capabilities
           \/ Exchange \/ Finish \/ Report
Program == Open \/ Close \/ Main

Next == Program \/ PeerLink \/ TimePasses \/ MinuteEdge \/ Overrun \/ Done

\* The program runs on, and time does pass.
Fairness == WF_vars(Program) /\ WF_vars(TimePasses)
Spec == Init /\ [][Next]_vars /\ Fairness
-----------------------------------------------------------------------------
(* Properties.                                                             *)

\* On every path out, the RTC interrupts as it did before PAKET was loaded.
RtcGivenBack == pc = "exit" => control = original /\ ~masked

\* On every path out, socket and channel are released.
AllReleased == pc = "exit" => ~socket /\ ~serial_open /\ ~opened

\* Nothing polls a closed port: a fault means that the handler overran.
\* The application never runs without the driver and a client.
PollsAreOpen ==
  /\ pc \in {"pump", "lingering", "application"} => serial_open
  /\ pc = "application" => client /\ socket /\ opened

\* From the startup hook until the link is closed no minute edge reaches the CPU.
QuietWhileBorrowed == nmi => pc \notin {"begin", "run"} /\ ~serial_open

\* link.h: the RTC is quiesced "for the lifetime of the transient".
QuietForLifetime == pc # "exit" => ~nmi

\* The program cannot stay anywhere but in the application.
Returns == []<>(pc \in {"application", "exit"})
=============================================================================
