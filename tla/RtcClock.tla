------------------------------ MODULE RtcClock ------------------------------
(***************************************************************************)
(* The protocol clock: paket_partner_timer_ms of src/src/partner_io.c takes *)
(* a snapshot of a running real-time clock, one port read at a time, and   *)
(* paket_timebase_advance of src/src/timebase.c turns such readings, which *)
(* wrap every minute, into the 8-bit 20 ms tick that times libsquid.       *)
(* serial_link.c resets the clock once in paket_link_open and advances it  *)
(* on every poll.  The RTC is external: BCD counters that follow the time. *)
(***************************************************************************)
EXTENDS Integers

CONSTANTS Seconds,    \* in a minute (60)
          Hundredths, \* in a second (100)
          Digit,      \* milliseconds in a hundredth (10)
          Quantum,    \* milliseconds of a tick (20)
          Ticks,      \* 2^8: tick is a uint8_t
          Word,       \* 2^16: readings and remainders are uint16_t
          Horizon     \* bound: the time a run of the model covers

Second == Hundredths * Digit
Minute == Seconds * Second

ASSUME RadixAssumption == /\ Seconds \in 2 .. 99 /\ Hundredths \in 1 .. 100
                          /\ Digit \in 1 .. 10
                          /\ Quantum \in Nat \ {0} /\ Ticks \in Nat \ {0}
ASSUME WordAssumption == Word \in Nat /\ Minute + Quantum <= Word

VARIABLES
  time,          \* milliseconds that have passed: what the RTC counts
  pc,            \* the next port read of the snapshot
  op,            \* the caller: reset, advance
  first_seconds, first_hundredths, thousandths, second_hundredths,
  last_ms, remainder_ms, tick,   \* paket_timebase
  begun,         \* history: when this pass of the loop read its first port
  sampled,       \* history: when it read the thousandths
  since,         \* history: the time last_ms stands for
  origin,        \* history: the time of the reset
  counted        \* history: ticks since the reset, not reduced

registers == <<first_seconds, first_hundredths, thousandths, second_hundredths>>
clock     == <<last_ms, remainder_ms, tick>>
history   == <<since, origin, counted>>
vars == <<time, pc, op, registers, clock, begun, sampled, history>>

\* The counters, and what the ports give: two BCD digits, and for the
\* thousandths one, in the high nibble.
SecondsAt(t)    == (t \div Second) % Seconds
HundredthsAt(t) == (t \div Digit) % Hundredths
DigitAt(t)      == t % Digit
Bcd(n)          == 16 * (n \div 10) + (n % 10)
Nibble(n)       == 16 * n

bcd_to_binary(value) == 10 * (value \div 16) + (value % 16)

Init == /\ time \in 0 .. Minute - 1
        /\ pc = "start" /\ op = "reset"
        /\ first_seconds = 0 /\ first_hundredths = 0
        /\ thousandths = 0 /\ second_hundredths = 0
        /\ last_ms = 0 /\ remainder_ms = 0 /\ tick = 0
        /\ begun = time /\ sampled = time
        /\ since = time /\ origin = time /\ counted = 0

\* Time passes.  That the loop's five reads take less than a minute less one
\* second, and that two snapshots are taken less than a minute apart, is what
\* the code relies on.
PassAssumed == pc # "start" => time' - begun < Minute - Second
PollAssumed == op = "advance" => time' - since < Minute

Elapse == /\ time < Horizon /\ time' = time + 1
          /\ PassAssumed /\ PollAssumed
          /\ UNCHANGED <<pc, op, registers, clock, begun, sampled, history>>

\* The reads of the loop, in the code's order.
Poll == /\ pc = "start" /\ pc' = "hundredths"
        /\ first_seconds' = Bcd(SecondsAt(time))
        /\ begun' = time
        /\ UNCHANGED <<time, op, first_hundredths, thousandths,
                       second_hundredths, clock, sampled, history>>

ReadHundredths == /\ pc = "hundredths" /\ pc' = "thousandths"
                  /\ first_hundredths' = Bcd(HundredthsAt(time))
                  /\ UNCHANGED <<time, op, first_seconds, thousandths,
                                 second_hundredths, clock, begun, sampled,
                                 history>>

ReadThousandths == /\ pc = "thousandths" /\ pc' = "again"
                   /\ thousandths' = Nibble(DigitAt(time))
                   /\ sampled' = time
                   /\ UNCHANGED <<time, op, first_seconds, first_hundredths,
                                  second_hundredths, clock, begun, history>>

ReadAgain == /\ pc = "again" /\ pc' = "seconds"
             /\ second_hundredths' = Bcd(HundredthsAt(time))
             /\ UNCHANGED <<time, op, first_seconds, first_hundredths,
                            thousandths, clock, begun, sampled, history>>

\* What the loop takes for a consistent reading.
ConsistentMutant(second_seconds) == first_hundredths = second_hundredths
Consistent(second_seconds) == /\ first_seconds = second_seconds
                              /\ first_hundredths = second_hundredths

Retry == /\ pc = "seconds" /\ pc' = "start"
         /\ ~Consistent(Bcd(SecondsAt(time)))
         /\ UNCHANGED <<time, op, registers, clock, begun, sampled, history>>

\* The digit in the high nibble of the thousandths register.
ThousandthsMutant(value) == bcd_to_binary(value)  \* is not shifted down
Thousandths(value) == bcd_to_binary(value \div 16)

Reading(second_seconds) == bcd_to_binary(second_seconds) * Second
                           + bcd_to_binary(second_hundredths) * Digit
                           + Thousandths(thousandths)

\* paket_elapsed_ms.
ElapsedMutant(start, now) == (now - start) % Word  \* no minute rollover
Elapsed(start, now) == IF now >= start THEN now - start
                       ELSE (Minute - start) + now

\* The remainder paket_timebase_advance keeps.
CarryMutant(accumulated) == 0
Carry(accumulated) == accumulated % Quantum

Reset == /\ pc = "seconds" /\ pc' = "start" /\ op = "reset"
         /\ Consistent(Bcd(SecondsAt(time)))
         /\ op' = "advance"
         /\ last_ms' = Reading(Bcd(SecondsAt(time)))
         /\ remainder_ms' = 0 /\ tick' = 0
         /\ since' = sampled /\ origin' = sampled /\ counted' = 0
         /\ UNCHANGED <<time, registers, begun, sampled>>

Advance ==
  /\ pc = "seconds" /\ pc' = "start" /\ op = "advance"
  /\ Consistent(Bcd(SecondsAt(time)))
  /\ LET now         == Reading(Bcd(SecondsAt(time)))
         accumulated == (remainder_ms + Elapsed(last_ms, now)) % Word
     IN  /\ last_ms' = now
         /\ tick' = (tick + ((accumulated \div Quantum) % Ticks)) % Ticks
         /\ remainder_ms' = Carry(accumulated)
         /\ counted' = counted + accumulated \div Quantum
  /\ since' = sampled
  /\ UNCHANGED <<time, op, registers, begun, sampled, origin>>

Next == \/ Elapse
        \/ Poll \/ ReadHundredths \/ ReadThousandths \/ ReadAgain \/ Retry
        \/ Reset \/ Advance

Spec == Init /\ [][Next]_vars
-----------------------------------------------------------------------------
(* Properties.                                                             *)

TypeOK == /\ time \in Nat
          /\ pc \in {"start", "hundredths", "thousandths", "again", "seconds"}
          /\ op \in {"reset", "advance"}
          /\ \A r \in {first_seconds, first_hundredths, thousandths,
                       second_hundredths} : r \in 0 .. 255
          /\ last_ms \in 0 .. Minute - 1
          /\ remainder_ms \in 0 .. Quantum - 1
          /\ tick \in 0 .. Ticks - 1
          /\ {begun, sampled, since, origin, counted} \subseteq Nat

\* A reading that the loop accepts is a time the clock showed while the loop
\* was reading it, however the counters rolled over between the reads.
ReadingWasShown == op = "advance" => /\ last_ms = since % Minute
                                     /\ since <= time

\* The clock neither gains nor loses: the ticks counted since the reset, and the
\* carried remainder, are exactly the time between the two readings.
NoTimeLost == op = "advance" =>
                /\ since - origin = counted * Quantum + remainder_ms
                /\ tick = counted % Ticks
=============================================================================
