--------------------------- MODULE RtcClockProofs ---------------------------
(***************************************************************************)
(* For every radix of the RTC, tick length and word width that fit: the    *)
(* snapshot loop reads a time that was shown, and the tick neither gains   *)
(* nor loses time.  The first part is arithmetic: division, and what the   *)
(* five port reads of a pass determine.                                    *)
(***************************************************************************)
EXTENDS RtcClock, TLAPS

\* Quotient and remainder.
LEMMA DivMod ==
  ASSUME NEW a \in Nat, NEW b \in Nat \ {0}
  PROVE  /\ a \div b \in Nat /\ a % b \in 0 .. b - 1
         /\ a = b * (a \div b) + (a % b)
BY Z3

\* A larger factor gives a larger product.
LEMMA Times ==
  ASSUME NEW b \in Nat, NEW p \in Nat, NEW q \in Nat, p < q
  PROVE  b * p + b <= b * q
<1>1. PICK d \in Nat : q = p + 1 + d
  BY q - p - 1 \in Nat
<1>2. b * q = b * p + b + b * d /\ b * d \in Nat
  BY <1>1
<1> QED BY <1>2

\* Quotient and remainder are the only ones.
LEMMA DivUnique ==
  ASSUME NEW a \in Nat, NEW b \in Nat \ {0}, NEW q \in Nat, NEW r \in 0 .. b - 1,
         a = b * q + r
  PROVE  a \div b = q /\ a % b = r
<1> DEFINE p == a \div b
<1>1. p \in Nat /\ a % b \in 0 .. b - 1 /\ a = b * p + (a % b)
  BY DivMod
<1>2. ~(p < q)
  BY <1>1, Times
<1>3. ~(q < p)
  BY <1>1, Times
<1>4. p = q
  BY <1>1, <1>2, <1>3
<1> QED BY <1>1, <1>4

\* Division keeps the order.
LEMMA DivMonotone ==
  ASSUME NEW a \in Nat, NEW c \in Nat, NEW b \in Nat \ {0}, a <= c
  PROVE  a \div b <= c \div b
<1>1. /\ a \div b \in Nat /\ a % b \in 0 .. b - 1
      /\ a = b * (a \div b) + (a % b)
  BY DivMod
<1>2. /\ c \div b \in Nat /\ c % b \in 0 .. b - 1
      /\ c = b * (c \div b) + (c % b)
  BY DivMod
<1>3. ~(c \div b < a \div b)
  <2>1. ASSUME c \div b < a \div b PROVE b * (c \div b) + b <= b * (a \div b)
    BY <2>1, <1>1, <1>2, Times
  <2> QED BY <1>1, <1>2, <2>1
<1> QED BY <1>1, <1>2, <1>3

\* Two numbers less than a turn apart that look the same are the same.
LEMMA SameTurn ==
  ASSUME NEW a \in Nat, NEW c \in Nat, NEW b \in Nat \ {0},
         a <= c, c - a < b, a % b = c % b
  PROVE  a = c
<1>1. /\ a \div b \in Nat /\ a % b \in 0 .. b - 1
      /\ a = b * (a \div b) + (a % b)
  BY DivMod
<1>2. /\ c \div b \in Nat /\ c = b * (c \div b) + (c % b)
  BY DivMod
<1>3. ~(a \div b < c \div b)
  <2>1. ASSUME a \div b < c \div b PROVE b * (a \div b) + b <= b * (c \div b)
    BY <2>1, <1>1, <1>2, Times
  <2> QED BY <1>1, <1>2, <2>1
<1>4. a \div b <= c \div b
  BY DivMonotone
<1>5. a \div b = c \div b
  BY <1>1, <1>2, <1>3, <1>4
<1> QED BY <1>1, <1>2, <1>5

\* Dividing twice divides by the product.
LEMMA DivTwice ==
  ASSUME NEW a \in Nat, NEW b \in Nat \ {0}, NEW c \in Nat \ {0}
  PROVE  (a \div b) \div c = a \div (c * b)
<1> DEFINE p == a \div b
           q == p \div c
           r == b * (p % c) + (a % b)
<1>1. p \in Nat /\ a % b \in 0 .. b - 1 /\ a = b * p + (a % b)
  BY DivMod
<1>2. q \in Nat /\ p % c \in 0 .. c - 1 /\ p = c * q + (p % c)
  BY <1>1, DivMod
<1>3. b * p = b * (c * q) + b * (p % c)
  BY <1>2
<1>4. b * (c * q) = (c * b) * q
  BY <1>2
<1>5. b * (p % c) \in Nat /\ b * (p % c) + b <= b * c
  BY <1>2, Times
<1>6. c * b \in Nat \ {0} /\ c * b = b * c
  OBVIOUS
<1>7. r \in 0 .. (c * b) - 1
  <2> HIDE DEF p
  <2> QED BY <1>1, <1>5, <1>6
<1>8. a = (c * b) * q + r
  <2>1. b * p \in Nat /\ b * (c * q) \in Nat /\ b * (p % c) \in Nat
    BY <1>1, <1>2
  <2> HIDE DEF p, q
  <2> QED BY <1>1, <1>3, <1>4, <2>1
<1> QED BY <1>2, <1>6, <1>7, <1>8, DivUnique

\* BCD and back, for the two digits and for the single one in a high nibble.
LEMMA BcdBack ==
  ASSUME NEW n \in 0 .. 99
  PROVE  bcd_to_binary(Bcd(n)) = n /\ Bcd(n) \in 0 .. 255
BY DEF bcd_to_binary, Bcd

LEMMA NibbleBack ==
  ASSUME NEW n \in 0 .. 9
  PROVE  Thousandths(Nibble(n)) = n /\ Nibble(n) \in 0 .. 255
BY DEF Thousandths, bcd_to_binary, Nibble

\* What the ports give is in range, and different counters look different.
LEMMA Counters ==
  ASSUME NEW t \in Nat
  PROVE  /\ Second \in Nat \ {0} /\ Minute \in Nat \ {0}
         /\ t \div Second \in Nat /\ t \div Digit \in Nat
         /\ SecondsAt(t) \in 0 .. Seconds - 1
         /\ HundredthsAt(t) \in 0 .. Hundredths - 1
         /\ DigitAt(t) \in 0 .. Digit - 1
         /\ bcd_to_binary(Bcd(SecondsAt(t))) = SecondsAt(t)
         /\ bcd_to_binary(Bcd(HundredthsAt(t))) = HundredthsAt(t)
         /\ Thousandths(Nibble(DigitAt(t))) = DigitAt(t)
         /\ Bcd(SecondsAt(t)) \in 0 .. 255 /\ Bcd(HundredthsAt(t)) \in 0 .. 255
         /\ Nibble(DigitAt(t)) \in 0 .. 255
<1>1. Seconds \in Nat \ {0} /\ Hundredths \in Nat \ {0} /\ Digit \in Nat \ {0}
  BY RadixAssumption
<1>2. Second \in Nat \ {0}
  BY <1>1 DEF Second
<1>3. Minute \in Nat \ {0}
  BY <1>1, <1>2 DEF Minute
<1>4. t \div Second \in Nat /\ t \div Digit \in Nat
  BY <1>1, <1>2, DivMod
<1>5. SecondsAt(t) \in 0 .. Seconds - 1
  BY <1>1, <1>4, DivMod DEF SecondsAt
<1>6. HundredthsAt(t) \in 0 .. Hundredths - 1
  BY <1>1, <1>4, DivMod DEF HundredthsAt
<1>7. DigitAt(t) \in 0 .. Digit - 1
  BY <1>1, DivMod DEF DigitAt
<1>8. SecondsAt(t) \in 0 .. 99 /\ HundredthsAt(t) \in 0 .. 99 /\ DigitAt(t) \in 0 .. 9
  BY <1>5, <1>6, <1>7, RadixAssumption
<1> QED BY <1>2, <1>3, <1>4, <1>5, <1>6, <1>7, <1>8, BcdBack, NibbleBack

\* The counters make up the time within the minute.
LEMMA TimeOfCounters ==
  ASSUME NEW t \in Nat
  PROVE  /\ t % Minute = SecondsAt(t) * Second + HundredthsAt(t) * Digit + DigitAt(t)
         /\ t % Minute \in 0 .. Minute - 1
<1> DEFINE c == t \div Digit
           q == t \div Second
           m == q \div Seconds
           S == SecondsAt(t)
           H == HundredthsAt(t)
           d == DigitAt(t)
<1>1. Seconds \in Nat \ {0} /\ Hundredths \in Nat \ {0} /\ Digit \in Nat \ {0}
  BY RadixAssumption
<1>2. /\ Second \in Nat \ {0} /\ Minute \in Nat \ {0}
      /\ q \in Nat /\ c \in Nat
      /\ S \in 0 .. Seconds - 1 /\ H \in 0 .. Hundredths - 1 /\ d \in 0 .. Digit - 1
  BY Counters
<1>3. t = Digit * c + d
  BY <1>1, DivMod DEF DigitAt
<1>4. c \div Hundredths = q
  BY <1>1, DivTwice DEF Second
<1>5. c = Hundredths * q + H
  BY <1>1, <1>2, <1>4, DivMod DEF HundredthsAt
<1>6. m \in Nat /\ q = Seconds * m + S
  BY <1>1, <1>2, DivMod DEF SecondsAt
<1> HIDE DEF c, q, m, S, H, d
<1>7. Digit * c = Second * q + H * Digit
  <2>1. Digit * c = Digit * (Hundredths * q) + Digit * H
    BY <1>1, <1>2, <1>5
  <2>2. Digit * (Hundredths * q) = Second * q
    BY <1>1, <1>2 DEF Second
  <2> QED BY <1>1, <1>2, <2>1, <2>2
<1>8. Second * q = Minute * m + S * Second
  <2>1. Second * q = Second * (Seconds * m) + Second * S
    BY <1>1, <1>2, <1>6
  <2>2. Second * (Seconds * m) = Minute * m
    BY <1>1, <1>2, <1>6 DEF Minute
  <2> QED BY <1>1, <1>2, <2>1, <2>2
<1>9. /\ H * Digit \in Nat /\ S * Second \in Nat /\ Minute * m \in Nat
      /\ H * Digit + Digit <= Second
      /\ S * Second + Second <= Minute
  <2>1. Digit * H + Digit <= Digit * Hundredths
    BY <1>1, <1>2, Times
  <2>2. Second * S + Second <= Second * Seconds
    BY <1>1, <1>2, Times
  <2>3. Digit * Hundredths = Second /\ Second * Seconds = Minute
    BY <1>1, <1>2 DEF Second, Minute
  <2>4. Digit * H = H * Digit /\ Second * S = S * Second
    BY <1>1, <1>2
  <2> QED BY <1>1, <1>2, <1>6, <2>1, <2>2, <2>3, <2>4
<1> DEFINE r == S * Second + H * Digit + d
<1>10. r \in 0 .. Minute - 1
  BY <1>1, <1>2, <1>9
<1>11. t = Minute * m + r
  BY <1>1, <1>2, <1>3, <1>7, <1>8, <1>9
<1>12. t % Minute = r
  BY <1>2, <1>6, <1>10, <1>11, DivUnique
<1> QED BY <1>10, <1>12 DEF S, H, d

\* The loop's comparison: five reads within less than a minute less a second,
\* the same seconds first and last, the same hundredths second and fourth. The
\* three middle values are then those of the third read.
LEMMA Snapshot ==
  ASSUME NEW t1 \in Nat, NEW t2 \in Nat, NEW t3 \in Nat, NEW t4 \in Nat,
         NEW t5 \in Nat,
         t1 <= t2, t2 <= t3, t3 <= t4, t4 <= t5, t5 - t1 < Minute - Second,
         SecondsAt(t1) = SecondsAt(t5), HundredthsAt(t2) = HundredthsAt(t4)
  PROVE  SecondsAt(t3) = SecondsAt(t5) /\ HundredthsAt(t3) = HundredthsAt(t4)
<1> DEFINE q(t) == t \div Second
           c(t) == t \div Digit
<1>1. Seconds \in Nat \ {0} /\ Hundredths \in Nat \ {0} /\ Digit \in Nat \ {0}
  BY RadixAssumption
<1>2. /\ Second \in Nat \ {0} /\ Minute \in Nat \ {0}
      /\ Minute = Second * Seconds /\ Second = Digit * Hundredths
  BY Counters, <1>1 DEF Second, Minute
<1>3. /\ q(t1) \in Nat /\ q(t2) \in Nat /\ q(t3) \in Nat /\ q(t4) \in Nat
      /\ q(t5) \in Nat
      /\ c(t2) \in Nat /\ c(t3) \in Nat /\ c(t4) \in Nat
  BY <1>1, <1>2, DivMod
<1>4. /\ q(t1) <= q(t2) /\ q(t2) <= q(t3) /\ q(t3) <= q(t4) /\ q(t4) <= q(t5)
      /\ c(t2) <= c(t3) /\ c(t3) <= c(t4)
  BY <1>1, <1>2, DivMonotone
<1>5. q(t1) % Seconds = q(t5) % Seconds
  BY DEF SecondsAt
<1>6. q(t5) - q(t1) < Seconds
  <2>1. t5 % Second \in 0 .. Second - 1 /\ t5 = Second * q(t5) + (t5 % Second)
    BY <1>2, DivMod
  <2>2. t1 % Second \in 0 .. Second - 1 /\ t1 = Second * q(t1) + (t1 % Second)
    BY <1>2, DivMod
  <2>3. ASSUME q(t1) + Seconds <= q(t5) PROVE FALSE
    <3> DEFINE n == q(t1) + Seconds - 1
    <3>1. n \in Nat /\ n < q(t5)
      BY <1>1, <1>3, <2>3
    <3>2. Second * n + Second <= Second * q(t5)
      BY <1>2, <1>3, <3>1, Times
    <3>3. Second * n + Second = Second * q(t1) + Second * Seconds
      BY <1>1, <1>2, <1>3
    <3> HIDE DEF q, n
    <3>4. Second * q(t1) \in Nat /\ Second * q(t5) \in Nat
      BY <1>2, <1>3
    <3> QED BY <1>2, <2>1, <2>2, <3>2, <3>3, <3>4
  <2> HIDE DEF q
  <2> QED BY <1>1, <1>3, <2>3
<1>7. q(t1) = q(t5)
  <2>1. q(t1) <= q(t5)
    BY <1>3, <1>4
  <2> QED BY <1>1, <1>3, <1>5, <1>6, <2>1, SameTurn
<1>8. q(t2) = q(t4) /\ q(t3) = q(t5)
  <2> HIDE DEF q
  <2> QED BY <1>3, <1>4, <1>7
<1>9. c(t2) \div Hundredths = q(t2) /\ c(t4) \div Hundredths = q(t4)
  BY <1>1, DivTwice DEF Second
<1>10. c(t2) = c(t4)
  <2>1. c(t2) % Hundredths = c(t4) % Hundredths
    BY DEF HundredthsAt
  <2>2. /\ c(t2) = Hundredths * (c(t2) \div Hundredths) + (c(t2) % Hundredths)
        /\ c(t4) = Hundredths * (c(t4) \div Hundredths) + (c(t4) % Hundredths)
    BY <1>1, <1>3, DivMod
  <2> HIDE DEF c, q
  <2> QED BY <1>8, <1>9, <2>1, <2>2
<1>11. c(t3) = c(t4)
  <2> HIDE DEF c
  <2> QED BY <1>3, <1>4, <1>10
<1> QED BY <1>8, <1>11 DEF SecondsAt, HundredthsAt

\* BCD loses nothing: what looks the same is the same.
LEMMA SameReading ==
  ASSUME NEW t \in Nat, NEW u \in Nat
  PROVE  /\ Bcd(SecondsAt(t)) = Bcd(SecondsAt(u)) => SecondsAt(t) = SecondsAt(u)
         /\ Bcd(HundredthsAt(t)) = Bcd(HundredthsAt(u))
              => HundredthsAt(t) = HundredthsAt(u)
BY Counters

\* The difference of two readings less than a minute apart.
LEMMA ElapsedIs ==
  ASSUME NEW a \in Nat, NEW c \in Nat, a <= c, c - a < Minute
  PROVE  Elapsed(a % Minute, c % Minute) = c - a
<1> DEFINE p == a \div Minute
           r == a % Minute
           s == c \div Minute
           v == c % Minute
<1>1. Minute \in Nat \ {0}
  BY Counters
<1>2. /\ p \in Nat /\ r \in 0 .. Minute - 1 /\ a = Minute * p + r
      /\ s \in Nat /\ v \in 0 .. Minute - 1 /\ c = Minute * s + v
      /\ p <= s
  BY <1>1, DivMod, DivMonotone
<1>3. Minute * p \in Nat /\ Minute * s \in Nat
  BY <1>1, <1>2
<1> SUFFICES Elapsed(r, v) = c - a
  OBVIOUS
<1>4. CASE s = p
  <2> HIDE DEF p, r, s, v
  <2>1. v - r = c - a
    BY <1>1, <1>2, <1>3, <1>4
  <2> QED BY <1>1, <1>2, <2>1 DEF Elapsed
<1>5. CASE s = p + 1
  <2> HIDE DEF p, r, s, v
  <2>1. Minute * s = Minute * p + Minute
    BY <1>1, <1>2, <1>5
  <2>2. c - a = Minute + v - r /\ ~(v >= r)
    BY <1>1, <1>2, <1>3, <2>1
  <2>3. (Minute - r) + v = Minute + v - r
    BY <1>1, <1>2
  <2> QED BY <2>2, <2>3 DEF Elapsed
<1>6. ~(p + 1 < s)
  <2> HIDE DEF p, r, s, v
  <2>1. Minute * (p + 1) = Minute * p + Minute /\ p + 1 \in Nat
    BY <1>1, <1>2
  <2>2. p + 1 < s => Minute * (p + 1) + Minute <= Minute * s
    BY <1>1, <1>2, <2>1, Times
  <2> QED BY <1>1, <1>2, <1>3, <2>1, <2>2
<1> HIDE DEF p, r, s, v
<1> QED BY <1>2, <1>4, <1>5, <1>6

\* A counter kept modulo Ticks is the count modulo Ticks.
LEMMA TickIs ==
  ASSUME NEW a \in Nat, NEW n \in Nat
  PROVE  ((a % Ticks) + (n % Ticks)) % Ticks = (a + n) % Ticks
<1> DEFINE p == a \div Ticks
           r == a % Ticks
           q == n \div Ticks
           v == n % Ticks
           s == (r + v) \div Ticks
           w == (r + v) % Ticks
<1>1. Ticks \in Nat \ {0}
  BY RadixAssumption
<1>2. /\ p \in Nat /\ r \in 0 .. Ticks - 1 /\ a = Ticks * p + r
      /\ q \in Nat /\ v \in 0 .. Ticks - 1 /\ n = Ticks * q + v
  BY <1>1, DivMod
<1>3. r + v \in Nat
  BY <1>1, <1>2
<1>4. s \in Nat /\ w \in 0 .. Ticks - 1 /\ r + v = Ticks * s + w
  BY <1>1, <1>3, DivMod
<1> HIDE DEF p, r, q, v, s, w
<1>5. p + q + s \in Nat /\ a + n \in Nat
  BY <1>2, <1>4
<1>6. Ticks * (p + q + s) = Ticks * p + Ticks * q + Ticks * s
  BY <1>1, <1>2, <1>4
<1>7. Ticks * p \in Nat /\ Ticks * q \in Nat /\ Ticks * s \in Nat
  BY <1>1, <1>2, <1>4
<1>8. a + n = Ticks * (p + q + s) + w
  BY <1>1, <1>2, <1>4, <1>6, <1>7
<1>9. (a + n) % Ticks = w
  BY <1>1, <1>4, <1>5, <1>8, DivUnique
<1> QED BY <1>9 DEF w, r, v
-----------------------------------------------------------------------------
(* The invariant.                                                          *)

Order == /\ {time, begun, sampled, since, origin, counted} \subseteq Nat
         /\ begun <= time /\ sampled <= time /\ since <= time
         /\ pc \in {"start", "hundredths", "thousandths", "again", "seconds"}
         /\ op \in {"reset", "advance"}

\* What the reads of a pass have in hand, and when it was shown.
PassInv ==
  /\ pc # "start" => /\ time - begun < Minute - Second
                     /\ first_seconds = Bcd(SecondsAt(begun))
                     /\ since <= begun
  /\ pc = "thousandths" =>
       \E t \in begun .. time : first_hundredths = Bcd(HundredthsAt(t))
  /\ pc \in {"again", "seconds"} =>
       /\ begun <= sampled /\ thousandths = Nibble(DigitAt(sampled))
       /\ \E t \in begun .. sampled : first_hundredths = Bcd(HundredthsAt(t))
  /\ pc = "seconds" =>
       \E t \in sampled .. time : second_hundredths = Bcd(HundredthsAt(t))

Bytes == \A r \in {first_seconds, first_hundredths, thousandths,
                   second_hundredths} : r \in 0 .. 255

TickInv == /\ last_ms \in 0 .. Minute - 1
           /\ remainder_ms \in 0 .. Quantum - 1 /\ tick \in 0 .. Ticks - 1
           /\ op = "advance" => /\ time - since < Minute
                                /\ last_ms = since % Minute
                                /\ since - origin = counted * Quantum + remainder_ms
                                /\ tick = counted % Ticks

ClockInv == Order /\ PassInv /\ Bytes /\ TickInv

\* The loop accepts only what the clock showed when the thousandths were read.
LEMMA Accepted ==
  ASSUME ClockInv, pc = "seconds", Consistent(Bcd(SecondsAt(time)))
  PROVE  /\ Reading(Bcd(SecondsAt(time))) = sampled % Minute
         /\ sampled \in Nat /\ since <= sampled /\ sampled <= time
         /\ time - sampled < Minute - Second
<1>1. /\ time \in Nat /\ begun \in Nat /\ sampled \in Nat /\ since \in Nat
      /\ begun <= sampled /\ sampled <= time /\ since <= begun
      /\ time - begun < Minute - Second
      /\ first_seconds = Bcd(SecondsAt(begun))
      /\ thousandths = Nibble(DigitAt(sampled))
  BY DEF ClockInv, Order, PassInv
<1>2. PICK t \in begun .. sampled : first_hundredths = Bcd(HundredthsAt(t))
  BY DEF ClockInv, PassInv
<1>3. PICK u \in sampled .. time : second_hundredths = Bcd(HundredthsAt(u))
  BY DEF ClockInv, PassInv
<1>4. t \in Nat /\ u \in Nat
  BY <1>1, <1>2, <1>3
<1>5. SecondsAt(begun) = SecondsAt(time)
  BY <1>1, SameReading DEF Consistent
<1>6. HundredthsAt(t) = HundredthsAt(u)
  BY <1>2, <1>3, <1>4, SameReading DEF Consistent
<1>7. SecondsAt(sampled) = SecondsAt(time) /\ HundredthsAt(sampled) = HundredthsAt(u)
  BY <1>1, <1>4, <1>5, <1>6, Snapshot
<1>8. Reading(Bcd(SecondsAt(time))) = SecondsAt(time) * Second
                                     + HundredthsAt(u) * Digit + DigitAt(sampled)
  BY <1>1, <1>3, <1>4, Counters DEF Reading
<1>9. Reading(Bcd(SecondsAt(time))) = sampled % Minute
  BY <1>1, <1>7, <1>8, TimeOfCounters
<1>10. time - sampled < Minute - Second
  <2>1. Minute \in Nat /\ Second \in Nat
    BY Counters, <1>1
  <2> QED BY <1>1, <2>1
<1> QED BY <1>1, <1>9, <1>10

\* Initially nothing has been read.
LEMMA InitOK == Init => ClockInv
<1> SUFFICES ASSUME Init PROVE ClockInv
  OBVIOUS
<1>1. Minute \in Nat \ {0} /\ Quantum \in Nat \ {0} /\ Ticks \in Nat \ {0}
  BY Counters, RadixAssumption
<1>2. Order
  BY <1>1 DEF Init, Order
<1>3. PassInv /\ Bytes
  BY DEF Init, PassInv, Bytes
<1>4. TickInv
  BY <1>1 DEF Init, TickInv
<1> QED BY <1>2, <1>3, <1>4 DEF ClockInv

\* The passing of time, within the two assumed limits.
LEMMA ElapseOK == ASSUME ClockInv, Elapse PROVE ClockInv'
<1>1. /\ time \in Nat /\ time' = time + 1
      /\ PassAssumed /\ PollAssumed
      /\ UNCHANGED <<pc, op, begun, sampled>>
      /\ UNCHANGED <<first_seconds, first_hundredths, thousandths, second_hundredths>>
      /\ UNCHANGED <<last_ms, remainder_ms, tick>> /\ UNCHANGED <<since, origin, counted>>
  BY DEF Elapse, ClockInv, Order, registers, clock, history
<1>2. Order'
  BY <1>1 DEF ClockInv, Order
<1>3. PassInv'
  <2>1. pc # "start" => time' - begun < Minute - Second
    BY <1>1 DEF PassAssumed
  <2>2. {begun, sampled} \subseteq Nat
    BY DEF ClockInv, Order
  <2>3. begun .. time \subseteq begun .. time' /\ sampled .. time \subseteq sampled .. time'
    BY <1>1, <2>2
  <2> QED BY <1>1, <2>1, <2>3 DEF ClockInv, PassInv
<1>4. Bytes'
  BY <1>1 DEF ClockInv, Bytes
<1>5. TickInv'
  BY <1>1 DEF ClockInv, TickInv, PollAssumed
<1> QED BY <1>2, <1>3, <1>4, <1>5 DEF ClockInv

\* The port reads.
LEMMA ReadsOK ==
  ASSUME ClockInv, Poll \/ ReadHundredths \/ ReadThousandths \/ ReadAgain \/ Retry
  PROVE  ClockInv'
<1>1. /\ {time, begun, sampled, since} \subseteq Nat
      /\ begun <= time /\ sampled <= time /\ since <= time
  BY DEF ClockInv, Order
<1>2. /\ UNCHANGED <<time, op>> /\ UNCHANGED <<last_ms, remainder_ms, tick>>
      /\ UNCHANGED <<since, origin, counted>>
      /\ pc' \in {"start", "hundredths", "thousandths", "again", "seconds"}
      /\ begun' \in {begun, time} /\ sampled' \in {sampled, time}
  BY DEF Poll, ReadHundredths, ReadThousandths, ReadAgain, Retry, clock, history
<1>3. Order'
  BY <1>1, <1>2 DEF ClockInv, Order
<1>4. TickInv'
  BY <1>2 DEF ClockInv, TickInv
<1>5. /\ Bcd(SecondsAt(time)) \in 0 .. 255 /\ Bcd(HundredthsAt(time)) \in 0 .. 255
      /\ Nibble(DigitAt(time)) \in 0 .. 255
  BY <1>1, Counters
<1>6. Bytes'
  BY <1>5 DEF ClockInv, Bytes, Poll, ReadHundredths, ReadThousandths, ReadAgain,
              Retry, registers
<1>7. PassInv'
  <2>1. CASE Poll
    <3>1. 0 < Minute - Second
      <4>1. Seconds \in Nat /\ 2 <= Seconds /\ Second \in Nat \ {0}
        BY RadixAssumption, Counters, <1>1
      <4>2. Second * 1 + Second <= Second * Seconds
        BY <4>1, Times
      <4>3. Second * Seconds = Seconds * Second /\ Second * 1 = Second
        BY <4>1
      <4> QED BY <4>1, <4>2, <4>3 DEF Minute
    <3>2. time' = time /\ pc' = "hundredths" /\ begun' = time
          /\ first_seconds' = Bcd(SecondsAt(time)) /\ since' = since
      BY <2>1 DEF Poll, history
    <3>3. time' - begun' = 0
      BY <1>1, <3>2
    <3> QED BY <1>1, <3>1, <3>2, <3>3 DEF PassInv
  <2>2. CASE ReadHundredths
    <3>1. time' = time /\ pc' = "thousandths" /\ pc = "hundredths"
          /\ begun' = begun /\ since' = since /\ first_seconds' = first_seconds
          /\ first_hundredths' = Bcd(HundredthsAt(time))
      BY <2>2 DEF ReadHundredths, history
    <3>2. time \in begun .. time
      BY <1>1
    <3> QED BY <3>1, <3>2 DEF ClockInv, PassInv
  <2>3. CASE ReadThousandths
    <3>1. time' = time /\ pc' = "again" /\ pc = "thousandths"
          /\ begun' = begun /\ since' = since /\ first_seconds' = first_seconds
          /\ first_hundredths' = first_hundredths
          /\ thousandths' = Nibble(DigitAt(time)) /\ sampled' = time
      BY <2>3 DEF ReadThousandths, history
    <3> QED BY <1>1, <3>1 DEF ClockInv, PassInv
  <2>4. CASE ReadAgain
    <3>1. time' = time /\ pc' = "seconds" /\ pc = "again"
          /\ begun' = begun /\ since' = since /\ first_seconds' = first_seconds
          /\ first_hundredths' = first_hundredths /\ thousandths' = thousandths
          /\ sampled' = sampled
          /\ second_hundredths' = Bcd(HundredthsAt(time))
      BY <2>4 DEF ReadAgain, history
    <3>2. time \in sampled .. time
      BY <1>1
    <3> QED BY <3>1, <3>2 DEF ClockInv, PassInv
  <2>5. CASE Retry
    BY <2>5 DEF Retry, PassInv
  <2> QED BY <2>1, <2>2, <2>3, <2>4, <2>5
<1> QED BY <1>3, <1>4, <1>6, <1>7 DEF ClockInv

\* paket_timebase_reset.
LEMMA ResetOK == ASSUME ClockInv, Reset PROVE ClockInv'
<1>1. /\ last_ms' = sampled % Minute
      /\ sampled \in Nat /\ sampled <= time /\ time - sampled < Minute - Second
  BY Accepted DEF Reset
<1>2. /\ pc' = "start" /\ op' = "advance" /\ UNCHANGED <<time, begun, sampled>>
      /\ UNCHANGED <<first_seconds, first_hundredths, thousandths, second_hundredths>>
      /\ remainder_ms' = 0 /\ tick' = 0
      /\ since' = sampled /\ origin' = sampled /\ counted' = 0
  BY DEF Reset, registers
<1>3. Order'
  BY <1>1, <1>2 DEF ClockInv, Order
<1>4. PassInv'
  BY <1>2 DEF PassInv
<1>5. Bytes'
  BY <1>2 DEF ClockInv, Bytes
<1>6. TickInv'
  <2>1. /\ Minute \in Nat \ {0} /\ Second \in Nat \ {0} /\ time \in Nat
        /\ Ticks \in Nat \ {0} /\ Quantum \in Nat \ {0}
    BY Counters, RadixAssumption DEF ClockInv, Order
  <2>2. last_ms' \in 0 .. Minute - 1
    BY <1>1, TimeOfCounters
  <2>3. 0 = 0 % Ticks
    BY <2>1, DivUnique
  <2>4. time' - since' < Minute
    BY <1>1, <1>2, <2>1
  <2>5. since' - origin' = counted' * Quantum + remainder_ms'
    BY <1>1, <1>2, <2>1
  <2> QED BY <1>1, <1>2, <2>1, <2>2, <2>3, <2>4, <2>5 DEF TickInv
<1> QED BY <1>3, <1>4, <1>5, <1>6 DEF ClockInv

\* paket_timebase_advance.
LEMMA AdvanceOK == ASSUME ClockInv, Advance PROVE ClockInv'
<1> DEFINE e == sampled - since
           accumulated == remainder_ms + e
           n == accumulated \div Quantum
<1>1. /\ Reading(Bcd(SecondsAt(time))) = sampled % Minute
      /\ sampled \in Nat /\ since <= sampled /\ sampled <= time
      /\ time - sampled < Minute - Second
  BY Accepted DEF Advance
<1>2. /\ Minute \in Nat \ {0} /\ Second \in Nat \ {0} /\ time \in Nat
      /\ {since, origin, counted} \subseteq Nat
      /\ Ticks \in Nat \ {0} /\ Quantum \in Nat \ {0}
      /\ Word \in Nat /\ Minute + Quantum <= Word
  BY Counters, RadixAssumption, WordAssumption DEF ClockInv, Order
<1>3. /\ op = "advance" /\ time - since < Minute /\ last_ms = since % Minute
      /\ since - origin = counted * Quantum + remainder_ms
      /\ tick = counted % Ticks /\ remainder_ms \in 0 .. Quantum - 1
  BY DEF Advance, ClockInv, TickInv
<1>4. Elapsed(last_ms, sampled % Minute) = e /\ e \in 0 .. Minute - 1
  <2>1. sampled - since < Minute
    BY <1>1, <1>2, <1>3
  <2>2. since \in Nat
    BY <1>2
  <2>3. Elapsed(since % Minute, sampled % Minute) = sampled - since
    BY <1>1, <2>1, <2>2, ElapsedIs
  <2> QED BY <1>1, <1>2, <1>3, <2>1, <2>2, <2>3
<1>5. accumulated \in Nat /\ accumulated % Word = accumulated
  <2>1. Word \in Nat \ {0} /\ accumulated \in 0 .. Word - 1
    BY <1>2, <1>3, <1>4
  <2>2. accumulated = Word * 0 + accumulated
    BY <2>1
  <2> QED BY <2>1, <2>2, DivUnique
<1>6. /\ last_ms' = sampled % Minute
      /\ tick' = (tick + (n % Ticks)) % Ticks
      /\ remainder_ms' = accumulated % Quantum
      /\ counted' = counted + n
  <2> HIDE DEF e
  <2> QED BY <1>1, <1>4, <1>5 DEF Advance, Carry
<1>7. /\ pc' = "start" /\ UNCHANGED <<time, op, begun, sampled, origin>>
      /\ UNCHANGED <<first_seconds, first_hundredths, thousandths, second_hundredths>>
      /\ since' = sampled
  BY DEF Advance, registers
<1>8. /\ n \in Nat /\ accumulated % Quantum \in 0 .. Quantum - 1
      /\ accumulated = Quantum * n + (accumulated % Quantum)
  BY <1>2, <1>5, DivMod
<1>9. Order'
  BY <1>1, <1>2, <1>6, <1>7, <1>8 DEF ClockInv, Order
<1>10. PassInv'
  BY <1>7 DEF PassInv
<1>11. Bytes'
  BY <1>7 DEF ClockInv, Bytes
<1>12. TickInv'
  <2>1. tick' = counted' % Ticks
    BY <1>2, <1>3, <1>6, <1>8, TickIs
  <2>2. tick' \in 0 .. Ticks - 1
    <3>1. counted' \in Nat
      BY <1>2, <1>6, <1>8
    <3> QED BY <1>2, <2>1, <3>1, DivMod
  <2>3. last_ms' \in 0 .. Minute - 1
    BY <1>1, <1>6, TimeOfCounters
  <2>4. since' - origin' = counted' * Quantum + remainder_ms'
    <3>1. counted' * Quantum = counted * Quantum + Quantum * n
      BY <1>2, <1>6, <1>8
    <3>2. counted * Quantum \in Nat /\ Quantum * n \in Nat
      BY <1>2, <1>8
    <3>3. since' - origin' = (since - origin) + e
      BY <1>1, <1>2, <1>7
    <3> HIDE DEF n
    <3> QED BY <1>2, <1>3, <1>4, <1>6, <1>8, <3>1, <3>2, <3>3
  <2>5. time' - since' < Minute
    BY <1>1, <1>2, <1>7
  <2> HIDE DEF e, n, accumulated
  <2> QED BY <1>6, <1>7, <1>8, <2>1, <2>2, <2>3, <2>4, <2>5 DEF TickInv
<1> QED BY <1>9, <1>10, <1>11, <1>12 DEF ClockInv

\* Every step keeps the invariant.
LEMMA StepOK == ASSUME ClockInv PROVE [Next]_vars => ClockInv'
<1>1. ASSUME UNCHANGED vars PROVE ClockInv'
  BY <1>1 DEF vars, registers, clock, history, ClockInv, Order, PassInv, Bytes,
              TickInv
<1> QED BY <1>1, ElapseOK, ReadsOK, ResetOK, AdvanceOK DEF Next

\* The invariant holds throughout.
LEMMA Invariance == Spec => []ClockInv
BY InitOK, StepOK, PTL DEF Spec

\* Types and ranges; in particular no reading, remainder or tick leaves its word.
THEOREM TypeCorrect == Spec => []TypeOK
<1>1. ClockInv => TypeOK
  BY DEF ClockInv, Order, Bytes, TickInv, TypeOK
<1> QED BY <1>1, Invariance, PTL

\* A reading that the snapshot loop accepts was shown during the loop, whatever
\* rolled over between its reads.
THEOREM SnapshotIsTrue == Spec => []ReadingWasShown
<1>1. ClockInv => ReadingWasShown
  BY DEF ClockInv, Order, TickInv, ReadingWasShown
<1> QED BY <1>1, Invariance, PTL

\* The tick is the time since the reset in units of Quantum, without drift,
\* across every rollover of the minute and of the tick itself.
THEOREM ClockKeepsTime == Spec => []NoTimeLost
<1>1. ClockInv => NoTimeLost
  BY DEF ClockInv, TickInv, NoTimeLost
<1> QED BY <1>1, Invariance, PTL
=============================================================================
