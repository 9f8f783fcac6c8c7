----------------------------- MODULE SerialFifo -----------------------------
(***************************************************************************)
(* What the serial adapter of src/src/serial_link.c and serial_isr.s       *)
(* promises libsquid through send_char and recv_char: two independent byte *)
(* streams of bounded backlog, each kept in order until the link fails     *)
(* visibly.  A byte is named by its position in its stream, so that        *)
(* losing, repeating or swapping two bytes shows whatever their values.    *)
(***************************************************************************)
EXTENDS Integers

CONSTANTS OutCapacity,  \* bytes the adapter may hold on their way out
          InCapacity    \* bytes it may hold on their way in

VARIABLES accepted,  \* bytes taken from libsquid
          wire,      \* position of the last byte put on the line
          arrived,   \* bytes the peer has put on the line
          got,       \* position of the last byte given to libsquid
          fault      \* the link has failed visibly

vars == <<accepted, wire, arrived, got, fault>>

Init == /\ accepted = 0
        /\ wire = 0
        /\ arrived = 0
        /\ got = 0
        /\ fault = FALSE

Accept == /\ accepted - wire < OutCapacity
          /\ accepted' = accepted + 1
          /\ UNCHANGED <<wire, arrived, got, fault>>

Emit == /\ wire < accepted
        /\ wire' = wire + 1
        /\ UNCHANGED <<accepted, arrived, got, fault>>

\* A byte that finds no room fails the link before it may be lost.
Arrive == /\ ~fault => arrived - got < InCapacity
          /\ arrived' = arrived + 1
          /\ UNCHANGED <<accepted, wire, got, fault>>

\* Once the link has failed bytes may be missing, but never before, and the
\* ones that are given keep their order for ever.
Deliver == /\ got' \in got + 1 .. arrived
           /\ ~fault => got' = got + 1
           /\ UNCHANGED <<accepted, wire, arrived, fault>>

\* A send into a full ring, or an arrival that finds the ring full.
Fail == /\ fault' = TRUE
        /\ UNCHANGED <<accepted, wire, arrived, got>>

Next == Accept \/ Emit \/ Arrive \/ Deliver \/ Fail

Spec == Init /\ [][Next]_vars
=============================================================================
