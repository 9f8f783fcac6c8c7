------------------------------ MODULE ByteFile ------------------------------
(***************************************************************************)
(* What src/include/paket/file.h promises: a file is created empty, grows  *)
(* by whole blocks in the order they are written until a call fails, and   *)
(* once closed holds exactly those bytes, filled up to a full record.      *)
(***************************************************************************)
EXTENDS Naturals, Sequences

CONSTANTS Record,  \* bytes of a disk record
          Pad      \* the byte that fills the last one (1Ah)

VARIABLES content,  \* the bytes of the file
          phase     \* none, open, closed, or broken by a call that failed

vars == <<content, phase>>

Init == content = <<>> /\ phase = "none"

Create == /\ phase = "none"
          /\ content' = <<>> /\ phase' = "open"

Prefixes(s) == {SubSeq(s, 1, n) : n \in 0 .. Len(s)}

Grow(bytes) == /\ phase = "open"
               /\ content' = content \o bytes
               /\ UNCHANGED phase

Break(bytes) == /\ phase = "open" /\ phase' = "broken"
                /\ content' \in {content \o p : p \in Prefixes(bytes)}

\* The last record is filled up, and only the last.
Filled(s, t) == /\ Len(t) % Record = 0 /\ Len(t) < Len(s) + Record
                /\ Len(t) >= Len(s) /\ SubSeq(t, 1, Len(s)) = s
                /\ \A i \in Len(s) + 1 .. Len(t) : t[i] = Pad

Close == /\ phase = "open" /\ phase' \in {"closed", "broken"}
         /\ Filled(content, content')

Discard == content' = <<>> /\ phase' = "none"

\* Blocks are what the caller may write next.
Next(Blocks) == Create \/ Close \/ Discard
                \/ \E bytes \in Blocks : Grow(bytes) \/ Break(bytes)
=============================================================================
