----------------------------- MODULE FileOutput -----------------------------
(***************************************************************************)
(* The buffered file of src/src/file.c (CP/M build): one FCB, one record   *)
(* buffer, and BDOS calls that may each fail.  BDOS is external: a         *)
(* directory with at most one file of the target's name in each user area, *)
(* and the current user area, by which F_MAKE and F_DELETE find it.  What  *)
(* a byte is, the caller chooses.                                          *)
(***************************************************************************)
EXTENDS Naturals, Sequences

CONSTANTS Record,   \* bytes of a disk record (128)
          Pad,      \* what fills the last record (1Ah)
          Users,    \* CP/M user areas
          Absent,   \* no such file
          Old,      \* a file of that name from before
          MaxBlock  \* bound: bytes of one write

ASSUME RecordAssumption == Record \in Nat \ {0}
ASSUME BlockAssumption == MaxBlock \in Nat
\* What is no file of ours is told from one that holds bytes.
ASSUME NamesAssumption == Absent # Old /\ {Absent, Old} \cap Seq(Nat \cup {Pad}) = {}

VARIABLES
  open, user, previous_user, dma,  \* paket_file: dma[1 .. dma_used]
  records,       \* bytes written through the FCB, in whole records
  directory,     \* what the directory holds in each user area
  current_user,  \* BDOS F_USERNUM
  failed,        \* history: a write or close of this file returned -1
  home           \* history: the user area the program was started in

fileVars == <<open, user, previous_user, dma, records, directory, current_user,
              failed, home>>

Init == /\ home \in Users /\ current_user = home
        /\ user = home /\ previous_user = home
        /\ open = FALSE /\ dma = <<>> /\ records = <<>>
        /\ directory \in [Users -> {Absent, Old}]
        /\ failed = FALSE

\* The program has a file of its own in the directory.
Made == directory[user] \notin {Absent, Old}

\* The user area selected for F_DELETE by paket_file_remove.
RemoveAreaMutant == current_user  \* forgets to select the file's area
RemoveArea == user

\* The user area a failed create leaves selected.
AreaAfterFailedMakeMutant(u) == u \* forgets to go back
AreaAfterFailedMake(u) == current_user

\* paket_file_create, of a name that parses.  F_DELETE's result is ignored;
\* F_MAKE fails on a name that still exists.
Create(u) ==
  \E deleted, made \in BOOLEAN :
    LET left == IF deleted THEN Absent ELSE directory[u]
    IN  /\ ~open /\ ~Made
        /\ made => left = Absent
        /\ user' = u /\ previous_user' = current_user
        /\ dma' = <<>> /\ records' = <<>> /\ failed' = FALSE
        /\ open' = made
        /\ directory' = [directory EXCEPT ![u] = IF made THEN <<>> ELSE left]
        /\ current_user' = IF made THEN u ELSE AreaAfterFailedMake(u)
        /\ UNCHANGED home

First(s, n) == SubSeq(s, 1, n * Record)
Rest(s, n)  == SubSeq(s, n * Record + 1, Len(s))
Nth(s, n)   == SubSeq(s, (n - 1) * Record + 1, n * Record)

\* What stays in the buffer when all full records of s have been flushed.
Kept(s) == Rest(s, Len(s) \div Record)

\* paket_file_write: every record that fills up is flushed.
WriteAll(bytes) ==
  LET all == dma \o bytes
  IN  /\ open
      /\ records' = records \o First(all, Len(all) \div Record)
      /\ dma' = Kept(all)
      /\ UNCHANGED <<open, user, previous_user, directory, current_user, failed,
                     home>>

\* One of the flushes fails: the loop stops with that record in the buffer.
WriteFails(bytes) ==
  LET all == dma \o bytes
  IN  \E n \in 1 .. Len(all) \div Record :
        /\ open
        /\ records' = records \o First(all, n - 1)
        /\ dma' = Nth(all, n)
        /\ failed' = TRUE
        /\ UNCHANGED <<open, user, previous_user, directory, current_user, home>>

LastRecordMutant == <<>>  \* a partial record is not flushed
LastRecord == IF dma = <<>> THEN <<>>
              ELSE [i \in 1 .. Record |-> IF i <= Len(dma) THEN dma[i] ELSE Pad]

\* paket_file_close: fill and flush what is buffered, whether or not an earlier
\* flush failed, then F_CLOSE, which makes the records part of the file.
Close(flushed, closed) ==
  /\ open
  /\ records' = IF flushed THEN records \o LastRecord ELSE records
  /\ dma' = IF flushed THEN <<>> ELSE dma
  /\ directory' = [directory EXCEPT ![user] = IF closed THEN records' ELSE @]
  /\ failed' = (failed \/ (dma # <<>> /\ ~flushed) \/ ~closed)
  /\ open' = FALSE
  /\ current_user' = previous_user
  /\ UNCHANGED <<user, previous_user, home>>

\* paket_file_remove: the area is selected and given back around F_DELETE.
Remove(deleted) ==
  /\ directory' = IF deleted THEN [directory EXCEPT ![RemoveArea] = Absent]
                  ELSE directory
  /\ UNCHANGED <<open, user, previous_user, dma, records, current_user, failed,
                 home>>
-----------------------------------------------------------------------------
(* Properties.                                                             *)

\* What file.h promises of the file (see ByteFile).
Bytes == INSTANCE ByteFile WITH
           content <- IF Made THEN records \o dma ELSE <<>>,
           phase   <- IF ~Made THEN "none" ELSE IF failed THEN "broken"
                      ELSE IF open THEN "open" ELSE "closed"

\* Whatever fails, only the file named by the caller is created, replaced or
\* deleted: never the file of that name in another user area.
OnlyTheTarget ==
  [][\A u \in Users : directory'[u] # directory[u] => u = user']_fileVars

\* Between calls on an open file the program runs in the file's user area, and
\* otherwise in its own.
UserGivenBack == current_user = IF open THEN user ELSE home
=============================================================================
