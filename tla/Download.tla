------------------------------ MODULE Download ------------------------------
(***************************************************************************)
(* One download: download_package of src/src/application.c around          *)
(* paket_fetch_download of src/src/client_z80.c (client.c has the same     *)
(* loop), writing through FileOutput.  The server is external and may      *)
(* answer anything the client library can decode: any offset, total and    *)
(* size, or an error.  The bytes it sends are the ones at the offset it    *)
(* states, so a byte is its position in the package.                       *)
(***************************************************************************)
EXTENDS FileOutput

CONSTANTS Wrap  \* 2^32: offsets and totals are uint32_t

ASSUME WrapAssumption == Wrap \in Nat \ {0}

VARIABLES pc, offset, total_size, have_total,
          result,   \* what paket_fetch_download and paket_file_close gave
          target,   \* the user area the destination names
          kept,     \* history: F_DELETE failed in paket_file_remove
          reported  \* the last line printed

callVars == <<pc, offset, total_size, have_total, result, target, kept, reported>>
vars == <<fileVars, callVars>>

DownloadInit == /\ Init /\ target \in Users
                /\ pc = "start" /\ offset = 0 /\ total_size = 0
                /\ have_total = FALSE /\ result = "ok" /\ kept = FALSE
                /\ reported = "nothing"

\* A wildcard, a package that cannot be resolved or has no download, a bad
\* destination: nothing has been touched.
Refuse == /\ pc = "start" /\ pc' = "done"
          /\ reported' = "refused"
          /\ UNCHANGED <<fileVars, offset, total_size, have_total, result,
                         target, kept>>

CreateTarget ==
  /\ pc = "start"
  /\ Create(target)
  /\ pc' = IF open' THEN "fetch" ELSE "done"
  /\ reported' = IF open' THEN "downloading" ELSE "cannot create"
  /\ UNCHANGED <<offset, total_size, have_total, result, target, kept>>

Responses == [offset : 0 .. Wrap - 1, total_size : 0 .. Wrap - 1,
              size : 0 .. MaxBlock]

FitsMutant(c) == (offset + c.size) % Wrap <= c.total_size  \* the sum wraps
Fits(c) == offset <= c.total_size /\ c.size <= c.total_size - offset

SameTotal(c) == have_total => c.total_size = total_size

AdvancesMutant(c) == TRUE
Advances(c) == c.size = 0 => offset = c.total_size

InPlace(c) == c.offset = offset

Valid(c) == InPlace(c) /\ Fits(c) /\ SameTotal(c) /\ Advances(c)

Data(c) == [i \in 1 .. c.size |-> c.offset + i]

Stop(why) == /\ result' = why /\ pc' = "close"
             /\ UNCHANGED <<total_size, have_total, offset>>

\* One turn of the loop: a request, and then the exchange fails, or its answer
\* is refused, or the disk refuses the bytes, or they are written.
Ask == /\ pc = "fetch" /\ pc' = "answer"
       /\ UNCHANGED <<fileVars, offset, total_size, have_total, result, target,
                      kept, reported>>

ExchangeFails == /\ pc = "answer" /\ Stop("server")
                 /\ UNCHANGED <<fileVars, target, kept, reported>>

ResponseRefused == /\ pc = "answer"
                   /\ \E c \in Responses : ~Valid(c)
                   /\ Stop("protocol")
                   /\ UNCHANGED <<fileVars, target, kept, reported>>

DiskRefuses == /\ pc = "answer"
               /\ \E c \in Responses : Valid(c) /\ WriteFails(Data(c))
               /\ Stop("write")
               /\ UNCHANGED <<target, kept, reported>>

ChunkWritten ==
  /\ pc = "answer"
  /\ \E c \in Responses :
       /\ Valid(c) /\ WriteAll(Data(c))
       /\ total_size' = c.total_size /\ have_total' = TRUE
       /\ offset' = (offset + c.size) % Wrap
       /\ pc' = IF offset' = total_size' THEN "close" ELSE "fetch"
  /\ UNCHANGED <<result, target, kept, reported>>

\* A failed close is a failed download.
SettledMutant == result  \* only the transfer's own result is looked at
Settled == result'

\* The close's failure replaces the transfer's result.
CloseResultMutant(ok) == result  \* a failed close goes unnoticed
CloseResult(ok) == IF ok THEN result ELSE "write"

CloseTarget ==
  /\ pc = "close"
  /\ \E flushed, closed \in BOOLEAN :
       /\ Close(flushed, closed)
       /\ result' = CloseResult((dma # <<>> => flushed) /\ closed)
  /\ pc' = IF Settled = "ok" THEN "done" ELSE "remove"
  /\ reported' = IF result' = "ok" THEN "complete" ELSE reported
  /\ UNCHANGED <<offset, total_size, have_total, target, kept>>

\* The result of paket_file_remove is not looked at.
RemoveTarget ==
  /\ pc = "remove" /\ pc' = "done"
  /\ \E deleted \in BOOLEAN : Remove(deleted) /\ kept' = ~deleted
  /\ reported' = "partial file removed"
  /\ UNCHANGED <<offset, total_size, have_total, result, target>>

Work == Refuse \/ CreateTarget \/ Ask \/ ExchangeFails \/ ResponseRefused
        \/ DiskRefuses \/ ChunkWritten \/ CloseTarget \/ RemoveTarget

DownloadSpec == DownloadInit /\ [][Work]_vars
-----------------------------------------------------------------------------
(* Properties.                                                             *)

\* Under whatever the server sends and the disk refuses, the file on disk is the
\* one that file.h describes: it only grows by what is written, in order, until a
\* call fails, and a close only fills up its last record.
OneByteFile ==
  /\ Bytes!Init
  /\ [][Bytes!Next({Data(c) : c \in Responses})]_(Bytes!vars)

\* The file so far is the package so far: its first offset bytes, in order,
\* whatever the server answered and wherever a flush failed in between.
WrittenInOrder ==
  pc \in {"fetch", "answer"} =>
    records \o dma = [i \in 1 .. offset |-> i]

\* "The transfer is complete" is printed only when the directory holds every
\* byte of the package and nothing but padding after it.
CompleteMeansWhole ==
  reported = "complete" =>
    /\ have_total
    /\ Bytes!Filled([i \in 1 .. total_size |-> i], directory[target])

\* A transfer that did not complete leaves no file behind, unless F_DELETE
\* itself failed, and says so; and it never claims success.
FailureLeavesNothing ==
  pc = "done" /\ reported # "complete" => ~Made \/ kept
=============================================================================
