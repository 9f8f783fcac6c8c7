--------------------------- MODULE DownloadProofs ---------------------------
(***************************************************************************)
(* What holds of a download whatever the record size, the server's answers *)
(* and the BDOS calls that fail: the invariant DownloadInv ties the        *)
(* program counter to the open file, the selected user area and the file's *)
(* presence in the directory.                                              *)
(***************************************************************************)
EXTENDS Download, SequenceTheorems, TLAPS

Started == {"fetch", "answer", "close"}

AreaInv == /\ {user, previous_user, current_user, home, target} \subseteq Users
           /\ current_user = IF open THEN user ELSE home
           /\ open => previous_user = home
           /\ open <=> pc \in Started
DirInv == /\ DOMAIN directory = Users
          /\ pc = "start" => \A u \in Users : directory[u] \in {Absent, Old}
          /\ pc = "done" /\ reported # "complete" => ~Made \/ kept
          /\ reported = "complete" => pc = "done"
DownloadInv == AreaInv /\ DirInv

\* The program starts in the invariant.
LEMMA DownloadInitOK == DownloadInit => DownloadInv
<1> SUFFICES ASSUME DownloadInit PROVE DownloadInv
  OBVIOUS
<1>1. AreaInv
  BY DEF DownloadInit, Init, AreaInv, Started
<1>2. DOMAIN directory = Users /\ \A u \in Users : directory[u] \in {Absent, Old}
  BY DEF DownloadInit, Init
<1>3. DirInv
  BY <1>2 DEF DownloadInit, DirInv
<1> QED BY <1>1, <1>3 DEF DownloadInv

\* Only creating, closing and removing touch the directory or the user area.
LEMMA TransferKeeps ==
  ASSUME ExchangeFails \/ ResponseRefused \/ DiskRefuses \/ ChunkWritten \/ Ask
  PROVE  /\ UNCHANGED <<open, user, previous_user, directory, current_user,
                        home, target, kept, reported>>
         /\ pc \in Started /\ pc' \in Started
BY DEF ExchangeFails, ResponseRefused, DiskRefuses, ChunkWritten, Ask, Stop,
       WriteFails, WriteAll, fileVars, Started

\* Every step keeps the invariant.
LEMMA DownloadStepOK ==
  ASSUME DownloadInv PROVE [Work]_vars => DownloadInv'
<1>1. ASSUME Refuse PROVE DownloadInv'
  <2>1. UNCHANGED <<fileVars, target, kept>> /\ pc = "start" /\ pc' = "done"
        /\ reported' = "refused"
    BY <1>1 DEF Refuse
  <2> QED BY <2>1 DEF fileVars, DownloadInv, AreaInv, DirInv, Made, Started
<1>2. ASSUME CreateTarget PROVE DownloadInv'
  <2>1. PICK deleted, made \in BOOLEAN :
          LET left == IF deleted THEN Absent ELSE directory[target]
          IN  /\ ~open
              /\ user' = target /\ previous_user' = current_user
              /\ open' = made
              /\ directory' = [directory EXCEPT ![target] =
                                 IF made THEN <<>> ELSE left]
              /\ current_user' = IF made THEN target ELSE current_user
              /\ UNCHANGED home
    BY <1>2 DEF CreateTarget, Create, AreaAfterFailedMake
  <2>2. /\ UNCHANGED <<target, kept>> /\ pc = "start"
        /\ pc' = IF open' THEN "fetch" ELSE "done"
        /\ reported' = IF open' THEN "downloading" ELSE "cannot create"
    BY <1>2 DEF CreateTarget
  <2>3. target \in Users /\ DOMAIN directory' = Users
    BY <2>1 DEF DownloadInv, AreaInv, DirInv
  <2>4. AreaInv'
    BY <2>1, <2>2, <2>3 DEF DownloadInv, AreaInv, Started
  <2>5. ~made => directory'[user'] \in {Absent, Old}
    BY <2>1, <2>2, <2>3 DEF DownloadInv, DirInv
  <2>6. DirInv'
    <3>1. CASE made
      BY <3>1, <2>1, <2>2, <2>3 DEF DirInv
    <3>2. CASE ~made
      BY <3>2, <2>1, <2>2, <2>3, <2>5 DEF DirInv, Made
    <3> QED BY <3>1, <3>2
  <2> QED BY <2>4, <2>6 DEF DownloadInv
<1>3. ASSUME ExchangeFails \/ ResponseRefused \/ DiskRefuses \/ ChunkWritten
             \/ Ask
      PROVE  DownloadInv'
  BY <1>3, TransferKeeps DEF DownloadInv, AreaInv, DirInv, Made, Started
<1>4. ASSUME CloseTarget PROVE DownloadInv'
  <2>1. /\ pc = "close" /\ open /\ ~open'
        /\ current_user' = previous_user
        /\ UNCHANGED <<user, previous_user, home, target, kept>>
        /\ DOMAIN directory' = DOMAIN directory
    BY <1>4 DEF CloseTarget, Close
  <2>2. /\ pc' = IF result' = "ok" THEN "done" ELSE "remove"
        /\ reported' = IF result' = "ok" THEN "complete" ELSE reported
    BY <1>4 DEF CloseTarget, Settled
  <2>3. AreaInv'
    BY <2>1, <2>2 DEF DownloadInv, AreaInv, Started
  <2>4. DirInv'
    <3>1. CASE result' = "ok"
      BY <3>1, <2>1, <2>2 DEF DownloadInv, DirInv
    <3>2. CASE result' # "ok"
      BY <3>2, <2>1, <2>2 DEF DownloadInv, DirInv
    <3> QED BY <3>1, <3>2
  <2> QED BY <2>3, <2>4 DEF DownloadInv
<1>5. ASSUME RemoveTarget PROVE DownloadInv'
  <2>1. PICK deleted \in BOOLEAN :
          /\ directory' = IF deleted THEN [directory EXCEPT ![user] = Absent]
                          ELSE directory
          /\ kept' = ~deleted
    BY <1>5 DEF RemoveTarget, Remove, RemoveArea
  <2>2. /\ pc = "remove" /\ pc' = "done"
        /\ reported' = "partial file removed"
        /\ UNCHANGED <<open, user, previous_user, current_user, home, target>>
    BY <1>5 DEF RemoveTarget, Remove
  <2>3. AreaInv'
    BY <2>2 DEF DownloadInv, AreaInv, Started
  <2>4. DirInv'
    <3>1. user \in Users /\ DOMAIN directory = Users
      BY DEF DownloadInv, AreaInv, DirInv
    <3>2. CASE deleted
      BY <3>1, <3>2, <2>1, <2>2 DEF DirInv, Made
    <3>3. CASE ~deleted
      BY <3>1, <3>3, <2>1, <2>2 DEF DirInv
    <3> QED BY <3>2, <3>3
  <2> QED BY <2>3, <2>4 DEF DownloadInv
<1>6. ASSUME UNCHANGED vars PROVE DownloadInv'
  BY <1>6 DEF vars, fileVars, callVars, DownloadInv, AreaInv, DirInv, Made, Started
<1> QED BY <1>1, <1>2, <1>3, <1>4, <1>5, <1>6 DEF Work

\* Every reachable state satisfies the invariant.
LEMMA Invariance == DownloadSpec => []DownloadInv
BY DownloadInitOK, DownloadStepOK, PTL DEF DownloadSpec

\* Whatever fails, in whatever order, the BDOS user area is the file's while the
\* file is open and otherwise the one the program was started in.
THEOREM AreaIsGivenBack == DownloadSpec => []UserGivenBack
<1>1. DownloadInv => UserGivenBack
  BY DEF DownloadInv, AreaInv, UserGivenBack
<1> QED BY <1>1, Invariance, PTL

\* A download that ends without completing leaves no file of its own, unless
\* BDOS refuses to delete it.
THEOREM NothingIsLeft == DownloadSpec => []FailureLeavesNothing
<1>1. DownloadInv => FailureLeavesNothing
  BY DEF DownloadInv, DirInv, FailureLeavesNothing
<1> QED BY <1>1, Invariance, PTL

\* A step changes at most the directory entry in the area of the target.
LEMMA StepOnTarget ==
  ASSUME DownloadInv
  PROVE  [Work]_vars =>
           [\A u \in Users : directory'[u] # directory[u] => u = user']_fileVars
<1> DEFINE Local == \A u \in Users : directory'[u] # directory[u] => u = user'
<1>0. DOMAIN directory = Users
  BY DEF DownloadInv, DirInv
<1>1. ASSUME CreateTarget PROVE Local
  <2>1. PICK v : /\ user' = target
                 /\ directory' = [directory EXCEPT ![target] = v]
    BY <1>1 DEF CreateTarget, Create
  <2> QED BY <2>1, <1>0
<1>2. ASSUME CloseTarget PROVE Local
  <2>1. PICK v : /\ user' = user
                 /\ directory' = [directory EXCEPT ![user] = v]
    BY <1>2 DEF CloseTarget, Close
  <2> QED BY <2>1, <1>0
<1>3. ASSUME RemoveTarget PROVE Local
  <2>1. /\ user' = user
        /\ \/ directory' = [directory EXCEPT ![user] = Absent]
           \/ directory' = directory
    BY <1>3 DEF RemoveTarget, Remove, RemoveArea
  <2> QED BY <2>1, <1>0
<1>4. ASSUME ExchangeFails \/ ResponseRefused \/ DiskRefuses \/ ChunkWritten
             \/ Ask
      PROVE  Local
  BY <1>4, TransferKeeps
<1>5. ASSUME Refuse \/ UNCHANGED vars PROVE UNCHANGED fileVars
  BY <1>5 DEF Refuse, vars
<1> QED BY <1>1, <1>2, <1>3, <1>4, <1>5 DEF Work

\* Whatever fails, no file is touched but the one named: not one of the same
\* name in another user area.
THEOREM OthersUntouched == DownloadSpec => OnlyTheTarget
BY Invariance, StepOnTarget, PTL DEF DownloadSpec, OnlyTheTarget
-----------------------------------------------------------------------------
(* The contents of the file: what the record buffer and the records hold   *)
(* together is the package up to offset, until a flush fails.              *)

Byte == Nat \cup {Pad}
Upto(n) == [i \in 1 .. n |-> i]

CountInv ==
  /\ offset \in 0 .. Wrap - 1 /\ total_size \in 0 .. Wrap - 1 /\ have_total \in BOOLEAN
  /\ have_total => offset <= total_size
  /\ pc = "start" => offset = 0
  /\ pc \in {"start", "fetch", "answer"} => result = "ok"
  /\ pc = "close" /\ result = "ok" => have_total /\ offset = total_size

\* A flush that failed leaves a full record in the buffer, and ends the transfer.
BufferInv ==
  /\ records \in Seq(Byte) /\ dma \in Seq(Byte) /\ failed \in BOOLEAN
  /\ Len(records) % Record = 0
  /\ open => user = target /\ directory[user] = <<>>
  /\ open /\ failed => pc = "close" /\ result # "ok" /\ Len(dma) = Record
  /\ open /\ ~failed => Len(dma) < Record /\ records \o dma = Upto(offset)

ContentInv == DownloadInv /\ CountInv /\ BufferInv /\ CompleteMeansWhole
-----------------------------------------------------------------------------
(* Records and what they are cut from.                                     *)

LEMMA Multiple ==
  ASSUME NEW n \in Nat, NEW b \in Nat \ {0}
  PROVE  (n * b) % b = 0
<1> DEFINE q == (n * b) \div b
           r == (n * b) % b
<1>1. n * b \in Nat
  OBVIOUS
<1>2. q \in Nat /\ r \in 0 .. b - 1 /\ n * b = b * q + r
  BY <1>1, Z3
<1> HIDE DEF q, r
<1>3. n * b - q * b = r
  BY <1>2
<1>4. (n - q) * b = r
  BY <1>2, <1>3
<1>5. n - q <= 0
  <2> SUFFICES ASSUME n - q >= 1 PROVE FALSE
    BY <1>2
  <2>1. (n - q - 1) * b >= 0
    BY <1>2
  <2>2. (n - q - 1) * b = r - b
    BY <1>2, <1>4
  <2> QED BY <1>2, <2>1, <2>2
<1>6. (q - n) * b >= 0 /\ (q - n) * b = - r
  BY <1>2, <1>4, <1>5
<1>7. r = 0
  BY <1>2, <1>6
<1> QED BY <1>7 DEF r

LEMMA WholeRecords ==
  ASSUME NEW a \in Nat, a % Record = 0, NEW n \in Nat
  PROVE  (a + n * Record) % Record = 0
<1> DEFINE q == a \div Record
<1>1. q \in Nat /\ a = Record * q + (a % Record)
  BY RecordAssumption, Z3
<1> HIDE DEF q
<1>2. a + n * Record = (q + n) * Record
  BY <1>1, RecordAssumption
<1>3. q + n \in Nat
  BY <1>1
<1> QED BY <1>2, <1>3, Multiple, RecordAssumption

LEMMA RecordsOf ==
  ASSUME NEW s \in Seq(Byte)
  PROVE  /\ Len(s) \div Record \in Nat
         /\ Len(s) - (Len(s) \div Record) * Record \in 0 .. Record - 1
         /\ \A n \in 0 .. Len(s) \div Record : n * Record \in 0 .. Len(s)
<1> DEFINE q == Len(s) \div Record
<1>1. q \in Nat /\ Len(s) % Record \in 0 .. Record - 1 /\ Len(s) = Record * q + (Len(s) % Record)
  BY RecordAssumption, Z3
<1> HIDE DEF q
<1>2. ASSUME NEW n \in 0 .. q PROVE n * Record \in 0 .. Len(s)
  <2>1. n * Record \in Nat /\ (q - n) * Record \in Nat
    BY <1>1, RecordAssumption
  <2>2. (q - n) * Record = Record * q - n * Record
    BY <1>1, RecordAssumption
  <2> QED BY <1>1, <2>1, <2>2, RecordAssumption
<1>3. Len(s) - q * Record \in 0 .. Record - 1
  BY <1>1, RecordAssumption
<1> QED BY <1>1, <1>2, <1>3 DEF q

\* Cut anywhere, the two parts are the whole.
LEMMA CutInTwo ==
  ASSUME NEW s \in Seq(Byte), NEW k \in 0 .. Len(s)
  PROVE  /\ SubSeq(s, 1, k) \in Seq(Byte) /\ Len(SubSeq(s, 1, k)) = k
         /\ SubSeq(s, k + 1, Len(s)) \in Seq(Byte) /\ Len(SubSeq(s, k + 1, Len(s))) = Len(s) - k
         /\ SubSeq(s, 1, k) \o SubSeq(s, k + 1, Len(s)) = s
<1>0. Len(s) \in Nat /\ 1 \in 1 .. Len(s) + 1 /\ k \in 1 - 1 .. Len(s) /\ Len(s) \in k .. Len(s)
  OBVIOUS
<1>1. SubSeq(s, 1, k) \o SubSeq(s, k + 1, Len(s)) = SubSeq(s, 1, Len(s))
  BY <1>0, ConcatAdjacentSubSeq
<1>2. SubSeq(s, 1, Len(s)) = s
  BY SubSeqFull
<1>3. SubSeq(s, 1, k) \in Seq(Byte) /\ Len(SubSeq(s, 1, k)) = k
  BY <1>0
<1>4. /\ SubSeq(s, k + 1, Len(s)) \in Seq(Byte)
      /\ Len(SubSeq(s, k + 1, Len(s))) = Len(s) - k
  BY <1>0, SubSeqProperties
<1> QED BY <1>1, <1>2, <1>3, <1>4

LEMMA Joined ==
  ASSUME NEW a \in Seq(Byte), NEW b \in Seq(Byte)
  PROVE  a \o b \in Seq(Byte) /\ Len(a \o b) = Len(a) + Len(b)
BY ConcatProperties

LEMMA Associative ==
  ASSUME NEW a \in Seq(Byte), NEW b \in Seq(Byte), NEW c \in Seq(Byte)
  PROVE  (a \o b) \o c = a \o (b \o c)
BY ConcatAssociative

\* The records flushed and the rest kept in the buffer are what was there before.
LEMMA FlushKeeps ==
  ASSUME NEW s \in Seq(Byte)
  PROVE  LET n == Len(s) \div Record
         IN  /\ n \in Nat
             /\ First(s, n) \in Seq(Byte) /\ Len(First(s, n)) = n * Record
             /\ Kept(s) \in Seq(Byte) /\ Len(Kept(s)) < Record
             /\ First(s, n) \o Kept(s) = s
<1> DEFINE n == Len(s) \div Record
<1>1. n \in Nat /\ Len(s) - n * Record \in 0 .. Record - 1 /\ n * Record \in 0 .. Len(s)
  BY RecordsOf
<1> HIDE DEF n
<1>2. /\ First(s, n) \in Seq(Byte) /\ Len(First(s, n)) = n * Record
      /\ Rest(s, n) \in Seq(Byte) /\ Len(Rest(s, n)) = Len(s) - n * Record
      /\ First(s, n) \o Rest(s, n) = s
  BY <1>1, CutInTwo DEF First, Rest
<1> QED BY <1>1, <1>2, RecordAssumption DEF Kept, n

\* When a flush fails, what was flushed and the record it failed on are a beginning
\* of what was there before, longer than one record.
LEMMA FailedFlushKeeps ==
  ASSUME NEW s \in Seq(Byte), NEW n \in 1 .. Len(s) \div Record
  PROVE  /\ First(s, n - 1) \in Seq(Byte) /\ Len(First(s, n - 1)) = (n - 1) * Record
         /\ Nth(s, n) \in Seq(Byte) /\ Len(Nth(s, n)) = Record
         /\ First(s, n - 1) \o Nth(s, n) = SubSeq(s, 1, n * Record)
         /\ n * Record \in Record .. Len(s)
<1>1. n - 1 \in 0 .. Len(s) \div Record /\ n \in 0 .. Len(s) \div Record /\ n - 1 \in Nat
  BY RecordsOf
<1>2. (n - 1) * Record \in 0 .. Len(s) /\ n * Record \in 0 .. Len(s)
  BY <1>1, RecordsOf
<1>3. n * Record = (n - 1) * Record + Record
  BY <1>1, RecordAssumption
<1>4. /\ First(s, n - 1) \in Seq(Byte) /\ Len(First(s, n - 1)) = (n - 1) * Record
  BY <1>2, CutInTwo DEF First
<1>5. Nth(s, n) \in Seq(Byte) /\ Len(Nth(s, n)) = Record
  BY <1>2, <1>3, RecordAssumption, SubSeqProperties DEF Nth
<1>6. SubSeq(s, 1, (n - 1) * Record) \o SubSeq(s, (n - 1) * Record + 1, n * Record)
        = SubSeq(s, 1, n * Record)
  BY <1>2, <1>3, RecordAssumption, ConcatAdjacentSubSeq
<1> QED BY <1>2, <1>3, <1>4, <1>5, <1>6, RecordAssumption DEF First, Nth
-----------------------------------------------------------------------------
(* Every step keeps the contents in order.                                 *)

LEMMA UptoGrows ==
  /\ Upto(0) = <<>>
  /\ \A n \in Nat : Upto(n) \in Seq(Byte) /\ Len(Upto(n)) = n
  /\ \A n \in Nat, c \in Responses :
       c.offset = n => /\ Data(c) \in Seq(Byte)
                       /\ Len(Data(c)) = c.size
                       /\ Upto(n) \o Data(c) = Upto(n + c.size)
<1>1. ASSUME NEW n \in Nat PROVE Upto(n) \in Seq(Byte) /\ Len(Upto(n)) = n
  BY DEF Upto, Byte
<1>2. Upto(0) = <<>>
  BY <1>1
<1>3. ASSUME NEW n \in Nat, NEW c \in Responses, c.offset = n
      PROVE  /\ Data(c) \in Seq(Byte) /\ Len(Data(c)) = c.size
             /\ Upto(n) \o Data(c) = Upto(n + c.size)
  <2>1. c.size \in Nat
    BY BlockAssumption DEF Responses
  <2>2. Data(c) \in Seq(Byte) /\ Len(Data(c)) = c.size
    BY <1>3, <2>1 DEF Data, Byte
  <2>3. Upto(n) \in Seq(Byte) /\ Upto(n + c.size) \in Seq(Byte)
        /\ Len(Upto(n)) = n /\ Len(Upto(n + c.size)) = n + c.size
    BY <1>1, <2>1
  <2>4. Upto(n) \o Data(c) \in Seq(Byte) /\ Len(Upto(n) \o Data(c)) = n + c.size
    BY <2>1, <2>2, <2>3
  <2>5. ASSUME NEW i \in 1 .. n + c.size
        PROVE  (Upto(n) \o Data(c))[i] = Upto(n + c.size)[i]
    BY <1>3, <2>1, <2>2, <2>3 DEF Upto, Data
  <2> QED BY <2>2, <2>3, <2>4, <2>5, SeqEqual
<1> QED BY <1>1, <1>2, <1>3

\* A chunk that is taken goes on where the last one ended, and does not wrap.
LEMMA ValidChunk ==
  ASSUME CountInv, pc = "answer", NEW c \in Responses, Valid(c)
  PROVE  /\ c.offset = offset /\ c.size \in Nat /\ c.total_size \in 0 .. Wrap - 1
         /\ offset + c.size <= c.total_size
         /\ (offset + c.size) % Wrap = offset + c.size
<1>1. c.offset = offset /\ c.size \in Nat /\ c.total_size \in 0 .. Wrap - 1
      /\ offset + c.size <= c.total_size /\ offset \in Nat
  BY BlockAssumption DEF CountInv, Valid, InPlace, Fits, Responses
<1>2. ASSUME NEW a \in Nat, NEW w \in Nat \ {0}, a < w PROVE a % w = a
  BY <1>2, Z3
<1> QED BY <1>1, <1>2, WrapAssumption

LEMMA ContentBegins == DownloadInit => ContentInv
<1> SUFFICES ASSUME DownloadInit PROVE ContentInv
  OBVIOUS
<1>1. CountInv
  <2>1. /\ offset = 0 /\ total_size = 0 /\ have_total = FALSE /\ result = "ok" /\ pc = "start"
    BY DEF DownloadInit
  <2>2. 0 \in 0 .. Wrap - 1
    BY WrapAssumption
  <2> QED BY <2>1, <2>2 DEF CountInv
<1>2. 0 % Record = 0
  BY RecordAssumption, Multiple, 0 \in Nat, 0 * Record = 0
<1>3. BufferInv /\ CompleteMeansWhole
  <2>1. /\ open = FALSE /\ dma = <<>> /\ records = <<>> /\ failed = FALSE
        /\ reported = "nothing"
    BY DEF DownloadInit, Init
  <2>2. <<>> \in Seq(Byte) /\ Len(<<>>) = 0
    OBVIOUS
  <2>3. failed \in BOOLEAN
    BY <2>1
  <2> QED BY <1>2, <2>1, <2>2, <2>3 DEF BufferInv, CompleteMeansWhole
<1> QED BY <1>1, <1>3, DownloadInitOK DEF ContentInv

LEMMA CreateKeepsContents ==
  ASSUME ContentInv, CreateTarget PROVE CountInv' /\ BufferInv' /\ CompleteMeansWhole'
<1>1. PICK deleted, made \in BOOLEAN :
        /\ dma' = <<>> /\ records' = <<>> /\ failed' = FALSE
        /\ user' = target /\ open' = made
        /\ directory' = [directory EXCEPT ![target] =
                           IF made THEN <<>> ELSE IF deleted THEN Absent ELSE directory[target]]
  BY DEF CreateTarget, Create
<1>2. /\ pc = "start" /\ pc' = (IF open' THEN "fetch" ELSE "done")
      /\ reported' # "complete"
      /\ UNCHANGED <<offset, total_size, have_total, result, target, kept>>
  BY DEF CreateTarget
<1>3. target \in Users /\ DOMAIN directory = Users
  BY DEF ContentInv, DownloadInv, AreaInv, DirInv
<1>4. open' => directory'[target] = <<>>
  BY <1>1, <1>3
<1>5. offset = 0 /\ result = "ok"
  BY <1>2 DEF ContentInv, CountInv
<1>6. CountInv'
  BY <1>2, <1>5 DEF CountInv, ContentInv
<1>7. BufferInv'
  <2>1. <<>> \in Seq(Byte) /\ Len(<<>>) = 0 /\ 0 % Record = 0 /\ 0 < Record
    BY RecordAssumption, Multiple, 0 * Record = 0
  <2>2. <<>> \o <<>> = Upto(0)
    BY UptoGrows
  <2>3. failed' \in BOOLEAN /\ ~failed'
    BY <1>1
  <2> QED BY <1>1, <1>2, <1>4, <1>5, <2>1, <2>2, <2>3 DEF BufferInv
<1> QED BY <1>2, <1>6, <1>7 DEF CompleteMeansWhole

\* What a step that writes nothing leaves as it was.
LEMMA NothingWritten ==
  ASSUME ContentInv, Refuse \/ Ask \/ ExchangeFails \/ ResponseRefused
  PROVE  CountInv' /\ BufferInv' /\ CompleteMeansWhole'
<1>1. /\ UNCHANGED fileVars /\ UNCHANGED <<offset, total_size, have_total, target>>
      /\ pc' \in {"answer", "close", "done"}
      /\ pc' = "answer" => pc = "fetch" /\ result' = result
      /\ pc' = "close" => result' \in {"server", "protocol"}
      /\ pc' = "done" => ~open
      /\ reported' = reported \/ reported' = "refused"
      /\ pc' = "close" => ~failed \/ ~open
  <2>1. CASE Refuse
    BY <2>1 DEF Refuse, ContentInv, DownloadInv, AreaInv, Started
  <2>2. CASE Ask
    BY <2>2 DEF Ask
  <2>3. CASE ExchangeFails
    BY <2>3 DEF ExchangeFails, Stop, ContentInv, BufferInv
  <2>4. CASE ResponseRefused
    BY <2>4 DEF ResponseRefused, Stop, ContentInv, BufferInv
  <2> QED BY <2>1, <2>2, <2>3, <2>4
<1>2. CountInv'
  BY <1>1 DEF ContentInv, CountInv
<1>3. BufferInv'
  BY <1>1 DEF ContentInv, BufferInv, fileVars
<1>4. CompleteMeansWhole'
  BY <1>1 DEF ContentInv, CompleteMeansWhole, fileVars
<1> QED BY <1>2, <1>3, <1>4

\* The buffer and the bytes of a chunk, while no flush has failed.
LEMMA Buffered ==
  ASSUME ContentInv, pc = "answer", NEW c \in Responses, Valid(c)
  PROVE  /\ open /\ ~failed /\ user = target /\ directory[user] = <<>>
         /\ records \in Seq(Byte) /\ dma \in Seq(Byte) /\ Len(dma) < Record
         /\ Data(c) \in Seq(Byte) /\ dma \o Data(c) \in Seq(Byte)
         /\ (records \o dma) \o Data(c) = Upto(offset + c.size)
<1>1. open /\ ~failed
  BY DEF ContentInv, DownloadInv, AreaInv, BufferInv, Started
<1>2. /\ records \in Seq(Byte) /\ dma \in Seq(Byte) /\ Len(dma) < Record
      /\ user = target /\ directory[user] = <<>>
      /\ records \o dma = Upto(offset) /\ offset \in Nat
  BY <1>1, WrapAssumption DEF ContentInv, BufferInv, CountInv
<1>3. c.offset = offset
  BY ValidChunk DEF ContentInv
<1>4. Data(c) \in Seq(Byte) /\ Upto(offset) \o Data(c) = Upto(offset + c.size)
  BY <1>2, <1>3, UptoGrows
<1> QED BY <1>1, <1>2, <1>4

LEMMA ChunkKeepsContents ==
  ASSUME ContentInv, ChunkWritten PROVE CountInv' /\ BufferInv' /\ CompleteMeansWhole'
<1>1. PICK c \in Responses :
        /\ Valid(c) /\ WriteAll(Data(c))
        /\ total_size' = c.total_size /\ have_total' = TRUE
        /\ offset' = (offset + c.size) % Wrap
        /\ pc' = IF offset' = total_size' THEN "close" ELSE "fetch"
  BY DEF ChunkWritten
<1>2. pc = "answer" /\ UNCHANGED <<result, target, kept, reported>>
  BY DEF ChunkWritten
<1>3. /\ c.size \in Nat /\ c.total_size \in 0 .. Wrap - 1
      /\ offset + c.size <= c.total_size /\ offset' = offset + c.size
  BY <1>1, <1>2, ValidChunk DEF ContentInv
<1>4. offset \in Nat /\ result = "ok"
  BY <1>2, WrapAssumption DEF ContentInv, CountInv
<1>5. CountInv'
  BY <1>1, <1>2, <1>3, <1>4, WrapAssumption DEF CountInv
<1> DEFINE all == dma \o Data(c)
           n == Len(all) \div Record
<1>6. /\ open /\ ~failed /\ user = target /\ directory[user] = <<>>
      /\ records \in Seq(Byte) /\ dma \in Seq(Byte)
      /\ Data(c) \in Seq(Byte) /\ all \in Seq(Byte)
      /\ (records \o dma) \o Data(c) = Upto(offset + c.size)
  BY <1>1, <1>2, Buffered
<1>7. /\ records' = records \o First(all, n) /\ dma' = Kept(all)
      /\ UNCHANGED <<open, user, failed, directory>>
  BY <1>1 DEF WriteAll
<1>8. /\ n \in Nat /\ First(all, n) \in Seq(Byte) /\ Len(First(all, n)) = n * Record
      /\ Kept(all) \in Seq(Byte) /\ Len(Kept(all)) < Record
      /\ First(all, n) \o Kept(all) = all
  BY <1>6, FlushKeeps
<1>9. records \o all = Upto(offset + c.size)
  BY <1>6, Associative
<1> HIDE DEF all, n
<1>10. records' \o dma' = Upto(offset')
  <2>1. (records \o First(all, n)) \o Kept(all) = records \o (First(all, n) \o Kept(all))
    BY <1>6, <1>8, Associative
  <2> QED BY <1>3, <1>7, <1>8, <1>9, <2>1
<1>11. Len(records') % Record = 0 /\ records' \in Seq(Byte)
  <2>1. Len(records') = Len(records) + n * Record /\ records' \in Seq(Byte)
    <3>1. /\ records \o First(all, n) \in Seq(Byte)
          /\ Len(records \o First(all, n)) = Len(records) + Len(First(all, n))
      BY <1>6, <1>8, Joined, Zenon
    <3> QED BY <1>7, <1>8, <3>1, Zenon
  <2>2. Len(records) \in Nat /\ Len(records) % Record = 0
    BY <1>6 DEF ContentInv, BufferInv
  <2> QED BY <1>8, <2>1, <2>2, WholeRecords
<1>12. BufferInv'
  BY <1>2, <1>6, <1>7, <1>8, <1>10, <1>11 DEF ContentInv, BufferInv
<1>13. CompleteMeansWhole'
  <2>1. reported # "complete"
    BY <1>2 DEF ContentInv, DownloadInv, DirInv
  <2> QED BY <1>2, <2>1 DEF CompleteMeansWhole
<1> QED BY <1>5, <1>12, <1>13

LEMMA FailedWriteKeepsContents ==
  ASSUME ContentInv, DiskRefuses PROVE CountInv' /\ BufferInv' /\ CompleteMeansWhole'
<1>1. PICK c \in Responses : Valid(c) /\ WriteFails(Data(c))
  BY DEF DiskRefuses
<1>2. /\ pc = "answer" /\ pc' = "close" /\ result' = "write"
      /\ UNCHANGED <<total_size, have_total, offset, target, kept, reported>>
  BY DEF DiskRefuses, Stop
<1> DEFINE all == dma \o Data(c)
<1>3. /\ open /\ user = target /\ directory[user] = <<>>
      /\ records \in Seq(Byte) /\ all \in Seq(Byte)
  BY <1>1, <1>2, Buffered
<1>4. PICK n \in 1 .. Len(all) \div Record :
        /\ records' = records \o First(all, n - 1) /\ dma' = Nth(all, n)
        /\ failed' = TRUE /\ UNCHANGED <<open, user, directory>>
  BY <1>1 DEF WriteFails
<1>5. /\ First(all, n - 1) \in Seq(Byte) /\ Len(First(all, n - 1)) = (n - 1) * Record
      /\ Nth(all, n) \in Seq(Byte) /\ Len(Nth(all, n)) = Record
  BY <1>3, FailedFlushKeeps
<1>6. n - 1 \in Nat
  BY <1>3, RecordsOf
<1> HIDE DEF all
<1>7. Len(records') % Record = 0 /\ records' \in Seq(Byte)
  <2>1. Len(records') = Len(records) + (n - 1) * Record /\ records' \in Seq(Byte)
    BY <1>3, <1>4, <1>5, Joined
  <2>2. Len(records) \in Nat /\ Len(records) % Record = 0
    BY <1>3 DEF ContentInv, BufferInv
  <2> QED BY <1>6, <2>1, <2>2, WholeRecords
<1>8. failed' \in BOOLEAN /\ failed'
  BY <1>4
<1>9. BufferInv'
  BY <1>2, <1>3, <1>4, <1>5, <1>7, <1>8 DEF BufferInv
<1>10. CountInv'
  BY <1>2 DEF ContentInv, CountInv
<1>11. reported # "complete"
  BY <1>2 DEF ContentInv, DownloadInv, DirInv
<1> QED BY <1>2, <1>9, <1>10, <1>11 DEF CompleteMeansWhole

\* Closing fills up the last record, and only that.
LEMMA LastFills ==
  ASSUME records \in Seq(Byte), dma \in Seq(Byte), Len(dma) <= Record,
         Len(records) % Record = 0
  PROVE  /\ records \o LastRecord \in Seq(Byte)
         /\ Len(records \o LastRecord) % Record = 0
         /\ Bytes!Filled(records \o dma, records \o LastRecord)
         /\ Len(dma) = Record => LastRecord = dma
<1>0. Len(records) \in Nat /\ Len(dma) \in Nat /\ Record \in Nat \ {0}
  BY RecordAssumption
<1>1. CASE dma = <<>>
  <2>1. LastRecord = <<>> /\ Len(dma) = 0
    BY <1>1 DEF LastRecord
  <2>2. records \o dma = records /\ records \o LastRecord = records
    BY <1>1, <2>1
  <2>3. SubSeq(records, 1, Len(records)) = records
    BY SubSeqFull
  <2>4. Bytes!Filled(records, records)
    BY <1>0, <2>3 DEF Bytes!Filled
  <2> QED BY <1>0, <2>1, <2>2, <2>4
<1>2. CASE dma # <<>>
  <2> DEFINE last == [i \in 1 .. Record |-> IF i <= Len(dma) THEN dma[i] ELSE Pad]
             s == records \o dma
             t == records \o last
  <2>1. LastRecord = last
    BY <1>2 DEF LastRecord
  <2>2. last \in Seq(Byte) /\ Len(last) = Record /\ Len(dma) # 0
    BY <1>0, <1>2 DEF Byte
  <2>3. \A i \in 1 .. Record : last[i] = IF i <= Len(dma) THEN dma[i] ELSE Pad
    OBVIOUS
  <2> HIDE DEF last
  <2>4. s \in Seq(Byte) /\ t \in Seq(Byte)
        /\ Len(s) = Len(records) + Len(dma) /\ Len(t) = Len(records) + Record
    BY <2>2, Joined
  <2>5. Len(t) % Record = 0
    <3>1. (Len(records) + 1 * Record) % Record = 0
      BY <1>0, WholeRecords, 1 \in Nat
    <3> QED BY <1>0, <2>4, <3>1
  <2>6. \A i \in 1 .. Len(s) : t[i] = s[i]
    BY <1>0, <2>2, <2>3, <2>4
  <2>7. \A i \in Len(s) + 1 .. Len(t) : t[i] = Pad
    BY <1>0, <2>2, <2>3, <2>4
  <2>8. SubSeq(t, 1, Len(s)) = s
    <3>1. SubSeq(t, 1, Len(s)) \in Seq(Byte) /\ Len(SubSeq(t, 1, Len(s))) = Len(s)
          /\ \A i \in 1 .. Len(s) : SubSeq(t, 1, Len(s))[i] = t[i]
      BY <1>0, <2>4
    <3> QED BY <2>4, <2>6, <3>1, SeqEqual
  <2>9. Len(dma) = Record => last = dma
    BY <1>0, <2>2, <2>3, SeqEqual
  <2>10. Len(t) < Len(s) + Record /\ Len(t) >= Len(s)
    BY <1>0, <2>2, <2>4
  <2> HIDE DEF s, t
  <2>11. Bytes!Filled(s, t)
    BY <2>5, <2>7, <2>8, <2>10 DEF Bytes!Filled
  <2> QED BY <2>1, <2>4, <2>5, <2>9, <2>11 DEF s, t
<1> QED BY <1>1, <1>2

\* What is open and what is buffered when the file is closed.
LEMMA Closing ==
  ASSUME ContentInv, pc = "close"
  PROVE  /\ open /\ user = target /\ directory[user] = <<>> /\ user \in Users
         /\ DOMAIN directory = Users
         /\ records \in Seq(Byte) /\ dma \in Seq(Byte) /\ Len(dma) <= Record
         /\ Len(records) % Record = 0
         /\ failed \in BOOLEAN
         /\ failed => Len(dma) = Record /\ result # "ok"
<1>1. open /\ user \in Users /\ DOMAIN directory = Users
  BY DEF ContentInv, DownloadInv, AreaInv, DirInv, Started
<1> QED BY <1>1, RecordAssumption DEF ContentInv, BufferInv

LEMMA CloseKeepsContents ==
  ASSUME ContentInv, CloseTarget PROVE CountInv' /\ BufferInv' /\ CompleteMeansWhole'
<1>1. PICK flushed, closed \in BOOLEAN :
        /\ Close(flushed, closed)
        /\ result' = IF (dma # <<>> => flushed) /\ closed THEN result ELSE "write"
  BY DEF CloseTarget, CloseResult
<1>2. /\ pc = "close" /\ UNCHANGED <<offset, total_size, have_total, target, kept>>
      /\ pc' = IF result' = "ok" THEN "done" ELSE "remove"
      /\ reported' = IF result' = "ok" THEN "complete" ELSE reported
  BY DEF CloseTarget, Settled
<1>3. /\ records' = IF flushed THEN records \o LastRecord ELSE records
      /\ dma' = IF flushed THEN <<>> ELSE dma
      /\ directory' = [directory EXCEPT ![user] = IF closed THEN records' ELSE @]
      /\ failed' = (failed \/ (dma # <<>> /\ ~flushed) \/ ~closed)
      /\ open' = FALSE /\ user' = user
  BY <1>1 DEF Close
<1>4. /\ user = target /\ user \in Users /\ DOMAIN directory = Users /\ open
      /\ records \in Seq(Byte) /\ dma \in Seq(Byte) /\ Len(dma) <= Record
      /\ Len(records) % Record = 0
      /\ failed => result # "ok"
  BY <1>2, Closing
<1>5. /\ records \o LastRecord \in Seq(Byte) /\ Len(records \o LastRecord) % Record = 0
      /\ Bytes!Filled(records \o dma, records \o LastRecord)
  BY <1>4, LastFills
<1>6. CountInv'
  BY <1>2 DEF ContentInv, CountInv
<1>7. BufferInv'
  <2>1. failed' \in BOOLEAN /\ ~open'
    BY <1>3
  <2>2. records' \in Seq(Byte) /\ dma' \in Seq(Byte) /\ Len(records') % Record = 0
    BY <1>3, <1>4, <1>5
  <2> QED BY <2>1, <2>2 DEF BufferInv
<1>8. CompleteMeansWhole'
  <2> SUFFICES ASSUME reported' = "complete"
               PROVE  have_total' /\ Bytes!Filled(Upto(total_size'), directory'[target'])
    BY DEF CompleteMeansWhole, Upto, Bytes!Filled
  <2>1. result' = "ok"
    BY <1>2 DEF ContentInv, DownloadInv, DirInv
  <2>2. result = "ok" /\ (dma # <<>> => flushed) /\ closed
    BY <1>1, <2>1
  <2>3. have_total /\ offset = total_size /\ ~failed
    BY <1>2, <1>4, <2>2 DEF ContentInv, CountInv
  <2>4. records \o dma = Upto(total_size)
    BY <1>4, <2>3 DEF ContentInv, BufferInv
  <2>5. records' = records \o LastRecord
    <3>1. CASE flushed
      BY <1>3, <3>1
    <3>2. CASE ~flushed
      <4>1. LastRecord = <<>>
        BY <2>2, <3>2 DEF LastRecord
      <4> QED BY <1>3, <1>4, <3>2, <4>1
    <3> QED BY <3>1, <3>2
  <2>6. directory'[target'] = records \o LastRecord
    BY <1>2, <1>3, <1>4, <2>2, <2>5
  <2> QED BY <1>2, <1>5, <2>3, <2>4, <2>6
<1> QED BY <1>6, <1>7, <1>8

LEMMA RemoveKeepsContents ==
  ASSUME ContentInv, RemoveTarget PROVE CountInv' /\ BufferInv' /\ CompleteMeansWhole'
<1>1. /\ pc = "remove" /\ pc' = "done" /\ reported' = "partial file removed"
      /\ UNCHANGED <<offset, total_size, have_total, result, target, open, user, dma,
                     records, failed>>
  BY DEF RemoveTarget, Remove
<1>2. ~open
  BY <1>1 DEF ContentInv, DownloadInv, AreaInv, Started
<1> QED BY <1>1, <1>2 DEF ContentInv, CountInv, BufferInv, CompleteMeansWhole

LEMMA ContentKept == ASSUME ContentInv, [Work]_vars PROVE ContentInv'
<1>1. DownloadInv'
  BY DownloadStepOK DEF ContentInv
<1>2. CASE UNCHANGED vars
  <2>1. CountInv' /\ BufferInv' /\ CompleteMeansWhole'
    BY <1>2 DEF vars, fileVars, callVars, ContentInv, CountInv, BufferInv,
                CompleteMeansWhole
  <2> QED BY <1>1, <2>1 DEF ContentInv
<1>3. CASE Work
  BY <1>1, <1>3, NothingWritten, CreateKeepsContents, ChunkKeepsContents,
     FailedWriteKeepsContents, CloseKeepsContents, RemoveKeepsContents DEF Work, ContentInv
<1> QED BY <1>2, <1>3

LEMMA ContentsInvariant == DownloadSpec => []ContentInv
BY ContentBegins, ContentKept, PTL DEF DownloadSpec

\* Whatever the server answers, in whatever chunks, and wherever a flush fails, the
\* file so far is the package so far.
THEOREM InOrder == DownloadSpec => []WrittenInOrder
<1>1. ContentInv => WrittenInOrder
  BY DEF ContentInv, DownloadInv, AreaInv, BufferInv, WrittenInOrder, Started, Upto
<1> QED BY <1>1, ContentsInvariant, PTL

\* A transfer is reported complete only when the directory holds the whole package.
THEOREM CompleteIsWhole == DownloadSpec => []CompleteMeansWhole
<1>1. ContentInv => CompleteMeansWhole
  BY DEF ContentInv
<1> QED BY <1>1, ContentsInvariant, PTL
-----------------------------------------------------------------------------
(* The file implements ByteFile: what the caller sees of it is what was    *)
(* written, however much of it is still in the buffer.                     *)

Content == IF Made THEN records \o dma ELSE <<>>
Phase == IF ~Made THEN "none" ELSE IF failed THEN "broken"
         ELSE IF open THEN "open" ELSE "closed"
Blocks == {Data(c) : c \in Responses}
ByteStep == Bytes!Next(Blocks) \/ (Content' = Content /\ Phase' = Phase)

\* A file that holds bytes is one of ours.
LEMMA HoldsBytes == \A s \in Seq(Byte) : s \notin {Absent, Old}
BY NamesAssumption DEF Byte

LEMMA NothingYet == ASSUME ContentInv, pc = "start" PROVE ~Made
BY DEF ContentInv, DownloadInv, AreaInv, DirInv, Made

LEMMA CreateBytes == ASSUME ContentInv, CreateTarget PROVE ByteStep
<1>1. PICK deleted, made \in BOOLEAN :
        /\ dma' = <<>> /\ records' = <<>> /\ failed' = FALSE
        /\ user' = target /\ open' = made
        /\ directory' = [directory EXCEPT ![target] =
                           IF made THEN <<>> ELSE IF deleted THEN Absent ELSE directory[target]]
  BY DEF CreateTarget, Create
<1>2. pc = "start" /\ target \in Users /\ DOMAIN directory = Users
      /\ directory[target] \in {Absent, Old}
  BY DEF CreateTarget, ContentInv, DownloadInv, AreaInv, DirInv
<1>3. ~Made
  BY <1>2, NothingYet
<1>4. CASE made
  <2>1. directory'[user'] = <<>>
    BY <1>1, <1>2, <1>4
  <2>2. Made'
    BY <2>1, HoldsBytes, <<>> \in Seq(Byte) DEF Made
  <2>3. records' \o dma' = <<>>
    BY <1>1
  <2>4. ~failed' /\ open'
    BY <1>1, <1>4
  <2> QED BY <1>3, <2>2, <2>3, <2>4 DEF ByteStep, Bytes!Next, Bytes!Create
<1>5. CASE ~made
  <2>1. ~Made'
    BY <1>1, <1>2, <1>5 DEF Made
  <2> QED BY <1>3, <2>1 DEF ByteStep, Content, Phase
<1> QED BY <1>1, <1>4, <1>5

LEMMA ChunkBytes == ASSUME ContentInv, ChunkWritten PROVE ByteStep
<1>1. PICK c \in Responses : Valid(c) /\ WriteAll(Data(c))
  BY DEF ChunkWritten
<1>2. pc = "answer"
  BY DEF ChunkWritten
<1> DEFINE all == dma \o Data(c)
           n == Len(all) \div Record
<1>3. /\ open /\ ~failed /\ directory[user] = <<>>
      /\ records \in Seq(Byte) /\ dma \in Seq(Byte) /\ Data(c) \in Seq(Byte)
      /\ all \in Seq(Byte)
  BY <1>1, <1>2, Buffered
<1>4. /\ records' = records \o First(all, n) /\ dma' = Kept(all)
      /\ UNCHANGED <<open, user, failed, directory>>
  BY <1>1 DEF WriteAll
<1>5. /\ First(all, n) \in Seq(Byte) /\ Kept(all) \in Seq(Byte)
      /\ First(all, n) \o Kept(all) = all
  BY <1>3, FlushKeeps
<1>6. records \o all = (records \o dma) \o Data(c)
  BY <1>3, Associative
<1> HIDE DEF all, n
<1>7. (records \o First(all, n)) \o Kept(all) = records \o (First(all, n) \o Kept(all))
  BY <1>3, <1>5, Associative
<1>8. records' \o dma' = (records \o dma) \o Data(c)
  BY <1>4, <1>5, <1>6, <1>7
<1>9. Made /\ Made'
  BY <1>3, <1>4, HoldsBytes, <<>> \in Seq(Byte) DEF Made
<1>10. Bytes!Grow(Data(c))
  BY <1>3, <1>4, <1>8, <1>9 DEF Bytes!Grow
<1> QED BY <1>10 DEF ByteStep, Bytes!Next, Blocks

\* What a failed write leaves behind begins the block it was given.
LEMMA FailedWriteBytes == ASSUME ContentInv, DiskRefuses PROVE ByteStep
<1>1. PICK c \in Responses : Valid(c) /\ WriteFails(Data(c))
  BY DEF DiskRefuses
<1>2. pc = "answer"
  BY DEF DiskRefuses
<1> DEFINE all == dma \o Data(c)
<1>3. /\ open /\ ~failed /\ directory[user] = <<>>
      /\ records \in Seq(Byte) /\ dma \in Seq(Byte) /\ Len(dma) < Record
      /\ Data(c) \in Seq(Byte) /\ all \in Seq(Byte)
  BY <1>1, <1>2, Buffered
<1>4. PICK n \in 1 .. Len(all) \div Record :
        /\ records' = records \o First(all, n - 1) /\ dma' = Nth(all, n)
        /\ failed' = TRUE /\ UNCHANGED <<open, user, directory>>
  BY <1>1 DEF WriteFails
<1>5. /\ First(all, n - 1) \in Seq(Byte) /\ Nth(all, n) \in Seq(Byte)
      /\ First(all, n - 1) \o Nth(all, n) = SubSeq(all, 1, n * Record)
      /\ n * Record \in Record .. Len(all)
  BY <1>3, FailedFlushKeeps
<1> DEFINE k == n * Record - Len(dma)
           part == SubSeq(Data(c), 1, k)
<1>6. k \in 0 .. Len(Data(c)) /\ n * Record = Len(dma) + k /\ Len(all) = Len(dma) + Len(Data(c))
  <2>1. Len(all) = Len(dma) + Len(Data(c)) /\ Len(dma) \in Nat /\ Len(Data(c)) \in Nat
    BY <1>3, Joined
  <2> QED BY <1>3, <1>5, <2>1, RecordAssumption
<1>7. SubSeq(all, 1, n * Record) = dma \o part
  <2>1. part \in Seq(Byte) /\ Len(part) = k /\ \A i \in 1 .. k : part[i] = Data(c)[i]
    BY <1>3, <1>6
  <2> HIDE DEF part
  <2>2. dma \o part \in Seq(Byte) /\ Len(dma \o part) = Len(dma) + k
    BY <1>3, <2>1, Joined
  <2>3. SubSeq(all, 1, n * Record) \in Seq(Byte)
        /\ Len(SubSeq(all, 1, n * Record)) = Len(dma) + k
    BY <1>3, <1>6, CutInTwo
  <2>4. ASSUME NEW i \in 1 .. Len(dma) + k
        PROVE  SubSeq(all, 1, n * Record)[i] = (dma \o part)[i]
    <3>1. SubSeq(all, 1, n * Record)[i] = all[i]
      BY <1>3, <1>6
    <3>2. all[i] = IF i <= Len(dma) THEN dma[i] ELSE Data(c)[i - Len(dma)]
      BY <1>3, <1>6
    <3>3. (dma \o part)[i] = IF i <= Len(dma) THEN dma[i] ELSE part[i - Len(dma)]
      BY <1>3, <1>6, <2>1
    <3>4. i <= Len(dma) \/ i - Len(dma) \in 1 .. k
      BY <1>3, <1>6
    <3> QED BY <2>1, <3>1, <3>2, <3>3, <3>4
  <2> QED BY <2>2, <2>3, <2>4, SeqEqual
<1>8. records' \o dma' = (records \o dma) \o part
  <2>1. part \in Seq(Byte)
    BY <1>3, <1>6
  <2> HIDE DEF part
  <2>2. records \o (dma \o part) = (records \o dma) \o part
    BY <1>3, <2>1, Associative
  <2> HIDE DEF all
  <2>3. (records \o First(all, n - 1)) \o Nth(all, n)
          = records \o (First(all, n - 1) \o Nth(all, n))
    BY <1>3, <1>5, Associative
  <2> QED BY <1>4, <1>5, <1>7, <2>2, <2>3
<1>9. part \in Bytes!Prefixes(Data(c))
  BY <1>6 DEF Bytes!Prefixes
<1>10. Made /\ Made'
  BY <1>3, <1>4, HoldsBytes, <<>> \in Seq(Byte) DEF Made
<1> HIDE DEF part
<1>11. Bytes!Break(Data(c))
  BY <1>3, <1>4, <1>8, <1>9, <1>10 DEF Bytes!Break
<1> QED BY <1>11 DEF ByteStep, Bytes!Next, Blocks

LEMMA CloseBytes == ASSUME ContentInv, CloseTarget PROVE ByteStep
<1>1. PICK flushed, closed \in BOOLEAN : Close(flushed, closed)
  BY DEF CloseTarget
<1>2. /\ records' = IF flushed THEN records \o LastRecord ELSE records
      /\ dma' = IF flushed THEN <<>> ELSE dma
      /\ directory' = [directory EXCEPT ![user] = IF closed THEN records' ELSE @]
      /\ failed' = (failed \/ (dma # <<>> /\ ~flushed) \/ ~closed)
      /\ open' = FALSE /\ user' = user
  BY <1>1 DEF Close
<1>3. /\ user \in Users /\ DOMAIN directory = Users /\ open /\ directory[user] = <<>>
      /\ records \in Seq(Byte) /\ dma \in Seq(Byte) /\ Len(dma) <= Record
      /\ Len(records) % Record = 0
      /\ failed \in BOOLEAN /\ (failed => Len(dma) = Record)
  BY Closing DEF CloseTarget
<1>4. /\ records \o LastRecord \in Seq(Byte)
      /\ Bytes!Filled(records \o dma, records \o LastRecord)
      /\ Len(dma) = Record => LastRecord = dma
  BY <1>3, LastFills
<1>5. Made /\ Made'
  BY <1>2, <1>3, <1>4, HoldsBytes, <<>> \in Seq(Byte) DEF Made
<1>6. records' \o dma' = IF flushed THEN records \o LastRecord ELSE records \o dma
  BY <1>2, <1>4
<1>7. CASE failed
  BY <1>2, <1>3, <1>4, <1>5, <1>6, <1>7 DEF ByteStep, Content, Phase
<1>8. CASE ~failed /\ (flushed \/ dma = <<>>)
  <2>1. LastRecord = <<>> \/ flushed
    BY <1>8 DEF LastRecord
  <2>2. records' \o dma' = records \o LastRecord
    BY <1>3, <1>6, <1>8, <2>1
  <2>3. Bytes!Close
    BY <1>2, <1>3, <1>4, <1>5, <1>8, <2>2 DEF Bytes!Close
  <2> QED BY <2>3 DEF ByteStep, Bytes!Next
<1>9. CASE ~failed /\ ~flushed /\ dma # <<>>
  <2> DEFINE c == [offset |-> 0, total_size |-> 0, size |-> 0]
  <2>1. c \in Responses
    BY WrapAssumption, BlockAssumption DEF Responses
  <2>2. Data(c) = <<>> /\ SubSeq(<<>>, 1, 0) = <<>>
    BY DEF Data
  <2>3. <<>> \in Bytes!Prefixes(Data(c))
    BY <2>2 DEF Bytes!Prefixes
  <2>4. records' \o dma' = (records \o dma) \o <<>>
    BY <1>3, <1>6, <1>9
  <2>5. Bytes!Break(Data(c))
    BY <1>2, <1>3, <1>5, <1>9, <2>3, <2>4 DEF Bytes!Break
  <2> QED BY <2>1, <2>5 DEF ByteStep, Bytes!Next, Blocks
<1> QED BY <1>7, <1>8, <1>9

LEMMA RemoveBytes == ASSUME ContentInv, RemoveTarget PROVE ByteStep
<1>1. PICK deleted \in BOOLEAN :
        directory' = IF deleted THEN [directory EXCEPT ![user] = Absent] ELSE directory
  BY DEF RemoveTarget, Remove, RemoveArea
<1>2. UNCHANGED <<open, user, dma, records, failed>>
  BY DEF RemoveTarget, Remove
<1>3. user \in Users /\ DOMAIN directory = Users
  BY DEF ContentInv, DownloadInv, AreaInv, DirInv
<1>4. CASE deleted
  <2>1. ~Made'
    BY <1>1, <1>2, <1>3, <1>4 DEF Made
  <2> QED BY <2>1 DEF ByteStep, Bytes!Next, Bytes!Discard
<1>5. CASE ~deleted
  BY <1>1, <1>2, <1>5 DEF ByteStep, Content, Phase, Made
<1> QED BY <1>4, <1>5

LEMMA BytesStep == ASSUME ContentInv, [Work]_vars PROVE ByteStep
<1>1. ASSUME UNCHANGED fileVars PROVE ByteStep
  BY <1>1 DEF fileVars, ByteStep, Content, Phase, Made
<1>2. ASSUME Refuse \/ Ask \/ ExchangeFails \/ ResponseRefused \/ UNCHANGED vars
      PROVE  UNCHANGED fileVars
  BY <1>2 DEF Refuse, Ask, ExchangeFails, ResponseRefused, vars
<1> QED BY <1>1, <1>2, CreateBytes, ChunkBytes, FailedWriteBytes, CloseBytes, RemoveBytes
           DEF Work

\* Whatever the server sends and the disk refuses, the buffered file is the one that
\* file.h describes.
THEOREM FileIsByteFile == DownloadSpec => OneByteFile
<1>1. DownloadInit => Bytes!Init
  <2> SUFFICES ASSUME DownloadInit PROVE Bytes!Init
    OBVIOUS
  <2>1. ~Made
    BY NothingYet, ContentBegins DEF DownloadInit
  <2> QED BY <2>1 DEF Bytes!Init
<1>2. ContentInv /\ [Work]_vars => [Bytes!Next(Blocks)]_(Bytes!vars)
  BY BytesStep DEF ByteStep, Content, Phase, Bytes!vars
<1> QED BY <1>1, <1>2, ContentsInvariant, PTL DEF DownloadSpec, OneByteFile, Blocks
=============================================================================
