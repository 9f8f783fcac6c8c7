------------------------- MODULE HostedClientProofs -------------------------
(***************************************************************************)
(* The hosted client: what it asks for, what it takes for a response, and  *)
(* what it makes of the pages, the metadata and the chunks that it takes.  *)
(***************************************************************************)
EXTENDS HostedClient, CommonLemmas, SequenceTheorems

Buffers == [1 .. PacketMax -> Byte]

\* What is written behind the first n bytes of the buffer follows them.
LEMMA Written ==
  ASSUME NEW b \in Buffers, NEW n \in 0 .. PacketMax, NEW s \in Seq(Byte),
         n + Len(s) <= PacketMax
  PROVE  /\ Put(b, n, s) \in Buffers /\ n + Len(s) \in 0 .. PacketMax
         /\ SubSeq(Put(b, n, s), 1, n + Len(s)) = SubSeq(b, 1, n) \o s
<1> DEFINE q == Put(b, n, s)
           k == n + Len(s)
<1>1. PacketMax \in Nat /\ Len(s) \in Nat /\ DOMAIN s = 1 .. Len(s)
  BY PacketAssumption
<1>2. q = [i \in 1 .. PacketMax |-> IF i - n \in 1 .. Len(s) THEN s[i - n] ELSE b[i]]
  BY <1>1 DEF Put
<1>3. q \in Buffers
  BY <1>1, <1>2 DEF Buffers
<1>4. k \in 0 .. PacketMax
  BY <1>1
<1>5. \A i \in 1 .. n : q[i] = b[i]
  BY <1>1, <1>2
<1>6. \A i \in n + 1 .. k : q[i] = s[i - n]
  BY <1>1, <1>2
<1>7. /\ SubSeq(q, 1, k) = [i \in 1 .. k |-> q[i]] /\ SubSeq(b, 1, n) = [i \in 1 .. n |-> b[i]]
  BY <1>1, <1>3, <1>4 DEF Buffers
<1> HIDE DEF q, k
<1>8. SubSeq(b, 1, n) \in Seq(Byte) /\ Len(SubSeq(b, 1, n)) = n
  BY <1>1, <1>7 DEF Buffers
<1>9. SubSeq(b, 1, n) \o s = [i \in 1 .. k |-> IF i <= n THEN b[i] ELSE s[i - n]]
  BY <1>1, <1>7, <1>8 DEF k
<1>10. \A i \in 1 .. k : q[i] = IF i <= n THEN b[i] ELSE s[i - n]
  BY <1>1, <1>4, <1>5, <1>6
<1>11. SubSeq(q, 1, k) = SubSeq(b, 1, n) \o s
  BY <1>7, <1>9, <1>10
<1> QED BY <1>3, <1>4, <1>11 DEF q, k

LEMMA NothingWritten ==
  ASSUME NEW b \in Buffers, NEW s \in Seq(Byte), Len(s) <= PacketMax
  PROVE  /\ Put(b, 0, s) \in Buffers /\ Len(s) \in 0 .. PacketMax
         /\ SubSeq(Put(b, 0, s), 1, Len(s)) = s
<1>1. 0 \in 0 .. PacketMax /\ PacketMax \in Nat /\ Len(s) \in Nat /\ 0 + Len(s) = Len(s)
  BY PacketAssumption
<1>2. SubSeq(b, 1, 0) = <<>>
  OBVIOUS
<1>3. <<>> \o s = s
  OBVIOUS
<1>4. 0 + Len(s) <= PacketMax
  BY <1>1
<1>5. /\ Put(b, 0, s) \in Buffers /\ 0 + Len(s) \in 0 .. PacketMax
      /\ SubSeq(Put(b, 0, s), 1, 0 + Len(s)) = SubSeq(b, 1, 0) \o s
  BY <1>1, <1>4, Written
<1> QED BY <1>1, <1>2, <1>3, <1>5

IsWord(v) == v \in Nat /\ v <= CursorEnd

LEMMA Word == ASSUME NEW v, IsWord(v) PROVE U16(v) \in Seq(Byte) /\ Len(U16(v)) = 2
<1>1. v % 256 \in Byte /\ v \div 256 \in Byte
  <2>1. v \in Nat /\ v <= 65535
    BY SMT DEF IsWord, CursorEnd
  <2>2. v % 256 >= 0 /\ v % 256 <= 255 /\ v \div 256 >= 0 /\ v \div 256 <= 255
    BY <2>1, Z3
  <2>3. v % 256 \in Int /\ v \div 256 \in Int
    BY <2>1, Z3
  <2> QED BY <2>2, <2>3, SMT DEF Byte
<1> QED BY <1>1 DEF U16

LongMax == 4294967295
LEMMA LongWord ==
  ASSUME NEW v \in Nat, v <= LongMax PROVE U32(v) \in Seq(Byte) /\ Len(U32(v)) = 4
<1>1. /\ v % 256 \in Byte /\ (v \div 256) % 256 \in Byte /\ (v \div 65536) % 256 \in Byte
      /\ v \div 16777216 \in Byte
  <2>1. v <= 4294967295
    BY SMT DEF LongMax
  <2>2. /\ v % 256 \in 0 .. 255 /\ (v \div 256) % 256 \in 0 .. 255
        /\ (v \div 65536) % 256 \in 0 .. 255
        /\ v \div 16777216 \in 0 .. 255
    BY <2>1, Z3
  <2> QED BY <2>2, SMT DEF Byte
<1> QED BY <1>1 DEF U32

LEMMA Sized == ASSUME NEW n \in Nat, n <= PacketMax PROVE n \in Byte
BY PacketAssumption DEF Byte

LEMMA Fields ==
  ASSUME NEW s \in Seq(Byte), Len(s) <= PacketMax
  PROVE  /\ Field(s) \in Seq(Byte) /\ Len(Field(s)) = 1 + Len(s)
         /\ Optional(s) \in Seq(Byte)
         /\ Len(Optional(s)) = IF s = <<>> THEN 0 ELSE 1 + Len(s)
<1>1. <<Len(s)>> \in Seq(Byte) /\ Len(<<Len(s)>>) = 1
  <2>1. Len(s) \in Nat
    OBVIOUS
  <2>2. Len(s) \in Byte
    BY <2>1, Sized
  <2> QED BY <2>2
<1>2. Field(s) \in Seq(Byte) /\ Len(Field(s)) = 1 + Len(s)
  BY <1>1 DEF Field
<1>3. <<>> \in Seq(Byte) /\ Len(<<>>) = 0
  OBVIOUS
<1> QED BY <1>2, <1>3 DEF Optional
-----------------------------------------------------------------------------
(* The state of a call.  Where a page or a chunk left off is where the     *)
(* next request begins.                                                    *)

Calls == {"capabilities", "catalog", "resolve", "info", "download"}
Stages == {"build", "exchange", "check", "read", "returned"}
Paged == Catalog \/ call = "info"

\* Where the last page that was accepted leaves off.
From == IF pages = <<>> THEN 0 ELSE GetU16(Last(pages), 2)

InputsOK == /\ call \in Calls /\ model \in Models
            /\ text \in Seq(Byte) /\ file \in Seq(Byte)
            /\ Catalog => Len(text) <= AnchorMax

BufferOK == /\ packet \in Buffers
            /\ requested \in 0 .. PacketMax /\ received \in 0 .. PacketMax

CursorOK ==
  /\ stage \in Stages /\ pages \in Seq(Seq(Byte))
  /\ IsWord(cursor) /\ IsWord(next_cursor)
  /\ Paged /\ stage \in {"build", "exchange", "check"} => cursor = From
  /\ Paged /\ stage = "read" => next_cursor = From

ChunkOK == /\ written \in Seq(Byte) /\ offset = Len(written) /\ offset <= LongMax

ClientInv == InputsOK /\ BufferOK /\ CursorOK /\ ChunkOK

LEMMA ClientBegins == HostedInit => ClientInv
<1> SUFFICES ASSUME HostedInit PROVE ClientInv
  OBVIOUS
<1>1. <<>> \in Seq(Byte) /\ Len(<<>>) = 0 /\ <<>> \in Seq(Seq(Byte))
  OBVIOUS
<1>2. InputsOK
  <2>1. call \in Calls /\ model \in Models
    BY DEF HostedInit, Calls
  <2>2. text \in Seq(Byte) /\ file \in Seq(Byte)
    BY <1>1, BytesAssumption DEF HostedInit
  <2>3. Catalog => Len(text) <= AnchorMax
    BY SearchAssumption DEF HostedInit, Catalog
  <2> QED BY <2>1, <2>2, <2>3 DEF InputsOK
<1>3. BufferOK
  BY PacketAssumption DEF HostedInit, BufferOK, Buffers, Byte
<1>4. CursorOK
  BY <1>1 DEF HostedInit, CursorOK, Stages, From, CursorEnd, IsWord
<1>5. ChunkOK
  BY <1>1, SMT DEF HostedInit, ChunkOK, LongMax
<1> QED BY <1>2, <1>3, <1>4, <1>5 DEF ClientInv

LEMMA WordRead ==
  ASSUME NEW a \in Byte, NEW b \in Byte
  PROVE  IsWord(a + 256 * b)
BY SMT DEF Byte, CursorEnd, IsWord

LEMMA LongWordRead ==
  ASSUME NEW a, NEW b, IsWord(a), IsWord(b)
  PROVE  a + 65536 * b \in Nat /\ a + 65536 * b <= LongMax
BY SMT DEF IsWord, CursorEnd, LongMax

LEMMA Numbers ==
  ASSUME NEW b \in Buffers
  PROVE  /\ \A i \in 1 .. PacketMax : b[i] \in Byte
         /\ IsWord(GetU16(b, 2))
         /\ GetU32(b, 2) \in Nat /\ GetU32(b, 2) <= LongMax
         /\ GetU32(b, 6) \in Nat /\ GetU32(b, 6) <= LongMax
<1>1. \A i \in 1 .. 11 : b[i] \in Byte
  BY PacketAssumption DEF Buffers
<1>2. /\ IsWord(GetU16(b, 2)) /\ IsWord(GetU16(b, 4))
      /\ IsWord(GetU16(b, 6)) /\ IsWord(GetU16(b, 8))
  BY <1>1, WordRead DEF GetU16
<1>3. GetU32(b, 2) = GetU16(b, 2) + 65536 * GetU16(b, 4)
  BY DEF GetU32
<1>4. GetU32(b, 6) = GetU16(b, 6) + 65536 * GetU16(b, 8)
  BY DEF GetU32
<1>5. \A i \in 1 .. PacketMax : b[i] \in Byte
  BY DEF Buffers
<1> QED BY <1>2, <1>3, <1>4, <1>5, LongWordRead

\* A page that answers has a header.
LEMMA HasHeader ==
  ASSUME ClientInv, Answers, packet[2] = 0, Paged
  PROVE  received \in 5 .. PacketMax
<1>1. Operation \in {OpList, OpSearch, OpInfo} /\ packet[1] = ResponseBit + Operation
  BY DEF Operation, Paged, Catalog, Answers
<1>2. Size(packet, received) = received /\ received >= 2 /\ received \in 0 .. PacketMax
  BY DEF Answers, Whole, ClientInv, BufferOK
<1>3. /\ packet[1] \in {129, 130, 131} /\ packet[1] - ResponseBit \in {OpList, OpSearch, OpInfo}
  BY <1>1 DEF OpList, OpSearch, OpInfo, ResponseBit
<1>4. received >= 5
  <2>1. received < 5 => Size(packet, received) = 0
    BY <1>2, <1>3 DEF Size, CatalogSize, InfoSize, More, OpList, OpSearch, OpInfo, ResponseBit,
       OpCapabilities
  <2> QED BY <1>2, <2>1, PacketAssumption
<1> QED BY <1>2, <1>4, PacketAssumption
-----------------------------------------------------------------------------
(* The requests.                                                           *)

LEMMA Joined ==
  ASSUME NEW a \in Seq(Byte), NEW b \in Seq(Byte)
  PROVE  a \o b \in Seq(Byte) /\ Len(a \o b) = Len(a) + Len(b)
BY ConcatProperties

LEMMA OptionalLength ==
  ASSUME NEW s \in Seq(Byte)
  PROVE  Len(Optional(s)) \in Nat /\ Len(s) \in Nat /\ Len(Optional(s)) >= Len(s)
<1>1. s \in Seq(Nat) /\ Len(s) \in Nat
  <2>1. Byte \subseteq Nat
    BY DEF Byte
  <2>2. s \in Seq(Nat)
    BY <2>1, SeqMonotonic
  <2> QED BY <2>2
<1>2. CASE s = <<>>
  BY <1>2 DEF Optional
<1>3. CASE s # <<>>
  <2>1. Len(<<Len(s)>> \o s) = 1 + Len(s)
    BY <1>1
  <2> QED BY <1>1, <1>3, <2>1 DEF Optional, Field
<1> QED BY <1>2, <1>3

\* build_catalog_request writes what rv_build_list or rv_build_search builds.
LEMMA CatalogBuilt ==
  ASSUME ClientInv, Catalog, BuildCatalog
  PROVE  /\ packet' \in Buffers /\ requested' \in 0 .. PacketMax
         /\ SubSeq(packet', 1, requested') =
              IF text = <<>> THEN RvList(cursor, Platform, model)
              ELSE RvSearch(cursor, Platform, text, model)
<1> DEFINE op == IF text = <<>> THEN OpList ELSE OpSearch
           A == <<op>> \o U16(cursor) \o Field(Platform)
           base == 4 + Len(Platform)
           after == base + Len(Optional(text))
           end == after + Len(Optional(model))
<1>1. /\ Operation = op /\ op \in Byte
      /\ packet' = Put(Put(Put(packet, 0, A), base, Optional(text)), after, Optional(model))
      /\ requested' = end
  BY DEF BuildCatalog, Operation, Catalog, OpList, OpSearch, Byte
<1>2. /\ Platform \in Seq(Byte) /\ text \in Seq(Byte) /\ model \in Seq(Byte)
      /\ model \in Models /\ Len(text) <= AnchorMax /\ packet \in Buffers /\ IsWord(cursor)
  BY BytesAssumption DEF ClientInv, InputsOK, BufferOK, CursorOK
<1>3. /\ PacketMax \in Nat /\ AnchorMax \in Nat
      /\ Len(Platform) \in Nat /\ Len(text) \in Nat /\ Len(Optional(model)) \in Nat
      /\ 5 + Len(Platform) + AnchorMax + Len(Optional(model)) <= PacketMax
  <2>1. /\ PacketMax \in Nat /\ AnchorMax \in Nat /\ Len(Platform) \in Nat
        /\ Len(text) \in Nat /\ Len(model) \in Nat
    BY <1>2, PacketAssumption, AnchorAssumption
  <2>2. Len(Optional(model)) \in Nat
    BY <1>2, OptionalLength
  <2> QED BY <1>2, <2>1, <2>2, AnchorAssumption
<1>4. /\ Field(Platform) \in Seq(Byte) /\ Len(Field(Platform)) = 1 + Len(Platform)
      /\ Optional(text) \in Seq(Byte)
      /\ Len(Optional(text)) = IF text = <<>> THEN 0 ELSE 1 + Len(text)
      /\ Optional(model) \in Seq(Byte)
  <2>1. Len(Platform) <= PacketMax /\ Len(text) <= PacketMax
    BY <1>2, <1>3
  <2>2. Len(model) \in Nat /\ Len(Optional(model)) >= Len(model)
    BY <1>2, OptionalLength
  <2>3. Len(model) <= PacketMax
    BY <1>3, <2>2
  <2> QED BY <1>2, <2>1, <2>3, Fields
<1>5. A \in Seq(Byte) /\ Len(A) = base
  <2>1. <<op>> \in Seq(Byte) /\ Len(<<op>>) = 1 /\ U16(cursor) \in Seq(Byte) /\ Len(U16(cursor)) = 2
    BY <1>1, <1>2, Word
  <2> HIDE DEF op
  <2>2. <<op>> \o U16(cursor) \in Seq(Byte) /\ Len(<<op>> \o U16(cursor)) = 1 + 2
    BY <2>1, Joined, Zenon
  <2> QED BY <1>3, <1>4, <2>2, Joined
<1>6. base <= PacketMax /\ after <= PacketMax /\ end <= PacketMax /\ base \in Nat /\ after \in Nat
  <2>1. Len(Optional(text)) \in Nat /\ Len(Optional(text)) <= 1 + AnchorMax
    BY <1>2, <1>3, <1>4
  <2> QED BY <1>3, <2>1
<1> HIDE DEF A, op
<1>7. /\ Put(packet, 0, A) \in Buffers /\ base \in 0 .. PacketMax
      /\ SubSeq(Put(packet, 0, A), 1, base) = A
  BY <1>2, <1>5, <1>6, NothingWritten
<1> HIDE DEF base
<1>8. /\ Put(Put(packet, 0, A), base, Optional(text)) \in Buffers
      /\ after \in 0 .. PacketMax
      /\ SubSeq(Put(Put(packet, 0, A), base, Optional(text)), 1, after) = A \o Optional(text)
  BY <1>4, <1>6, <1>7, Written
<1> HIDE DEF after
<1>9. /\ packet' \in Buffers /\ end \in 0 .. PacketMax
      /\ SubSeq(packet', 1, end) = (A \o Optional(text)) \o Optional(model)
  BY <1>1, <1>4, <1>6, <1>8, Written
<1>10. Len((A \o Optional(text)) \o Optional(model)) = end
  <2>1. A \o Optional(text) \in Seq(Byte) /\ Len(A \o Optional(text)) = after
    BY <1>4, <1>5, Joined DEF after
  <2> QED BY <1>4, <2>1, Joined
<1>11. CASE text = <<>>
  <2>1. A \o Optional(text) = A
    BY <1>5, <1>11 DEF Optional
  <2>2. RvList(cursor, Platform, model) = A \o Optional(model)
    BY <1>6, <1>10, <1>11, <2>1 DEF RvList, Built, A, op
  <2> QED BY <1>1, <1>9, <1>11, <2>1, <2>2
<1>12. CASE text # <<>>
  <2>1. RvSearch(cursor, Platform, text, model) = (A \o Optional(text)) \o Optional(model)
    BY <1>6, <1>10, <1>12 DEF RvSearch, Built, A, op, Optional
  <2> QED BY <1>1, <1>9, <1>12, <2>1
<1> QED BY <1>11, <1>12

\* build_info_request, what rv_build_info builds.
LEMMA InfoBuilt ==
  ASSUME ClientInv, BuildInfo, stage' = "exchange"
  PROVE  /\ packet' \in Buffers /\ requested' \in 0 .. PacketMax
         /\ SubSeq(packet', 1, requested') = RvInfo(cursor, text)
<1> DEFINE A == <<OpInfo>> \o U16(cursor)
<1>1. /\ text # <<>> /\ Len(text) <= PacketMax - 4
      /\ packet' = Put(Put(packet, 0, A), 3, Field(text)) /\ requested' = 4 + Len(text)
  BY DEF BuildInfo, Return
<1>2. /\ text \in Seq(Byte) /\ packet \in Buffers /\ IsWord(cursor)
      /\ Len(text) \in Nat /\ PacketMax \in 11 .. 255
  BY PacketAssumption DEF ClientInv, InputsOK, BufferOK, CursorOK
<1>3. Field(text) \in Seq(Byte) /\ Len(Field(text)) = 1 + Len(text)
  <2>1. Len(text) <= PacketMax
    BY <1>1, <1>2
  <2> QED BY <1>2, <2>1, Fields
<1>4. A \in Seq(Byte) /\ Len(A) = 3
  <2>1. <<OpInfo>> \in Seq(Byte) /\ Len(<<OpInfo>>) = 1
    BY DEF OpInfo, Byte
  <2>2. U16(cursor) \in Seq(Byte) /\ Len(U16(cursor)) = 2
    BY <1>2, Word
  <2>3. A \in Seq(Byte) /\ Len(A) = 1 + 2
    BY <2>1, <2>2, Joined, Zenon
  <2> QED BY <2>3
<1> HIDE DEF A
<1>5. Put(packet, 0, A) \in Buffers /\ SubSeq(Put(packet, 0, A), 1, 3) = A
  <2>1. Len(A) <= PacketMax
    BY <1>2, <1>4
  <2>2. Put(packet, 0, A) \in Buffers /\ SubSeq(Put(packet, 0, A), 1, Len(A)) = A
    BY <1>2, <1>4, <2>1, NothingWritten, Zenon
  <2> QED BY <1>4, <2>2
<1>6. 3 \in 0 .. PacketMax /\ 3 + Len(Field(text)) = 4 + Len(text) /\ 3 + Len(Field(text)) <= PacketMax
  BY <1>1, <1>2, <1>3
<1>7. /\ packet' \in Buffers /\ 3 + Len(Field(text)) \in 0 .. PacketMax
      /\ SubSeq(packet', 1, 3 + Len(Field(text))) = A \o Field(text)
  BY <1>1, <1>3, <1>5, <1>6, Written
<1>8. RvInfo(cursor, text) = A \o Field(text)
  <2>1. Len(A \o Field(text)) = 3 + Len(Field(text))
    BY <1>3, <1>4, Joined
  <2> QED BY <1>1, <1>6, <2>1 DEF RvInfo, Built, A
<1> QED BY <1>1, <1>6, <1>7, <1>8

\* build_download_request, what rv_build_download builds.
LEMMA DownloadBuilt ==
  ASSUME ClientInv, BuildDownload, stage' = "exchange"
  PROVE  /\ packet' \in Buffers /\ requested' \in 0 .. PacketMax
         /\ SubSeq(packet', 1, requested') = RvDownload(offset, PacketMax - 11, text, file)
<1> DEFINE A == <<OpDownload>> \o U32(offset) \o <<PacketMax - 11>>
           m == 7 + Len(text)
<1>1. /\ text # <<>> /\ file # <<>> /\ 8 + Len(text) + Len(file) <= PacketMax
      /\ packet' = Put(Put(Put(packet, 0, A), 6, Field(text)), m, Field(file))
      /\ requested' = 8 + Len(text) + Len(file)
  BY DEF BuildDownload, Return
<1>2. /\ text \in Seq(Byte) /\ file \in Seq(Byte) /\ packet \in Buffers
      /\ offset \in Nat /\ offset <= LongMax
      /\ Len(text) \in Nat /\ Len(file) \in Nat /\ PacketMax \in 11 .. 255
  BY PacketAssumption DEF ClientInv, InputsOK, BufferOK, ChunkOK
<1>3. /\ Field(text) \in Seq(Byte) /\ Len(Field(text)) = 1 + Len(text)
      /\ Field(file) \in Seq(Byte) /\ Len(Field(file)) = 1 + Len(file)
  <2>1. Len(text) <= PacketMax /\ Len(file) <= PacketMax
    BY <1>1, <1>2
  <2> QED BY <1>2, <2>1, Fields
<1>4. A \in Seq(Byte) /\ Len(A) = 6
  <2>1. <<OpDownload>> \in Seq(Byte) /\ Len(<<OpDownload>>) = 1
    BY DEF OpDownload, Byte
  <2>2. U32(offset) \in Seq(Byte) /\ Len(U32(offset)) = 4
    BY <1>2, LongWord
  <2>3. PacketMax - 11 \in Byte
    BY <1>2 DEF Byte
  <2>4. <<PacketMax - 11>> \in Seq(Byte) /\ Len(<<PacketMax - 11>>) = 1
    BY <2>3
  <2>5. /\ <<OpDownload>> \o U32(offset) \in Seq(Byte)
        /\ Len(<<OpDownload>> \o U32(offset)) = 1 + 4
    BY <2>1, <2>2, Joined, Zenon
  <2>6. A \in Seq(Byte) /\ Len(A) = (1 + 4) + 1
    BY <2>4, <2>5, Joined, Zenon
  <2> QED BY <2>6
<1> HIDE DEF A
<1>5. Put(packet, 0, A) \in Buffers /\ SubSeq(Put(packet, 0, A), 1, 6) = A
  <2>1. Len(A) <= PacketMax
    BY <1>2, <1>4
  <2>2. Put(packet, 0, A) \in Buffers /\ SubSeq(Put(packet, 0, A), 1, Len(A)) = A
    BY <1>2, <1>4, <2>1, NothingWritten, Zenon
  <2> QED BY <1>4, <2>2
<1>6. 6 \in 0 .. PacketMax /\ 6 + Len(Field(text)) = m /\ 6 + Len(Field(text)) <= PacketMax
      /\ m + Len(Field(file)) = 8 + Len(text) + Len(file) /\ m + Len(Field(file)) <= PacketMax
  BY <1>1, <1>2, <1>3
<1> DEFINE b == Put(Put(packet, 0, A), 6, Field(text))
<1>7. b \in Buffers /\ m \in 0 .. PacketMax /\ SubSeq(b, 1, m) = A \o Field(text)
  <2>1. /\ b \in Buffers /\ 6 + Len(Field(text)) \in 0 .. PacketMax
        /\ SubSeq(b, 1, 6 + Len(Field(text))) = A \o Field(text)
    BY <1>3, <1>5, <1>6, Written
  <2> QED BY <1>6, <2>1
<1> HIDE DEF b, m
<1>8. /\ packet' \in Buffers /\ m + Len(Field(file)) \in 0 .. PacketMax
      /\ SubSeq(packet', 1, m + Len(Field(file))) = (A \o Field(text)) \o Field(file)
  <2>1. packet' = Put(b, m, Field(file))
    BY <1>1 DEF b, m
  <2>2. /\ Put(b, m, Field(file)) \in Buffers /\ m + Len(Field(file)) \in 0 .. PacketMax
        /\ SubSeq(Put(b, m, Field(file)), 1, m + Len(Field(file)))
             = SubSeq(b, 1, m) \o Field(file)
    BY <1>3, <1>6, <1>7, Written, Zenon
  <2> QED BY <1>7, <2>1, <2>2
<1>9. RvDownload(offset, PacketMax - 11, text, file) = (A \o Field(text)) \o Field(file)
  <2>1. A \o Field(text) \in Seq(Byte) /\ Len(A \o Field(text)) = 6 + Len(Field(text))
    BY <1>3, <1>4, Joined
  <2>2. Len((A \o Field(text)) \o Field(file)) = m + Len(Field(file))
    BY <1>3, <1>6, <2>1, Joined
  <2> QED BY <1>1, <1>6, <2>2 DEF RvDownload, Built, A
<1> QED BY <1>1, <1>6, <1>8, <1>9

LEMMA BuildStep == ASSUME ClientInv, BuildRequest PROVE ClientInv' /\ RequestWhole'
<1>1. /\ stage = "build" /\ stage' \in {"exchange", "returned"}
      /\ UNCHANGED <<inputVars, received, pageVars, chunkVars, histVars>>
      /\ call \in Calls
  BY DEF BuildRequest, BuildCatalog, BuildInfo, BuildDownload, Go, Return, ClientInv, InputsOK,
         Calls, Catalog
<1>2. UNCHANGED <<call, text, file, model, received, cursor, next_cursor, offset, written, pages>>
  BY <1>1 DEF inputVars, pageVars, chunkVars, histVars
<1>3. Catalog' = Catalog /\ Paged' = Paged /\ From' = From /\ Operation' = Operation
  BY <1>2 DEF Catalog, Paged, From, Operation
<1>4. CursorOK' /\ InputsOK' /\ ChunkOK'
  BY <1>1, <1>2, <1>3 DEF ClientInv, CursorOK, Stages, InputsOK, ChunkOK
<1>5. Paged => cursor = From
  BY <1>1 DEF ClientInv, CursorOK
<1>6. CASE Catalog
  <2>1. BuildCatalog
    <3>1. call # "info" /\ call # "download" /\ call # "capabilities"
      BY <1>6 DEF Catalog
    <3> HIDE DEF Catalog
    <3> QED BY <1>6, <3>1 DEF BuildRequest
  <2>2. Operation' = IF text' = <<>> THEN OpList ELSE OpSearch
    BY <1>2, <1>3, <1>6 DEF Operation, Catalog
  <2>3. /\ packet' \in Buffers /\ requested' \in 0 .. PacketMax
        /\ SubSeq(packet', 1, requested') =
              IF text = <<>> THEN RvList(cursor, Platform, model)
              ELSE RvSearch(cursor, Platform, text, model)
    BY <1>6, <2>1, CatalogBuilt
  <2>4. SubSeq(packet', 1, requested') =
              IF text' = <<>> THEN RvList(From', Platform, model')
              ELSE RvSearch(From', Platform, text', model')
    BY <1>2, <1>3, <1>5, <1>6, <2>3 DEF Paged
  <2>5. RequestWhole'
    <3>1. CASE text' = <<>>
      <4>1. Operation' = OpList /\ SubSeq(packet', 1, requested') = RvList(From', Platform, model')
        BY <2>2, <2>4, <3>1
      <4> QED BY <4>1 DEF RequestWhole, From, OpList, OpSearch, OpInfo, OpDownload, OpCapabilities
    <3>2. CASE text' # <<>>
      <4>1. /\ Operation' = OpSearch
            /\ SubSeq(packet', 1, requested') = RvSearch(From', Platform, text', model')
        BY <2>2, <2>4, <3>2
      <4> QED BY <4>1 DEF RequestWhole, From, OpList, OpSearch, OpInfo, OpDownload, OpCapabilities
    <3> QED BY <3>1, <3>2
  <2> QED BY <1>2, <1>4, <2>3, <2>5 DEF ClientInv, BufferOK
<1>7. CASE call = "info"
  <2>1. BuildInfo
    BY <1>7 DEF BuildRequest, Catalog
  <2>2. Operation = OpInfo
    BY <1>7 DEF Operation, Catalog
  <2>3. RequestWhole'
    BY <1>2, <1>3, <1>5, <1>7, <2>1, <2>2, InfoBuilt
       DEF RequestWhole, From, Paged, OpList, OpSearch, OpInfo, OpDownload, OpCapabilities
  <2>4. BufferOK'
    <3>1. CASE stage' = "exchange"
      <4>1. packet' \in Buffers /\ requested' \in 0 .. PacketMax
        BY <2>1, <3>1, InfoBuilt
      <4> QED BY <1>2, <4>1 DEF ClientInv, BufferOK
    <3>2. CASE stage' = "returned"
      <4>1. UNCHANGED <<packet, requested>>
        BY <2>1, <3>2 DEF BuildInfo, Go
      <4> QED BY <1>2, <4>1 DEF ClientInv, BufferOK
    <3> QED BY <1>1, <3>1, <3>2
  <2> QED BY <1>4, <2>3, <2>4 DEF ClientInv
<1>8. CASE call = "download"
  <2>1. BuildDownload
    BY <1>8 DEF BuildRequest, Catalog
  <2>2. Operation = OpDownload /\ offset = Len(written)
    BY <1>8 DEF Operation, Catalog, ClientInv, ChunkOK
  <2>3. RequestWhole'
    BY <1>2, <1>3, <1>8, <2>1, <2>2, DownloadBuilt
       DEF RequestWhole, OpList, OpSearch, OpInfo, OpDownload, OpCapabilities
  <2>4. BufferOK'
    <3>1. CASE stage' = "exchange"
      <4>1. packet' \in Buffers /\ requested' \in 0 .. PacketMax
        BY <2>1, <3>1, DownloadBuilt
      <4> QED BY <1>2, <4>1 DEF ClientInv, BufferOK
    <3>2. CASE stage' = "returned"
      <4>1. UNCHANGED <<packet, requested>>
        BY <2>1, <3>2 DEF BuildDownload, Go
      <4> QED BY <1>2, <4>1 DEF ClientInv, BufferOK
    <3> QED BY <1>1, <3>1, <3>2
  <2> QED BY <1>4, <2>3, <2>4 DEF ClientInv
<1>9. CASE call = "capabilities"
  <2>1. packet' = Put(packet, 0, <<OpCapabilities>>) /\ requested' = 1
    BY <1>9 DEF BuildRequest, Catalog
  <2>2. Operation = OpCapabilities
    BY <1>9 DEF Operation, Catalog
  <2>3. <<OpCapabilities>> \in Seq(Byte) /\ Len(<<OpCapabilities>>) = 1 /\ packet \in Buffers
    BY DEF OpCapabilities, Byte, ClientInv, BufferOK
  <2>4. 1 \in 0 .. PacketMax /\ Len(<<OpCapabilities>>) <= PacketMax
    BY <2>3, PacketAssumption
  <2>5. packet' \in Buffers /\ SubSeq(packet', 1, Len(<<OpCapabilities>>)) = <<OpCapabilities>>
    BY <2>1, <2>3, <2>4, NothingWritten, Zenon
  <2>6. RequestWhole'
    BY <1>3, <2>1, <2>2, <2>3, <2>5
       DEF RequestWhole, OpList, OpSearch, OpInfo, OpDownload, OpCapabilities
  <2> QED BY <1>2, <1>4, <2>1, <2>4, <2>5, <2>6 DEF ClientInv, BufferOK
<1> QED BY <1>1, <1>6, <1>7, <1>8, <1>9 DEF Calls, Catalog
-----------------------------------------------------------------------------
(* The other steps.                                                        *)

\* A step that leaves the buffer and the walk as they were.
LEMMA ClientRests ==
  ASSUME ClientInv, UNCHANGED <<inputVars, bufferVars, cursor, next_cursor, offset, written, pages>>,
         stage' \in {stage, "returned"}
  PROVE  ClientInv'
<1>1. UNCHANGED <<call, text, file, model, packet, requested, received, cursor, next_cursor,
                  offset, written, pages>>
  BY DEF inputVars, bufferVars
<1>2. Catalog' = Catalog /\ Paged' = Paged /\ From' = From
  BY <1>1 DEF Catalog, Paged, From
<1>3. InputsOK' /\ BufferOK' /\ ChunkOK'
  BY <1>1, <1>2 DEF ClientInv, InputsOK, BufferOK, ChunkOK
<1>4. CursorOK'
  BY <1>1, <1>2 DEF ClientInv, CursorOK, Stages
<1> QED BY <1>3, <1>4 DEF ClientInv

LEMMA ExchangeStep == ASSUME ClientInv, Exchange PROVE ClientInv' /\ stage' = "check"
<1>1. /\ stage = "exchange" /\ stage' = "check"
      /\ UNCHANGED <<call, text, file, model, requested, cursor, next_cursor, offset, written, pages>>
  BY DEF Exchange, Go, inputVars, pageVars, chunkVars, histVars
<1>2. PICK r \in Responses[call] : packet' = Put(packet, 0, r) /\ received' = Len(r)
  BY DEF Exchange
<1>3. call \in DOMAIN Responses /\ packet \in Buffers
  BY CallsAssumption DEF ClientInv, InputsOK, Calls, BufferOK
<1>4. r \in Seq(Byte) /\ Len(r) <= PacketMax
  BY <1>2, <1>3, BytesAssumption
<1>5. packet' \in Buffers /\ received' \in 0 .. PacketMax
  BY <1>2, <1>3, <1>4, NothingWritten
<1>6. Catalog' = Catalog /\ Paged' = Paged /\ From' = From
  BY <1>1 DEF Catalog, Paged, From
<1>7. InputsOK' /\ ChunkOK' /\ BufferOK'
  BY <1>1, <1>5, <1>6 DEF ClientInv, InputsOK, ChunkOK, BufferOK
<1>8. CursorOK'
  BY <1>1, <1>6 DEF ClientInv, CursorOK, Stages
<1> QED BY <1>1, <1>7, <1>8 DEF ClientInv

\* The page accepted says where the next one begins.
LEMMA AcceptStep == ASSUME ClientInv, Accept PROVE ClientInv' /\ stage' = "read"
<1> DEFINE page == SubSeq(packet, 1, received)
<1>1. /\ stage = "check" /\ stage' = "read" /\ Answers /\ packet[2] = 0
      /\ pages' = Append(pages, page)
      /\ next_cursor' = IF call \in {"catalog", "resolve", "info"}
                        THEN GetU16(packet, 2) ELSE next_cursor
      /\ UNCHANGED <<call, text, file, model, packet, requested, received, cursor, offset, written>>
  BY DEF Accept, Go, inputVars, bufferVars, chunkVars
<1>2. packet \in Buffers /\ received \in 0 .. PacketMax /\ pages \in Seq(Seq(Byte))
  BY DEF ClientInv, BufferOK, CursorOK
<1>3. PacketMax \in Nat
  BY PacketAssumption
<1>4. page = [i \in 1 .. received |-> packet[i]] /\ page \in Seq(Byte)
  BY <1>2, <1>3 DEF Buffers
<1>5. Catalog' = Catalog /\ Paged' = Paged /\ (Paged <=> call \in {"catalog", "resolve", "info"})
  BY <1>1 DEF Catalog, Paged
<1> HIDE DEF page
<1>6. pages' \in Seq(Seq(Byte)) /\ pages' # <<>> /\ Last(pages') = page
  <2>1. /\ pages' \in Seq(Seq(Byte)) /\ Len(pages') = Len(pages) + 1
        /\ pages'[Len(pages) + 1] = page /\ Len(pages) \in Nat
    BY <1>1, <1>2, <1>4
  <2>2. pages' # <<>>
    <3>1. Len(pages') # 0
      BY <2>1
    <3> QED BY <2>1, <3>1
  <2> QED BY <2>1, <2>2 DEF Last
<1>7. Paged => GetU16(page, 2) = GetU16(packet, 2)
  <2>1. Paged => received \in 5 .. PacketMax
    BY <1>1, HasHeader
  <2>2. Paged => page[3] = packet[3] /\ page[4] = packet[4]
    BY <1>3, <1>4, <2>1
  <2> QED BY <2>2 DEF GetU16
<1>8. Paged => next_cursor' = From'
  BY <1>1, <1>5, <1>6, <1>7 DEF From
<1>9. IsWord(cursor') /\ IsWord(next_cursor')
  <2>1. IsWord(GetU16(packet, 2))
    BY <1>2, Numbers
  <2>2. IsWord(cursor) /\ IsWord(next_cursor)
    BY DEF ClientInv, CursorOK
  <2> QED BY <1>1, <2>1, <2>2
<1>10. CursorOK'
  BY <1>1, <1>5, <1>6, <1>8, <1>9 DEF CursorOK, Stages
<1>11. InputsOK' /\ BufferOK' /\ ChunkOK'
  BY <1>1, <1>5 DEF ClientInv, InputsOK, BufferOK, ChunkOK
<1> QED BY <1>1, <1>10, <1>11 DEF ClientInv

LEMMA EndOfPageStep ==
  ASSUME ClientInv, EndOfPage PROVE ClientInv' /\ stage' \in {"build", "returned"}
<1>1. /\ stage = "read" /\ (Catalog \/ call = "info")
      /\ \/ stage' = "returned" /\ cursor' = cursor
         \/ stage' = "build" /\ cursor' = next_cursor
      /\ UNCHANGED <<call, text, file, model, packet, requested, received, next_cursor, offset,
                     written, pages>>
  BY DEF EndOfPage, Go, Return, NextCursor, inputVars, bufferVars, chunkVars, histVars
<1>2. Catalog' = Catalog /\ Paged' = Paged /\ From' = From
  BY <1>1 DEF Catalog, Paged, From
<1>3. Paged => next_cursor = From
  BY <1>1 DEF ClientInv, CursorOK
<1>4. IsWord(cursor') /\ IsWord(next_cursor') /\ pages' \in Seq(Seq(Byte))
  BY <1>1 DEF ClientInv, CursorOK
<1>5. CursorOK'
  BY <1>1, <1>2, <1>3, <1>4 DEF CursorOK, Stages
<1>6. InputsOK' /\ BufferOK' /\ ChunkOK'
  BY <1>1, <1>2 DEF ClientInv, InputsOK, BufferOK, ChunkOK
<1> QED BY <1>1, <1>5, <1>6 DEF ClientInv

\* No chunk takes the offset past the total, which is a long word.
LEMMA TakeChunkStep ==
  ASSUME ClientInv, TakeChunk PROVE ClientInv' /\ stage' \in {"build", "returned"}
<1> DEFINE c == Chunk
           data == SubSeq(packet, 12, 11 + c.size)
<1>1. /\ stage = "read" /\ call = "download" /\ stage' \in {"build", "returned"}
      /\ UNCHANGED <<call, text, file, model, packet, requested, received, cursor, next_cursor,
                     pages>>
  BY DEF TakeChunk, Go, Return, inputVars, bufferVars, pageVars, histVars
<1>2. Catalog' = Catalog /\ Paged' = Paged /\ From' = From /\ ~Paged
  BY <1>1 DEF Catalog, Paged, From
<1>3. /\ packet \in Buffers /\ received \in 0 .. PacketMax /\ PacketMax \in Nat
      /\ written \in Seq(Byte) /\ offset = Len(written) /\ offset <= LongMax
  BY PacketAssumption DEF ClientInv, BufferOK, ChunkOK
<1>4. /\ c.total_size \in Nat /\ c.total_size <= LongMax /\ c.size \in Nat
      /\ c.total_size = GetU32(packet, 6) /\ c.size = packet[11]
  <2>1. GetU32(packet, 6) \in Nat /\ GetU32(packet, 6) <= LongMax
    BY <1>3, Numbers, Zenon
  <2>2. packet[11] \in Nat
    <3>1. 11 \in 1 .. PacketMax
      BY PacketAssumption
    <3>2. packet[11] \in Byte
      BY <1>3, <3>1 DEF Buffers
    <3> QED BY <3>2 DEF Byte
  <2> QED BY <2>1, <2>2, Zenon DEF Chunk
<1>5. \/ UNCHANGED <<offset, written>>
      \/ /\ offset' = offset + c.size /\ written' = written \o data
         /\ received = 11 + c.size /\ offset <= c.total_size
         /\ c.size <= c.total_size - offset
  BY DEF TakeChunk, chunkVars
<1> HIDE DEF c
<1>6. ChunkOK'
  <2>1. CASE UNCHANGED <<offset, written>>
    BY <1>3, <2>1 DEF ChunkOK
  <2>2. CASE /\ offset' = offset + c.size /\ written' = written \o data
             /\ received = 11 + c.size /\ offset <= c.total_size
             /\ c.size <= c.total_size - offset
    <3>1. Len(written) \in Nat /\ offset \in Nat
      BY <1>3
    <3>2. 11 + c.size <= PacketMax
      BY <1>3, <2>2
    <3>3. data \in Seq(Byte) /\ Len(data) = c.size
      <4>1. PICK n \in Nat : n = c.size
        BY <1>4
      <4>2. PICK k \in Int : k = 11 + n
        BY <4>1
      <4>3. \A i \in 12 .. k : packet[i] \in Byte
        BY <1>3, <3>2, <4>1, <4>2 DEF Buffers
      <4>4. 12 \in Int /\ (IF 12 <= k THEN k - 12 + 1 ELSE 0) = n
        BY <4>1, <4>2
      <4>5. /\ SubSeq(packet, 12, k) \in Seq(Byte)
            /\ Len(SubSeq(packet, 12, k)) = IF 12 <= k THEN k - 12 + 1 ELSE 0
        BY ONLY <4>2, <4>3, <4>4, SubSeqProperties
      <4> QED BY <4>1, <4>2, <4>4, <4>5, Zenon
    <3>4. written' \in Seq(Byte) /\ Len(written') = Len(written) + c.size
      BY <1>3, <2>2, <3>3, Joined
    <3>5. offset' <= LongMax
      <4>1. offset + c.size <= c.total_size
        BY <1>4, <2>2, <3>1
      <4>2. LongMax \in Nat
        BY SMT DEF LongMax
      <4> HIDE DEF LongMax
      <4> QED BY <1>4, <2>2, <3>1, <4>1, <4>2
    <3>6. offset' = Len(written')
      BY <1>3, <2>2, <3>4
    <3> QED BY <3>4, <3>5, <3>6 DEF ChunkOK
  <2> QED BY <1>5, <2>1, <2>2
<1>7. InputsOK' /\ BufferOK'
  BY <1>1, <1>2 DEF ClientInv, InputsOK, BufferOK
<1>8. CursorOK'
  BY <1>1, <1>2 DEF ClientInv, CursorOK, Stages
<1> QED BY <1>1, <1>6, <1>7, <1>8 DEF ClientInv
LEMMA ClientStep == ASSUME ClientInv, [HostedNext]_hostedVars PROVE ClientInv'
<1>1. CASE BuildRequest
  BY <1>1, BuildStep
<1>2. CASE ExchangeFails \/ NoAnswer \/ ServerError \/ CheckCapabilities
  BY <1>2, ClientRests DEF ExchangeFails, NoAnswer, ServerError, CheckCapabilities, Return,
     pageVars, chunkVars, histVars
<1>3. CASE Exchange
  BY <1>3, ExchangeStep
<1>4. CASE Accept
  BY <1>4, AcceptStep
<1>5. CASE VisitEntry
  BY <1>5, ClientRests DEF VisitEntry, Return, NextElement, chunkVars
<1>6. CASE CollectValue
  <2>1. /\ UNCHANGED <<inputVars, bufferVars, chunkVars, pages>> /\ UNCHANGED <<cursor, next_cursor>>
    BY <1>6 DEF CollectValue, NextElement
  <2>2. stage' \in {stage, "returned"}
    BY <1>6 DEF CollectValue, CollectDownload, Store, Reject, Return
  <2> QED BY <2>1, <2>2, ClientRests DEF chunkVars
<1>7. CASE EndOfPage
  BY <1>7, EndOfPageStep
<1>8. CASE TakeChunk
  BY <1>8, TakeChunkStep
<1>9. CASE UNCHANGED hostedVars
  BY <1>9, ClientRests DEF hostedVars, pageVars, chunkVars, histVars
<1> QED BY <1>1, <1>2, <1>3, <1>4, <1>5, <1>6, <1>7, <1>8, <1>9 DEF HostedNext, Returned

\* Every state of a call has its cursor where the page before left off and its
\* offset at the end of what is written.
THEOREM ClientKnown == HostedSpec => []ClientInv
BY ClientBegins, ClientStep, PTL DEF HostedSpec

\* What goes out is the request the protocol library would build, for the page
\* or the offset that the response before left off at, though it is written over
\* that response (build_catalog_request, build_info_request,
\* build_download_request in client.c).
THEOREM RequestIsWhole == HostedSpec => []RequestWhole
<1>1. HostedInit => RequestWhole
  BY DEF HostedInit, RequestWhole
<1>2. ASSUME ClientInv, RequestWhole, [HostedNext]_hostedVars PROVE RequestWhole'
  <2>1. CASE BuildRequest
    BY <1>2, <2>1, BuildStep
  <2>2. CASE UNCHANGED hostedVars
    BY <1>2, <2>2 DEF hostedVars, RequestWhole, Operation, Catalog, inputVars, bufferVars,
       chunkVars, histVars
  <2>3. CASE stage' # "exchange"
    BY <2>3 DEF RequestWhole
  <2>4. CASE VisitEntry
    <3>1. stage' # "exchange"
      BY <2>4 DEF VisitEntry, ElementLeft, Return
    <3> QED BY <2>3, <3>1
  <2>5. CASE CollectValue
    <3>1. stage' # "exchange"
      BY <2>5 DEF CollectValue, CollectDownload, Store, Reject, Return, ElementLeft
    <3> QED BY <2>3, <3>1
  <2>6. CASE ExchangeFails \/ NoAnswer \/ ServerError \/ CheckCapabilities
    <3>1. stage' # "exchange"
      BY <2>6 DEF ExchangeFails, NoAnswer, ServerError, CheckCapabilities, Return
    <3> QED BY <2>3, <3>1
  <2>7. CASE Exchange \/ Accept \/ EndOfPage \/ TakeChunk
    <3>1. stage' # "exchange"
      BY <1>2, <2>7, ExchangeStep, AcceptStep, EndOfPageStep, TakeChunkStep
    <3> QED BY <2>3, <3>1
  <2> QED BY <1>2, <2>1, <2>2, <2>4, <2>5, <2>6, <2>7 DEF HostedNext, Returned
<1> QED BY <1>1, <1>2, ClientKnown, PTL DEF HostedSpec
-----------------------------------------------------------------------------
(* The size of a response: along a page, from one length to the next.      *)

\* One element further: past the type of a metadata value (lead 1), then a field.
Further(r, n, lead, from) ==
  IF from = More \/ (lead = 1 /\ n - from < 2) THEN More ELSE Past(r, n, from + lead)

\* f is where a page's fields begin, from the fifth byte, and where the last ends.
Walks(f, count, r, n, lead) ==
  /\ f \in [0 .. count -> 0 .. n] /\ f[0] = 5
  /\ \A k \in 1 .. count : f[k] = Further(r, n, lead, f[k - 1])

LEMMA FurtherIs ==
  ASSUME NEW r \in Buffers, NEW n \in 0 .. PacketMax, NEW lead \in {0, 1}, NEW from \in 0 .. n
  PROVE  \/ Further(r, n, lead, from) = More
         \/ /\ from # More /\ from + lead < n
            /\ r[from + lead + 1] \in Byte
            /\ r[from + lead + 1] <= n - (from + lead + 1)
            /\ Further(r, n, lead, from) = from + lead + 1 + r[from + lead + 1]
<1>1. PacketMax \in 11 .. 255
  BY PacketAssumption
<1>2. SUFFICES ASSUME Further(r, n, lead, from) # More
               PROVE  /\ from # More /\ from + lead < n
                      /\ r[from + lead + 1] \in Byte
                      /\ r[from + lead + 1] <= n - (from + lead + 1)
                      /\ Further(r, n, lead, from) = from + lead + 1 + r[from + lead + 1]
  OBVIOUS
<1>3. PICK u \in Nat : u = from + lead
  OBVIOUS
<1>4. /\ from # More /\ Further(r, n, lead, from) = Past(r, n, u)
  BY <1>2, <1>3 DEF Further
<1>5. /\ u < n /\ ~(r[u + 1] > Room(n, u + 1))
      /\ Past(r, n, u) = u + 1 + r[u + 1]
  BY <1>1, <1>2, <1>3, <1>4 DEF Past, Ends
<1>6. u + 1 \in 1 .. PacketMax
  BY <1>1, <1>3, <1>5
<1>7. r[u + 1] \in Byte
  BY <1>6 DEF Buffers
<1>8. Room(n, u + 1) = n - (u + 1)
  BY <1>1, <1>3, <1>5 DEF Room
<1>9. PICK b \in Byte : b = r[u + 1]
  BY <1>7
<1>10. b <= n - (u + 1)
  BY <1>1, <1>5, <1>8, <1>9 DEF Byte
<1> QED BY <1>3, <1>4, <1>5, <1>7, <1>9, <1>10

LEMMA FurtherStays ==
  ASSUME NEW r \in Buffers, NEW n \in 0 .. PacketMax, NEW lead \in {0, 1}, NEW from \in 0 .. n
  PROVE  Further(r, n, lead, from) \in 0 .. n
<1>1. n \in Nat
  BY PacketAssumption
<1>2. CASE Further(r, n, lead, from) = More
  BY <1>1, <1>2 DEF More
<1>3. CASE Further(r, n, lead, from) # More
  <2>1. PICK b \in Byte : b = r[from + lead + 1]
    BY <1>3, FurtherIs
  <2>2. b <= n - (from + lead + 1) /\ Further(r, n, lead, from) = from + lead + 1 + b
    BY <1>3, <2>1, FurtherIs
  <2> QED BY <1>1, <2>1, <2>2 DEF Byte
<1> QED BY <1>2, <1>3

LEMMA WalkExists ==
  ASSUME NEW r \in Buffers, NEW n \in 5 .. PacketMax, NEW lead \in {0, 1}, NEW count \in Nat
  PROVE  \E f : Walks(f, count, r, n, lead)
<1> DEFINE step == [k \in 1 .. count |-> [from \in 0 .. n |-> Further(r, n, lead, from)]]
<1>1. n \in 0 .. PacketMax /\ 5 \in 0 .. n
  BY PacketAssumption
<1>2. \A from \in 0 .. n : Further(r, n, lead, from) \in 0 .. n
  BY <1>1, FurtherStays
<1>3. step \in [1 .. count -> [0 .. n -> 0 .. n]]
  BY <1>2
<1>4. \A k \in 1 .. count : \A from \in 0 .. n : step[k][from] = Further(r, n, lead, from)
  OBVIOUS
<1> HIDE DEF step
<1>5. PICK f \in [0 .. count -> 0 .. n] : Steps(f, count, 5, step)
  BY <1>1, <1>3, Recursion
<1>6. f[0] = 5
  BY <1>5 DEF Steps
<1>7. ASSUME NEW k \in 1 .. count PROVE f[k] = Further(r, n, lead, f[k - 1])
  <2>1. k \in 0 .. count /\ k # 0 /\ k - 1 \in 0 .. count
    OBVIOUS
  <2>2. f[k] = step[k][f[k - 1]] /\ f[k - 1] \in 0 .. n
    BY <1>5, <2>1 DEF Steps
  <2> QED BY <1>4, <2>2
<1> QED BY <1>5, <1>6, <1>7 DEF Walks

\* catalog_response_size and info_response_size walk the page.
LEMMA CatalogWalk ==
  ASSUME NEW r \in Buffers, NEW n \in 5 .. PacketMax
  PROVE  \E f : Walks(f, 2 * r[5], r, n, 0) /\ CatalogSize(r, n) = f[2 * r[5]]
<1>1. r[5] \in Byte /\ n \in Nat /\ ~(n < 5)
  BY PacketAssumption DEF Buffers
<1>2. PICK m \in Nat : m = 2 * r[5]
  BY <1>1 DEF Byte
<1>3. PICK f : Walks(f, m, r, n, 0)
  BY WalkExists
<1> DEFINE Eq(g) == g = [k \in 0 .. m |->
                           IF k = 0 THEN 5
                           ELSE IF g[k - 1] = More THEN More ELSE Past(r, n, g[k - 1])]
           after == CHOOSE g : Eq(g)
<1>4. \A from \in Nat : Further(r, n, 0, from) = IF from = More THEN More ELSE Past(r, n, from)
  BY DEF Further
<1>5. Eq(f)
  <2>1. f \in [0 .. m -> 0 .. n] /\ f[0] = 5 /\ \A k \in 1 .. m : f[k] = Further(r, n, 0, f[k - 1])
    BY <1>3 DEF Walks
  <2>2. ASSUME NEW k \in 0 .. m
        PROVE  f[k] = IF k = 0 THEN 5
                      ELSE IF f[k - 1] = More THEN More ELSE Past(r, n, f[k - 1])
    <3>1. CASE k = 0
      BY <2>1, <3>1
    <3>2. CASE k # 0
      <4>1. k \in 1 .. m /\ k - 1 \in 0 .. m
        BY <3>2
      <4>2. f[k - 1] \in Nat /\ f[k] = Further(r, n, 0, f[k - 1])
        BY <1>1, <2>1, <4>1
      <4> QED BY <1>4, <3>2, <4>2
    <3> QED BY <3>1, <3>2
  <2> QED BY <2>1, <2>2
<1>6. Eq(after)
  BY <1>5
<1>7. CatalogSize(r, n) = after[2 * r[5]]
  BY <1>1, <1>2 DEF CatalogSize
<1> HIDE DEF after
<1>8. after = f
  <2>1. after[0] = f[0]
    BY <1>5, <1>6
  <2>2. ASSUME NEW k \in 1 .. m, after[k - 1] = f[k - 1] PROVE after[k] = f[k]
    <3>1. k \in 0 .. m /\ k # 0 /\ k - 1 \in 0 .. m
      OBVIOUS
    <3> QED BY <1>5, <1>6, <2>2, <3>1
  <2>3. \A k \in 0 .. m : after[k] = f[k]
    <3>1. Keeps(after, f, m)
      BY <2>2 DEF Keeps
    <3>2. Alike(after, f, m)
      BY <2>1, <3>1, AlikeUp, Zenon
    <3> QED BY <3>2 DEF Alike
  <2>4. after = [k \in 0 .. m |-> after[k]]
    BY <1>6
  <2> QED BY <1>3, <2>3, <2>4 DEF Walks
<1> QED BY <1>2, <1>3, <1>7, <1>8

LEMMA InfoWalk ==
  ASSUME NEW r \in Buffers, NEW n \in 5 .. PacketMax
  PROVE  \E f : Walks(f, r[5], r, n, 1) /\ InfoSize(r, n) = f[r[5]]
<1>1. r[5] \in Byte /\ n \in Nat /\ ~(n < 5)
  BY PacketAssumption DEF Buffers
<1>2. PICK m \in Nat : m = r[5]
  BY <1>1 DEF Byte
<1>3. PICK f : Walks(f, m, r, n, 1)
  BY WalkExists
<1> DEFINE Eq(g) == g = [k \in 0 .. m |->
                           IF k = 0 THEN 5
                           ELSE IF g[k - 1] = More \/ n - g[k - 1] < 2 THEN More
                           ELSE Past(r, n, g[k - 1] + 1)]
           after == CHOOSE g : Eq(g)
<1>4. \A from \in Nat : Further(r, n, 1, from) = IF from = More \/ n - from < 2 THEN More
                                                     ELSE Past(r, n, from + 1)
  BY DEF Further
<1>5. Eq(f)
  <2>1. f \in [0 .. m -> 0 .. n] /\ f[0] = 5 /\ \A k \in 1 .. m : f[k] = Further(r, n, 1, f[k - 1])
    BY <1>3 DEF Walks
  <2>2. ASSUME NEW k \in 0 .. m
        PROVE  f[k] = IF k = 0 THEN 5
                      ELSE IF f[k - 1] = More \/ n - f[k - 1] < 2 THEN More
                      ELSE Past(r, n, f[k - 1] + 1)
    <3>1. CASE k = 0
      BY <2>1, <3>1
    <3>2. CASE k # 0
      <4>1. k \in 1 .. m /\ k - 1 \in 0 .. m
        BY <3>2
      <4>2. f[k - 1] \in Nat /\ f[k] = Further(r, n, 1, f[k - 1])
        BY <1>1, <2>1, <4>1
      <4> QED BY <1>4, <3>2, <4>2
    <3> QED BY <3>1, <3>2
  <2> QED BY <2>1, <2>2
<1>6. Eq(after)
  BY <1>5
<1>7. InfoSize(r, n) = after[r[5]]
  BY <1>1, <1>2 DEF InfoSize
<1> HIDE DEF after
<1>8. after = f
  <2>1. after[0] = f[0]
    BY <1>5, <1>6
  <2>2. ASSUME NEW k \in 1 .. m, after[k - 1] = f[k - 1] PROVE after[k] = f[k]
    <3>1. k \in 0 .. m /\ k # 0 /\ k - 1 \in 0 .. m
      OBVIOUS
    <3> QED BY <1>5, <1>6, <2>2, <3>1
  <2>3. \A k \in 0 .. m : after[k] = f[k]
    <3>1. Keeps(after, f, m)
      BY <2>2 DEF Keeps
    <3>2. Alike(after, f, m)
      BY <2>1, <3>1, AlikeUp, Zenon
    <3> QED BY <3>2 DEF Alike
  <2>4. after = [k \in 0 .. m |-> after[k]]
    BY <1>6
  <2> QED BY <1>3, <2>3, <2>4 DEF Walks
<1> QED BY <1>2, <1>3, <1>7, <1>8

\* A walk over fewer bytes of the same message stops or is the same walk.
LEMMA FurtherAgrees ==
  ASSUME NEW r \in Buffers, NEW s \in Buffers, NEW n \in 0 .. PacketMax, NEW m \in n .. PacketMax,
         \A i \in 1 .. n : r[i] = s[i], NEW lead \in {0, 1}, NEW from \in 0 .. n
  PROVE  Further(r, n, lead, from) \in {More, Further(s, m, lead, from)}
<1>1. PacketMax \in 11 .. 255
  BY PacketAssumption
<1>2. SUFFICES ASSUME Further(r, n, lead, from) # More
               PROVE  Further(r, n, lead, from) = Further(s, m, lead, from)
  OBVIOUS
<1>3. PICK u \in Nat : u = from + lead
  OBVIOUS
<1>4. /\ from # More /\ u < n /\ r[u + 1] \in Byte /\ r[u + 1] <= n - (u + 1)
      /\ Further(r, n, lead, from) = u + 1 + r[u + 1]
  BY <1>2, <1>3, FurtherIs
<1>5. u + 1 \in 1 .. n
  BY <1>1, <1>3, <1>4
<1>6. s[u + 1] = r[u + 1]
  BY <1>5
<1>7. PICK b \in Byte : b = r[u + 1]
  BY <1>4
<1>8. Room(m, u + 1) = m - (u + 1)
  BY <1>1, <1>3, <1>4 DEF Room
<1>9. Past(s, m, u) = u + 1 + b
  BY <1>1, <1>4, <1>6, <1>7, <1>8 DEF Past, Ends, Byte
<1>10. ~(lead = 1 /\ m - from < 2)
  BY <1>1, <1>3, <1>4
<1> QED BY <1>3, <1>4, <1>7, <1>9, <1>10 DEF Further

LEMMA WalksAgree ==
  ASSUME NEW r \in Buffers, NEW s \in Buffers, NEW n \in 0 .. PacketMax, NEW m \in n .. PacketMax,
         \A i \in 1 .. n : r[i] = s[i], NEW lead \in {0, 1}, NEW count \in Nat,
         NEW f, NEW g, Walks(f, count, r, n, lead), Walks(g, count, s, m, lead)
  PROVE  f[count] \in {More, g[count]}
<1> DEFINE same == [k \in 0 .. count |-> IF f[k] \in {More, g[k]} THEN 1 ELSE 0]
           Yes == {1}
<1>1. /\ f \in [0 .. count -> 0 .. n] /\ f[0] = 5 /\ g[0] = 5
      /\ \A k \in 1 .. count : /\ f[k] = Further(r, n, lead, f[k - 1])
                               /\ g[k] = Further(s, m, lead, g[k - 1])
  BY DEF Walks
<1>2. same[0] \in Yes
  BY <1>1
<1>3. ASSUME NEW k \in 1 .. count, same[k - 1] \in Yes PROVE same[k] \in Yes
  <2>1. k - 1 \in 0 .. count /\ k \in 0 .. count
    OBVIOUS
  <2>2. f[k - 1] \in {More, g[k - 1]} /\ f[k - 1] \in 0 .. n
    BY <1>1, <1>3, <2>1
  <2>3. f[k] \in {More, g[k]}
    <3>1. CASE f[k - 1] = More
      <4>1. f[k] = More
        BY <1>1, <3>1 DEF Further
      <4> QED BY <4>1
    <3>2. CASE f[k - 1] = g[k - 1]
      <4>1. Further(r, n, lead, f[k - 1]) \in {More, Further(s, m, lead, f[k - 1])}
        BY <2>2, FurtherAgrees
      <4> QED BY <1>1, <3>2, <4>1
    <3> QED BY <2>2, <3>1, <3>2
  <2> QED BY <2>1, <2>3
<1> HIDE DEF same, Yes
<1>4. \A k \in 0 .. count : same[k] \in Yes
  BY <1>2, <1>3, Climbs
<1>5. count \in 0 .. count
  OBVIOUS
<1>6. same[count] = 1
  BY <1>4, <1>5 DEF Yes
<1> QED BY <1>5, <1>6 DEF same

\* What the first bytes of a message say of its size, more bytes say too.
LEMMA SizesAgree ==
  ASSUME NEW r \in Buffers, NEW s \in Buffers, NEW n \in 0 .. PacketMax, NEW m \in n .. PacketMax,
         \A i \in 1 .. n : r[i] = s[i]
  PROVE  Size(r, n) \in {More, Size(s, m)}
<1>1. PacketMax \in 11 .. 255 /\ n \in Nat /\ m \in Nat /\ n <= m
  BY PacketAssumption
<1>2. SUFFICES ASSUME n >= 2 PROVE Size(r, n) \in {More, Size(s, m)}
  BY <1>1 DEF Size
<1>3. r[1] = s[1] /\ r[2] = s[2] /\ s[1] \in Byte
  BY <1>1, <1>2 DEF Buffers
<1>4. CatalogSize(r, n) \in {More, CatalogSize(s, m)}
  <2>1. CASE n < 5
    BY <2>1 DEF CatalogSize
  <2>2. CASE n >= 5
    <3>1. n \in 5 .. PacketMax /\ m \in 5 .. PacketMax /\ r[5] = s[5] /\ r[5] \in Byte
      BY <1>1, <2>2 DEF Buffers
    <3>2. PICK c \in Nat : c = 2 * r[5]
      BY <3>1 DEF Byte
    <3>3. PICK f : Walks(f, c, r, n, 0) /\ CatalogSize(r, n) = f[c]
      BY <3>1, <3>2, CatalogWalk
    <3>4. PICK g : Walks(g, c, s, m, 0) /\ CatalogSize(s, m) = g[c]
      BY <3>1, <3>2, CatalogWalk
    <3>5. f[c] \in {More, g[c]}
      BY <3>3, <3>4, WalksAgree
    <3> QED BY <3>3, <3>4, <3>5
  <2> QED BY <1>1, <2>1, <2>2
<1>5. InfoSize(r, n) \in {More, InfoSize(s, m)}
  <2>1. CASE n < 5
    BY <2>1 DEF InfoSize
  <2>2. CASE n >= 5
    <3>1. n \in 5 .. PacketMax /\ m \in 5 .. PacketMax /\ r[5] = s[5] /\ r[5] \in Byte
      BY <1>1, <2>2 DEF Buffers
    <3>2. PICK c \in Nat : c = r[5]
      BY <3>1 DEF Byte
    <3>3. PICK f : Walks(f, c, r, n, 1) /\ InfoSize(r, n) = f[c]
      BY <3>1, <3>2, InfoWalk
    <3>4. PICK g : Walks(g, c, s, m, 1) /\ InfoSize(s, m) = g[c]
      BY <3>1, <3>2, InfoWalk
    <3>5. f[c] \in {More, g[c]}
      BY <3>3, <3>4, WalksAgree
    <3> QED BY <3>3, <3>4, <3>5
  <2> QED BY <1>1, <2>1, <2>2
<1>6. n >= 11 => r[11] = s[11]
  BY <1>1
<1> DEFINE op == r[1] - ResponseBit
<1>7. CASE r[1] < ResponseBit \/ r[2] # 0
  BY <1>1, <1>2, <1>3, <1>7 DEF Size
<1>8. CASE ~(r[1] < ResponseBit) /\ r[2] = 0
  <2>1. /\ Size(r, n) = CASE op = OpCapabilities -> IF n >= 7 THEN 7 ELSE More
                          [] op \in {OpList, OpSearch} -> CatalogSize(r, n)
                          [] op = OpInfo -> InfoSize(r, n)
                          [] op = OpDownload -> IF n < 11 THEN More ELSE 11 + r[11]
                          [] OTHER -> Never
        /\ Size(s, m) = CASE op = OpCapabilities -> IF m >= 7 THEN 7 ELSE More
                          [] op \in {OpList, OpSearch} -> CatalogSize(s, m)
                          [] op = OpInfo -> InfoSize(s, m)
                          [] op = OpDownload -> IF m < 11 THEN More ELSE 11 + s[11]
                          [] OTHER -> Never
    BY <1>1, <1>2, <1>3, <1>8 DEF Size
  <2> HIDE DEF op
  <2>2. CASE op = OpCapabilities
    BY <1>1, <2>1, <2>2 DEF OpCapabilities, OpList, OpSearch, OpInfo, OpDownload
  <2>3. CASE op \in {OpList, OpSearch}
    BY <1>4, <2>1, <2>3 DEF OpCapabilities, OpList, OpSearch, OpInfo, OpDownload
  <2>4. CASE op = OpInfo
    BY <1>5, <2>1, <2>4 DEF OpCapabilities, OpList, OpSearch, OpInfo
  <2>5. CASE op = OpDownload
    BY <1>1, <1>6, <2>1, <2>5 DEF OpCapabilities, OpList, OpSearch, OpInfo, OpDownload
  <2>6. CASE op \notin {OpCapabilities, OpList, OpSearch, OpInfo, OpDownload}
    BY <2>1, <2>6
  <2> QED BY <2>2, <2>3, <2>4, <2>5, <2>6
<1> QED BY <1>7, <1>8

\* "Determine the complete response size from bytes received so far"
\* (retrovault.h): whatever lies behind them in the buffer, the first bytes of a
\* message give rv_response_size its size or "more", never a size that later
\* bytes take back.
THEOREM SizeIsDecided == HostedSpec => []SizeDecided
<1>1. ASSUME ClientInv PROVE SizeDecided
  <2>1. packet \in Buffers /\ received \in 0 .. PacketMax /\ PacketMax \in Nat
    BY <1>1, PacketAssumption DEF ClientInv, BufferOK
  <2>2. SUFFICES ASSUME NEW n \in 0 .. received, NEW behind \in Fillings
                 PROVE  Size(FirstOf(packet, n, behind), n) \in {More, Size(packet, received)}
    BY DEF SizeDecided
  <2>3. behind \in Buffers
    <3>1. PICK b \in {0, 1, 255} : behind = [i \in 1 .. PacketMax |-> b]
      BY DEF Fillings
    <3>2. b \in Byte
      BY DEF Byte
    <3> QED BY <3>1, <3>2 DEF Buffers
  <2> DEFINE r == FirstOf(packet, n, behind)
  <2>4. r \in Buffers
    BY <2>1, <2>3 DEF FirstOf, Buffers
  <2>5. \A i \in 1 .. n : r[i] = packet[i]
    BY <2>1 DEF FirstOf
  <2>6. n \in 0 .. PacketMax /\ received \in n .. PacketMax
    BY <2>1
  <2> HIDE DEF r
  <2>7. Size(r, n) \in {More, Size(packet, received)}
    BY <2>1, <2>4, <2>5, <2>6, SizesAgree
  <2> QED BY <2>7 DEF r
<1> QED BY <1>1, ClientKnown, PTL
-----------------------------------------------------------------------------
(* Pages and chunks joined into one text.                                  *)

\* g joins the parts of ss from the left, one more at a time.
Joins(g, ss, E) ==
  /\ g \in [0 .. Len(ss) -> Seq(E)] /\ g[0] = <<>>
  /\ \A i \in 1 .. Len(ss) : g[i] = g[i - 1] \o ss[i]

LEMMA FlattenIs ==
  ASSUME NEW E, NEW ss \in Seq(Seq(E))
  PROVE  \E g : Joins(g, ss, E) /\ FlattenSeq(ss) = g[Len(ss)]
<1> DEFINE n == Len(ss)
           step == [i \in 1 .. n |-> [s \in Seq(E) |-> s \o ss[i]]]
<1>1. n \in Nat /\ <<>> \in Seq(E) /\ \A i \in 1 .. n : ss[i] \in Seq(E)
  OBVIOUS
<1>2. \A s, t \in Seq(E) : s \o t \in Seq(E)
  BY ConcatProperties
<1>3. step \in [1 .. n -> [Seq(E) -> Seq(E)]]
  BY <1>1, <1>2
<1>4. \A i \in 1 .. n : \A s \in Seq(E) : step[i][s] = s \o ss[i]
  OBVIOUS
<1> HIDE DEF step, n
<1>5. PICK g \in [0 .. n -> Seq(E)] : Steps(g, n, <<>>, step)
  BY <1>1, <1>3, Recursion
<1>6. g[0] = <<>>
  BY <1>1, <1>5 DEF Steps
<1>7. ASSUME NEW i \in 1 .. n PROVE g[i] = g[i - 1] \o ss[i]
  <2>1. i \in 0 .. n /\ i # 0 /\ i - 1 \in 0 .. n
    BY <1>1
  <2>2. g[i] = step[i][g[i - 1]] /\ g[i - 1] \in Seq(E)
    BY <1>5, <2>1 DEF Steps
  <2> QED BY <1>4, <2>2
<1>8. Joins(g, ss, E)
  BY <1>5, <1>6, <1>7 DEF Joins, n
<1>9. CASE n = 0
  <2>1. ss = <<>>
    BY <1>9 DEF n
  <2>2. FlattenSeq(ss) = <<>>
    BY <1>9, <2>1 DEF FlattenSeq, n
  <2> QED BY <1>6, <1>8, <1>9, <2>2 DEF n
<1>10. CASE n # 0
  <2> DEFINE Eq(f) == f = [i \in 1 .. n |-> IF i = 1 THEN ss[i] ELSE f[i - 1] \o ss[i]]
             flatten == CHOOSE f : Eq(f)
             h == [i \in 1 .. n |-> g[i]]
  <2>1. FlattenSeq(ss) = flatten[n]
    BY <1>10 DEF FlattenSeq, n
  <2>2. Eq(h)
    <3>1. ASSUME NEW i \in 1 .. n
          PROVE  h[i] = IF i = 1 THEN ss[i] ELSE h[i - 1] \o ss[i]
      <4>1. CASE i = 1
        <5>1. g[1] = <<>> \o ss[1] /\ ss[1] \in Seq(E)
          <6>1. g[i] = g[i - 1] \o ss[i]
            BY <1>7, Zenon
          <6>2. ss[i] \in Seq(E)
            BY <1>1
          <6>3. i - 1 = 0
            BY <4>1
          <6> QED BY <1>6, <4>1, <6>1, <6>2, <6>3, Zenon
        <5>2. <<>> \o ss[1] = ss[1]
          BY <5>1, ConcatEmptySeq
        <5> QED BY <4>1, <5>1, <5>2
      <4>2. CASE i # 1
        <5>1. i - 1 \in 1 .. n
          BY <1>1, <4>2
        <5> QED BY <1>7, <4>2, <5>1
      <4> QED BY <4>1, <4>2
    <3> QED BY <3>1
  <2>3. Eq(flatten)
    BY <2>2
  <2> HIDE DEF flatten
  <2> DEFINE f == [i \in 0 .. n |-> IF i = 0 THEN <<>> ELSE flatten[i]]
  <2>4. f[0] = g[0]
    BY <1>1, <1>6
  <2>5. ASSUME NEW i \in 1 .. n, f[i - 1] = g[i - 1] PROVE f[i] = g[i]
    <3>1. i \in 0 .. n /\ i # 0 /\ i - 1 \in 0 .. n
      BY <1>1
    <3>2. f[i] = flatten[i]
      BY <3>1
    <3>3. CASE i = 1
      BY <2>2, <2>3, <3>2, <3>3
    <3>4. CASE i # 1
      <4>1. i - 1 \in 1 .. n /\ i - 1 # 0
        BY <1>1, <3>4
      <4>2. flatten[i] = flatten[i - 1] \o ss[i]
        BY <2>3, <3>4
      <4>3. f[i - 1] = flatten[i - 1]
        BY <3>1, <4>1
      <4> QED BY <1>7, <2>5, <3>2, <4>2, <4>3
    <3> QED BY <3>3, <3>4
  <2>6. f[n] = flatten[n]
    BY <1>1, <1>10
  <2> HIDE DEF f
  <2>7. \A i \in 0 .. n : f[i] = g[i]
    <3>1. Keeps(f, g, n)
      BY <2>5 DEF Keeps
    <3>2. Alike(f, g, n)
      BY <1>1, <2>4, <3>1, AlikeUp, Zenon
    <3> QED BY <3>2 DEF Alike
  <2>8. flatten[n] = g[n]
    BY <1>1, <2>6, <2>7
  <2> QED BY <1>8, <2>1, <2>8 DEF n
<1> QED BY <1>9, <1>10

LEMMA FlattenNothing == FlattenSeq(<<>>) = <<>>
BY DEF FlattenSeq

LEMMA FlattenAppend ==
  ASSUME NEW E, NEW ss \in Seq(Seq(E)), NEW s \in Seq(E)
  PROVE  /\ FlattenSeq(ss) \in Seq(E) /\ FlattenSeq(Append(ss, s)) \in Seq(E)
         /\ FlattenSeq(Append(ss, s)) = FlattenSeq(ss) \o s
<1> DEFINE tt == Append(ss, s)
<1>1. PICK n \in Nat : n = Len(ss)
  OBVIOUS
<1>2. /\ tt \in Seq(Seq(E)) /\ Len(tt) = n + 1 /\ tt[n + 1] = s
      /\ \A i \in 1 .. n : tt[i] = ss[i]
  BY <1>1
<1> HIDE DEF tt
<1>3. PICK g : Joins(g, ss, E) /\ FlattenSeq(ss) = g[n]
  BY <1>1, FlattenIs
<1>4. PICK h : Joins(h, tt, E) /\ FlattenSeq(tt) = h[n + 1]
  BY <1>2, FlattenIs
<1>5. h[0] = g[0]
  BY <1>3, <1>4 DEF Joins
<1>6. ASSUME NEW i \in 1 .. n, h[i - 1] = g[i - 1] PROVE h[i] = g[i]
  <2>1. i \in 1 .. n + 1 /\ tt[i] = ss[i]
    BY <1>2
  <2>2. h[i] = h[i - 1] \o tt[i] /\ g[i] = g[i - 1] \o ss[i]
    BY <1>1, <1>2, <1>3, <1>4, <2>1 DEF Joins
  <2> QED BY <1>6, <2>1, <2>2
<1>7. \A i \in 0 .. n : h[i] = g[i]
  <2>1. Keeps(h, g, n)
    BY <1>6 DEF Keeps
  <2>2. Alike(h, g, n)
    BY <1>5, <2>1, AlikeUp, Zenon
  <2> QED BY <2>2 DEF Alike
<1>8. h[n + 1] = h[n] \o s
  <2>1. n + 1 \in 1 .. n + 1 /\ (n + 1) - 1 = n
    OBVIOUS
  <2>2. h[n + 1] = h[(n + 1) - 1] \o tt[n + 1]
    BY <1>2, <1>4, <2>1 DEF Joins
  <2> QED BY <1>2, <2>1, <2>2
<1>9. h[n] = g[n] /\ g[n] \in Seq(E) /\ h[n + 1] \in Seq(E)
  <2>1. n \in 0 .. n /\ n \in 0 .. n + 1 /\ n + 1 \in 0 .. n + 1
    OBVIOUS
  <2>2. g \in [0 .. n -> Seq(E)] /\ h \in [0 .. n + 1 -> Seq(E)]
    BY <1>1, <1>2, <1>3, <1>4 DEF Joins
  <2> QED BY <1>7, <2>1, <2>2
<1> QED BY <1>3, <1>4, <1>8, <1>9 DEF tt
-----------------------------------------------------------------------------
(* The download.                                                           *)

\* Sequences of messages; a name of its own keeps the provers from looking in.
Messages == Seq(Seq(Byte))

\* What a sequence is that is another one and an element more.
LEMMA AppendIs ==
  ASSUME NEW E, NEW D \in Seq(E), NEW d \in E, NEW n \in Nat, n = Len(D),
         NEW F, F = [i \in 1 .. n + 1 |-> IF i <= n THEN D[i] ELSE d]
  PROVE  F = Append(D, d)
<1>1. \A i \in 1 .. n : D[i] \in E
  OBVIOUS
<1>2. F \in [1 .. n + 1 -> E] /\ F[n + 1] = d /\ \A i \in 1 .. n : F[i] = D[i]
  BY <1>1
<1>3. F \in Seq(E) /\ Len(F) = n + 1
  BY <1>2
<1>4. /\ Append(D, d) \in Seq(E) /\ Len(Append(D, d)) = n + 1 /\ Append(D, d)[n + 1] = d
      /\ \A i \in 1 .. n : Append(D, d)[i] = D[i]
  BY AppendProperties
<1>5. ASSUME NEW i \in 1 .. n + 1 PROVE F[i] = Append(D, d)[i]
  <2>1. CASE i <= n
    BY <1>2, <1>4, <2>1
  <2>2. CASE i = n + 1
    BY <1>2, <1>4, <2>2, Zenon
  <2>3. i <= n \/ i = n + 1
    OBVIOUS
  <2> QED BY <2>1, <2>2, <2>3, Zenon
<1> QED BY <1>3, <1>4, <1>5, SeqEqual

\* The bytes of each page from the k-th on.
Tails(ps, k) == [i \in DOMAIN ps |-> SubSeq(ps[i], k, Len(ps[i]))]

LEMMA TailIs ==
  ASSUME NEW p \in Seq(Byte), NEW k \in Nat, k > 0 PROVE SubSeq(p, k, Len(p)) \in Seq(Byte)
<1>1. \A i \in k .. Len(p) : p[i] \in Byte
  OBVIOUS
<1> QED BY <1>1, SubSeqProperties

LEMMA TailsGrow ==
  ASSUME NEW ps \in Messages, NEW p \in Seq(Byte), NEW k \in Nat, k > 0
  PROVE  /\ Tails(ps, k) \in Messages /\ Len(Tails(ps, k)) = Len(ps)
         /\ Tails(Append(ps, p), k) = Append(Tails(ps, k), SubSeq(p, k, Len(p)))
<1>1. PICK n \in Nat : n = Len(ps) /\ DOMAIN ps = 1 .. n
  BY DEF Messages
<1>2. \A i \in 1 .. n : ps[i] \in Seq(Byte)
  BY <1>1 DEF Messages
<1>3. Tails(ps, k) \in Messages /\ Len(Tails(ps, k)) = n
  <2>1. \A i \in 1 .. n : SubSeq(ps[i], k, Len(ps[i])) \in Seq(Byte)
    BY <1>2, TailIs
  <2>2. Tails(ps, k) \in [1 .. n -> Seq(Byte)]
    BY <1>1, <2>1 DEF Tails
  <2> QED BY <2>2 DEF Messages
<1>4. /\ DOMAIN Append(ps, p) = 1 .. n + 1 /\ Append(ps, p)[n + 1] = p
      /\ \A i \in 1 .. n : Append(ps, p)[i] = ps[i]
  BY <1>1 DEF Messages
<1> DEFINE d == SubSeq(p, k, Len(p))
           D == Tails(ps, k)
           F == Tails(Append(ps, p), k)
<1>5. d \in Seq(Byte)
  BY TailIs
<1>6. F = [i \in 1 .. n + 1 |-> IF i <= n THEN D[i] ELSE d]
  BY <1>1, <1>4 DEF Tails
<1> HIDE DEF d, D, F
<1>7. F = Append(D, d)
  BY <1>3, <1>5, <1>6, AppendIs DEF Messages, D
<1> QED BY <1>1, <1>3, <1>7 DEF D, d, F

\* The data of the chunks ps; each of them at its place, in a text w; and all of
\* one mind about its length.
DataOf(ps) == Tails(ps, 12)
Placed(ps, w) ==
  /\ w = FlattenSeq(DataOf(ps))
  /\ \A i \in DOMAIN ps : GetU32(ps[i], 2) = Len(FlattenSeq(SubSeq(DataOf(ps), 1, i - 1)))
Totals(ps, total) == \A i \in DOMAIN ps : GetU32(ps[i], 6) = total

LEMMA SameNumbers ==
  ASSUME NEW b, NEW c, NEW at \in Nat, \A i \in at + 1 .. at + 4 : b[i] = c[i]
  PROVE  GetU16(b, at) = GetU16(c, at) /\ GetU32(b, at) = GetU32(c, at)
<1>1. b[at + 1] = c[at + 1] /\ b[at + 2] = c[at + 2]
  OBVIOUS
<1>2. b[(at + 2) + 1] = c[(at + 2) + 1] /\ b[(at + 2) + 2] = c[(at + 2) + 2]
  OBVIOUS
<1>3. GetU16(b, at) = GetU16(c, at)
  BY <1>1, Zenon DEF GetU16
<1>4. GetU16(b, at + 2) = GetU16(c, at + 2)
  BY <1>2, Zenon DEF GetU16
<1> QED BY <1>3, <1>4 DEF GetU32

\* A chunk for the end of the text takes its place there.
LEMMA PlacedNext ==
  ASSUME NEW ps \in Messages, NEW p \in Seq(Byte), NEW w \in Seq(Byte),
         Placed(ps, w), GetU32(p, 2) = Len(w)
  PROVE  Placed(Append(ps, p), w \o SubSeq(p, 12, Len(p)))
<1> DEFINE d == SubSeq(p, 12, Len(p))
           qs == Append(ps, p)
           D == DataOf(ps)
<1>1. PICK n \in Nat : n = Len(ps) /\ DOMAIN ps = 1 .. n
  BY DEF Messages
<1>2. D \in Seq(Seq(Byte)) /\ Len(D) = n /\ DataOf(qs) = Append(D, d) /\ d \in Seq(Byte)
  <2>1. PICK k \in Nat : k = 12 /\ k > 0
    OBVIOUS
  <2>2. SubSeq(p, k, Len(p)) \in Seq(Byte)
    BY <2>1, TailIs
  <2>3. /\ Tails(ps, k) \in Messages /\ Len(Tails(ps, k)) = Len(ps)
        /\ Tails(qs, k) = Append(Tails(ps, k), SubSeq(p, k, Len(p)))
    BY <2>1, TailsGrow, Zenon
  <2> QED BY <1>1, <2>1, <2>2, <2>3, Zenon DEF DataOf, Messages
<1>3. w = FlattenSeq(D) /\ \A i \in 1 .. n : GetU32(ps[i], 2) = Len(FlattenSeq(SubSeq(D, 1, i - 1)))
  BY <1>1 DEF Placed
<1>4. DOMAIN qs = 1 .. n + 1 /\ qs[n + 1] = p /\ \A i \in 1 .. n : qs[i] = ps[i]
  BY <1>1 DEF Messages
<1> HIDE DEF d, qs, D
<1>5. w \o d = FlattenSeq(DataOf(qs))
  BY <1>2, <1>3, FlattenAppend
<1>6. ASSUME NEW i \in 1 .. n + 1 PROVE SubSeq(DataOf(qs), 1, i - 1) = SubSeq(D, 1, i - 1)
  <2>1. \A j \in 1 .. n : Append(D, d)[j] = D[j]
    BY <1>2
  <2>2. \A j \in 1 .. i - 1 : Append(D, d)[j] = D[j]
    <3>1. \A j \in 1 .. i - 1 : j \in 1 .. n
      OBVIOUS
    <3> QED BY <2>1, <3>1
  <2>3. /\ SubSeq(Append(D, d), 1, i - 1) = [j \in 1 .. i - 1 |-> Append(D, d)[j]]
        /\ SubSeq(D, 1, i - 1) = [j \in 1 .. i - 1 |-> D[j]]
    BY <1>2
  <2> QED BY <1>2, <2>2, <2>3
<1>7. ASSUME NEW i \in 1 .. n + 1
      PROVE  GetU32(qs[i], 2) = Len(FlattenSeq(SubSeq(DataOf(qs), 1, i - 1)))
  <2>1. CASE i <= n
    <3>1. i \in 1 .. n
      BY <2>1
    <3>2. GetU32(ps[i], 2) = Len(FlattenSeq(SubSeq(D, 1, i - 1))) /\ qs[i] = ps[i]
      BY <1>3, <1>4, <3>1
    <3>3. SubSeq(DataOf(qs), 1, i - 1) = SubSeq(D, 1, i - 1)
      BY <1>6
    <3> QED BY <3>2, <3>3
  <2>2. CASE i = n + 1
    <3>1. SubSeq(D, 1, n) = D /\ i - 1 = n
      BY <1>2, <2>2, SubSeqFull
    <3>2. SubSeq(DataOf(qs), 1, i - 1) = D
      <4>1. SubSeq(DataOf(qs), 1, i - 1) = SubSeq(D, 1, i - 1)
        BY <1>6
      <4> QED BY <3>1, <4>1
    <3> QED BY <1>3, <1>4, <2>2, <3>2
  <2> QED BY <2>1, <2>2
<1>8. Placed(qs, w \o d)
  BY <1>4, <1>5, <1>7 DEF Placed
<1> QED BY <1>8 DEF qs, d

LEMMA TotalsNext ==
  ASSUME NEW ps \in Messages, NEW p \in Seq(Byte), NEW total,
         Totals(ps, total), GetU32(p, 6) = total
  PROVE  Totals(Append(ps, p), total)
<1>1. PICK n \in Nat : n = Len(ps) /\ DOMAIN ps = 1 .. n
  BY DEF Messages
<1>2. /\ DOMAIN Append(ps, p) = 1 .. n + 1 /\ Append(ps, p)[n + 1] = p
      /\ \A i \in 1 .. n : Append(ps, p)[i] = ps[i]
  BY <1>1 DEF Messages
<1> QED BY <1>1, <1>2 DEF Totals

LEMMA NothingPlaced == Placed(<<>>, <<>>) /\ \A total : Totals(<<>>, total)
<1>1. DOMAIN <<>> = {}
  OBVIOUS
<1>2. DataOf(<<>>) = <<>>
  BY <1>1 DEF DataOf, Tails
<1> QED BY <1>1, <1>2, FlattenNothing DEF Placed, Totals

\* The chunks of ps have been written.
Taken(ps) == /\ Placed(ps, written) /\ Totals(ps, total_size)
             /\ ps # <<>> => have_total = TRUE

Message == SubSeq(packet, 1, received)
Reading == \E ps \in Messages : pages = Append(ps, Message) /\ Taken(ps)

\* Between chunks all of them has been taken, within one those before it.
DownloadInv ==
  call = "download" =>
    /\ stage # "returned" => outcome = "none"
    /\ stage \in {"build", "exchange", "check"} => Taken(pages)
    /\ stage = "read" => Reading
    /\ outcome = "ok" => Placed(pages, written) /\ Totals(pages, Len(written))

LEMMA DownloadBegins == HostedInit => DownloadInv
BY NothingPlaced DEF HostedInit, DownloadInv, Taken

LEMMA MessageIs ==
  ASSUME ClientInv
  PROVE  /\ Message \in Seq(Byte) /\ Len(Message) = received
         /\ \A i \in 1 .. received : Message[i] = packet[i]
         /\ \A i \in 1 .. received : packet[i] \in Byte
<1>1. packet \in Buffers /\ received \in 0 .. PacketMax /\ PacketMax \in Nat
  BY PacketAssumption DEF ClientInv, BufferOK
<1>2. \A i \in 1 .. received : packet[i] \in Byte
  BY <1>1 DEF Buffers
<1>3. PICK n \in Nat : n = received
  BY <1>1
<1>4. SubSeq(packet, 1, n) = [i \in 1 .. n |-> packet[i]]
  BY <1>3
<1>5. Message = [i \in 1 .. n |-> packet[i]]
  BY <1>3, <1>4 DEF Message
<1> QED BY <1>2, <1>3, <1>5

LEMMA ChunkTaken ==
  ASSUME ClientInv, DownloadInv, TakeChunk PROVE DownloadInv'
<1>0. PICK from, total, size : /\ from = GetU32(packet, 2) /\ total = GetU32(packet, 6)
                              /\ size = packet[11]
  OBVIOUS
<1> DEFINE data == SubSeq(packet, 12, 11 + size)
           Fits == /\ from = offset /\ received = 11 + size
                   /\ have_total => total = total_size
                   /\ total_size' = total /\ have_total' = TRUE
           Writes == /\ written' = written \o data /\ offset' = offset + size
                     /\ IF offset' = total_size' THEN Return("ok") ELSE Go("build")
<1>1. /\ stage = "read" /\ call = "download" /\ call' = call /\ pages' = pages
      /\ \/ Return("invalid response")
         \/ Fits /\ (Return("write failed") \/ Writes)
  BY <1>0 DEF TakeChunk, Chunk, SameTotal, inputVars, histVars
<1>2. /\ outcome = "none" /\ Reading
      /\ written \in Seq(Byte) /\ offset = Len(written)
  BY <1>1 DEF DownloadInv, ClientInv, ChunkOK
<1>3. PICK ps \in Messages : pages = Append(ps, Message) /\ Taken(ps)
  BY <1>2 DEF Reading
<1>4. CASE Return("invalid response") \/ Return("write failed")
  BY <1>1, <1>4 DEF Return, DownloadInv
<1>5. CASE Fits /\ Writes
  <2>2. PICK s \in Nat : s = size /\ received = 11 + s
    <3>1. packet[11] \in Byte
      <4>1. 11 \in 1 .. PacketMax
        BY PacketAssumption
      <4> QED BY <4>1 DEF ClientInv, BufferOK, Buffers
    <3>2. size \in Nat
      BY <1>0, <3>1 DEF Byte
    <3>3. received = 11 + size
      BY <1>5, Zenon
    <3> QED BY <3>2, <3>3
  <2>3. /\ Message \in Seq(Byte) /\ Len(Message) = 11 + s
        /\ \A i \in 1 .. 11 + s : Message[i] = packet[i]
    BY <2>2, MessageIs
  <2>4. GetU32(Message, 2) = offset /\ GetU32(Message, 6) = total
    <3>1. \A i \in 1 .. 11 : Message[i] = packet[i]
      BY <2>2, <2>3
    <3>2. GetU32(Message, 2) = GetU32(packet, 2) /\ GetU32(Message, 6) = GetU32(packet, 6)
      BY <3>1, SameNumbers
    <3> QED BY <1>0, <1>5, <3>2, Zenon
  <2>5. SubSeq(Message, 12, Len(Message)) = data
    <3>1. \A i \in 12 .. 11 + s : Message[i] = packet[i]
      BY <2>2, <2>3
    <3>2. PICK k \in Int : k = 11 + s
      BY <2>2
    <3>3. SubSeq(Message, 12, k) = [i \in 1 .. k - 11 |-> Message[i + 11]]
      BY <3>2
    <3>4. SubSeq(packet, 12, k) = [i \in 1 .. k - 11 |-> packet[i + 11]]
      BY <3>2
    <3>5. SubSeq(Message, 12, k) = SubSeq(packet, 12, k)
      BY <3>1, <3>2, <3>3, <3>4
    <3> QED BY <2>2, <2>3, <3>2, <3>5
  <2>6. Placed(pages', written')
    <3>1. Placed(ps, written) /\ GetU32(Message, 2) = Len(written)
      BY <1>2, <1>3, <2>4, Zenon DEF Taken
    <3>2. Placed(Append(ps, Message), written \o SubSeq(Message, 12, Len(Message)))
      BY <1>2, <2>3, <3>1, PlacedNext, Zenon
    <3>3. pages' = Append(ps, Message) /\ written' = written \o SubSeq(Message, 12, Len(Message))
      BY <1>1, <1>3, <1>5, <2>5, Zenon
    <3> QED BY <3>2, <3>3, Zenon
  <2>7. Totals(pages', total_size')
    <3>1. Totals(ps, total)
      <4>1. CASE ps = <<>>
        BY <4>1, NothingPlaced
      <4>2. CASE ps # <<>>
        <5>1. Totals(ps, total_size) /\ have_total
          BY <1>3, <4>2, Zenon DEF Taken
        <5>2. total = total_size
          BY <1>5, <5>1, Zenon
        <5> QED BY <5>1, <5>2
      <4> QED BY <4>1, <4>2
    <3> QED BY <1>1, <1>3, <1>5, <2>3, <2>4, <3>1, TotalsNext
  <2>8. offset' = Len(written')
    <3>1. data \in Seq(Byte) /\ Len(data) = s
      <4>1. Len(SubSeq(Message, 12, Len(Message))) = s
        BY <2>2, <2>3
      <4>2. 12 \in Nat /\ 12 > 0
        OBVIOUS
      <4>3. SubSeq(Message, 12, Len(Message)) \in Seq(Byte)
        BY <2>3, <4>2, TailIs, Zenon
      <4> QED BY <2>5, <4>1, <4>3, Zenon
    <3>2. Len(written \o data) = Len(written) + s
      BY <1>2, <3>1, Joined, Zenon
    <3> QED BY <1>2, <1>5, <2>2, <3>2
  <2>9. CASE offset' = total_size' /\ Return("ok")
    BY <1>1, <2>6, <2>7, <2>8, <2>9 DEF DownloadInv, Return
  <2>10. CASE Go("build")
    <3>1. Taken(pages)'
      BY <1>5, <2>6, <2>7 DEF Taken
    <3> QED BY <1>1, <1>2, <2>10, <3>1 DEF DownloadInv, Go
  <2> QED BY <1>5, <2>9, <2>10
<1> QED BY <1>1, <1>4, <1>5

LEMMA DownloadStep ==
  ASSUME ClientInv, DownloadInv, [HostedNext]_hostedVars PROVE DownloadInv'
<1> SUFFICES ASSUME call' = "download" PROVE DownloadInv'
  BY DEF DownloadInv
<1>1. call = "download"
  BY DEF HostedNext, hostedVars, inputVars, BuildRequest, ExchangeFails, Exchange, NoAnswer,
     ServerError, Accept, CheckCapabilities, VisitEntry, CollectValue, EndOfPage, TakeChunk,
     Returned
<1>2. CASE TakeChunk
  BY <1>2, ChunkTaken
<1>3. CASE Accept
  <2>1. /\ stage = "check" /\ stage' = "read" /\ outcome' = outcome
        /\ pages' = Append(pages, Message)
        /\ UNCHANGED <<call, packet, received, written, total_size, have_total>>
    BY <1>3 DEF Accept, Go, Message, inputVars, bufferVars, chunkVars
  <2>2. Taken(pages) /\ outcome = "none" /\ pages \in Messages
    BY <1>1, <2>1 DEF DownloadInv, ClientInv, CursorOK, Messages
  <2>4. Reading'
    <3>1. Message' = Message
      BY <2>1 DEF Message
    <3>2. pages' = Append(pages, Message')
      BY <2>1, <3>1
    <3>3. /\ Placed(pages, written') /\ Totals(pages, total_size')
          /\ pages # <<>> => have_total' = TRUE
      BY <2>1, <2>2, Zenon DEF Taken
    <3> QED BY <2>2, <3>2, <3>3 DEF Reading, Taken
  <2> QED BY <1>1, <2>1, <2>2, <2>4 DEF DownloadInv
\* The others write nothing.
<1> DEFINE Rests == /\ UNCHANGED <<call, written, total_size, have_total, pages>>
                    /\ stage \in {"build", "exchange", "check"} \/ stage' = stage
                    /\ stage # "read"
                    /\ \/ stage' \in {"exchange", "check", stage} /\ outcome' = outcome
                       \/ stage' = "returned" /\ outcome' # "ok"
<1>4. CASE Rests
  <2>1. Taken(pages) = Taken(pages)'
    BY <1>4 DEF Taken
  <2>2. CASE stage = "returned" \/ stage' = "returned"
    BY <1>1, <1>4, <2>2 DEF DownloadInv
  <2>3. CASE stage # "returned" /\ stage' # "returned"
    <3>1. stage \in Stages
      BY DEF ClientInv, CursorOK
    <3>2. stage \in {"build", "exchange", "check"}
      BY <1>4, <2>3, <3>1 DEF Stages
    <3>3. Taken(pages) /\ outcome = "none"
      BY <1>1, <3>2 DEF DownloadInv
    <3> QED BY <1>4, <2>1, <2>3, <3>3 DEF DownloadInv
  <2> QED BY <2>2, <2>3
<1>5. BuildRequest => Rests
  BY <1>1 DEF BuildRequest, BuildDownload, Catalog, Go, Return, inputVars, chunkVars, histVars
<1>6. ExchangeFails \/ NoAnswer \/ ServerError \/ Exchange => Rests
  BY DEF ExchangeFails, NoAnswer, ServerError, Exchange, Go, Return, inputVars, chunkVars, histVars
<1>7. ~(CheckCapabilities \/ VisitEntry \/ CollectValue \/ EndOfPage)
  BY <1>1 DEF CheckCapabilities, VisitEntry, CollectValue, EndOfPage, Catalog
<1>8. Returned \/ UNCHANGED hostedVars => UNCHANGED hostedVars
  BY DEF Returned
<1>9. CASE UNCHANGED hostedVars
  BY <1>9 DEF hostedVars, inputVars, bufferVars, chunkVars, histVars, DownloadInv, Taken, Reading,
     Message
<1> HIDE DEF Rests
<1> QED BY <1>2, <1>3, <1>4, <1>5, <1>6, <1>7, <1>8, <1>9 DEF HostedNext

\* At every step of a download what is written is the data of the chunks taken.
THEOREM DownloadKnown == HostedSpec => []DownloadInv
BY ClientKnown, DownloadBegins, DownloadStep, PTL DEF HostedSpec

\* What is written is what the chunks held, each at the place it claims; and the
\* download is complete only when that is as long as every one of them said
\* (paket_fetch_download in client.c).
THEOREM DownloadIsExact == HostedSpec => []DownloadExact
<1>1. ASSUME DownloadInv PROVE DownloadExact
  <2>1. SUFFICES ASSUME call = "download", stage = "build" \/ outcome = "ok"
                 PROVE  /\ Placed(pages, written)
                        /\ outcome = "ok" => Totals(pages, Len(written))
    BY Zenon DEF DownloadExact, Placed, Totals, DataOf, Tails
  <2> QED BY <1>1, <2>1 DEF DownloadInv, Taken
<1> QED BY <1>1, DownloadKnown, PTL
-----------------------------------------------------------------------------
(* The elements of a page that is whole.                                   *)

\* In a walk that comes to an end no step stops short.
LEMMA WalkWhole ==
  ASSUME NEW r \in Buffers, NEW n \in 5 .. PacketMax, NEW lead \in {0, 1}, NEW count \in Nat,
         NEW f, Walks(f, count, r, n, lead), f[count] # More
  PROVE  /\ \A k \in 0 .. count : f[k] \in 5 .. n
         /\ \A k \in 1 .. count :
              /\ f[k - 1] + lead < n
              /\ r[f[k - 1] + lead + 1] \in Byte
              /\ f[k] = f[k - 1] + lead + 1 + r[f[k - 1] + lead + 1]
<1>1. /\ f \in [0 .. count -> 0 .. n] /\ f[0] = 5
      /\ \A k \in 1 .. count : f[k] = Further(r, n, lead, f[k - 1])
      /\ n \in Nat /\ n \in 0 .. PacketMax
  BY PacketAssumption DEF Walks
<1>2. ASSUME NEW k \in 0 .. count PROVE f[k] # More
  <2> DEFINE T == {j \in k .. count : f[j] # More}
  <2>1. SUFFICES ASSUME f[k] = More PROVE FALSE
    OBVIOUS
  <2>2. T \subseteq Nat /\ count \in T
    BY <1>1
  <2> HIDE DEF T
  <2>3. PICK x \in T : \A y \in T : x <= y
    BY <2>2, Least
  <2> USE DEF T
  <2>4. x \in k .. count /\ x # k /\ f[x] # More
    BY <2>1
  <2>5. x - 1 \in k .. count /\ x \in 1 .. count
    BY <2>4
  <2>6. f[x - 1] = More
    BY <2>3, <2>5
  <2>7. f[x] = More
    BY <1>1, <2>5, <2>6 DEF Further
  <2> QED BY <2>4, <2>7
<1>3. ASSUME NEW k \in 1 .. count
      PROVE  /\ f[k - 1] + lead < n
             /\ r[f[k - 1] + lead + 1] \in Byte
             /\ f[k] = f[k - 1] + lead + 1 + r[f[k - 1] + lead + 1]
             /\ f[k] >= f[k - 1]
  <2>1. k - 1 \in 0 .. count /\ k \in 0 .. count
    OBVIOUS
  <2>2. PICK u \in 0 .. n : u = f[k - 1]
    BY <1>1, <2>1
  <2>3. Further(r, n, lead, u) # More /\ f[k] = Further(r, n, lead, u)
    BY <1>1, <1>2, <2>1, <2>2
  <2>4. /\ u + lead < n /\ r[u + lead + 1] \in Byte
        /\ f[k] = u + lead + 1 + r[u + lead + 1]
    BY <1>1, <2>3, FurtherIs
  <2>5. PICK b \in Byte : b = r[u + lead + 1]
    BY <2>4
  <2>6. f[k] >= u
    BY <2>4, <2>5 DEF Byte
  <2> QED BY <2>2, <2>4, <2>6
<1>4. \A k \in 0 .. count : f[k] \in 5 .. n
  <2> DEFINE S == 5 .. n
  <2>1. f[0] \in S
    BY <1>1
  <2>2. ASSUME NEW k \in 1 .. count, f[k - 1] \in S PROVE f[k] \in S
    <3>1. f[k] \in 0 .. n
      BY <1>1
    <3> QED BY <1>1, <1>3, <2>2, <3>1
  <2> HIDE DEF S
  <2>3. \A k \in 0 .. count : f[k] \in S
    BY <2>1, <2>2, Climbs
  <2> QED BY <2>3 DEF S
<1> QED BY <1>3, <1>4

LEMMA BufferIsSeq ==
  ASSUME NEW r \in Buffers
  PROVE  r \in Seq(Byte) /\ Len(r) = PacketMax /\ \A i \in 1 .. PacketMax : r[i] \in Byte
BY PacketAssumption DEF Buffers

LEMMA ByteIs == \A b \in Byte : b \in Nat /\ b <= 255
BY DEF Byte

\* A part of a sequence of bytes.
LEMMA PartIs ==
  ASSUME NEW r \in Seq(Byte), NEW m \in 0 .. Len(r), NEW k \in m .. Len(r)
  PROVE  /\ SubSeq(r, m + 1, k) \in Seq(Byte)
         /\ Len(SubSeq(r, m + 1, k)) = k - m
         /\ \A i \in 1 .. k - m : SubSeq(r, m + 1, k)[i] = r[m + i]
<1>1. Len(r) \in Nat
  OBVIOUS
<1>2. \A i \in m + 1 .. k : r[i] \in Byte
  BY <1>1
<1>3. m + 1 \in Int /\ k \in Int
  BY <1>1
<1>4. /\ SubSeq(r, m + 1, k) \in Seq(Byte)
      /\ Len(SubSeq(r, m + 1, k)) = IF m + 1 <= k THEN k - (m + 1) + 1 ELSE 0
      /\ \A i \in 1 .. k - (m + 1) + 1 : SubSeq(r, m + 1, k)[i] = r[(m + 1) + i - 1]
  BY <1>2, <1>3, SubSeqProperties
<1>5. (IF m + 1 <= k THEN k - (m + 1) + 1 ELSE 0) = k - m /\ k - (m + 1) + 1 = k - m
  BY <1>1
<1>6. \A i \in 1 .. k - m : SubSeq(r, m + 1, k)[i] = r[m + i]
  <2>1. ASSUME NEW i \in 1 .. k - m PROVE (m + 1) + i - 1 = m + i
    BY <1>1
  <2> QED BY <1>4, <1>5, <2>1
<1> QED BY <1>4, <1>5, <1>6

LEMMA PartsJoin ==
  ASSUME NEW r \in Seq(Byte), NEW m \in 0 .. Len(r), NEW k \in m .. Len(r),
         NEW n \in k .. Len(r)
  PROVE  SubSeq(r, m + 1, k) \o SubSeq(r, k + 1, n) = SubSeq(r, m + 1, n)
<1>1. Len(r) \in Nat
  OBVIOUS
<1>2. m + 1 \in 1 .. Len(r) + 1 /\ k \in (m + 1) - 1 .. Len(r) /\ n \in k .. Len(r)
  BY <1>1
<1> QED BY <1>1, <1>2, ConcatAdjacentSubSeq

\* A field is read whole (View).
ViewIn(r, at) == SubSeq(r, at + 2, at + 1 + r[at + 1])

LEMMA FieldIn ==
  ASSUME NEW r \in Seq(Byte), NEW u \in Nat, NEW b \in Byte, b = r[u + 1], u + 1 + b <= Len(r)
  PROVE  /\ ViewIn(r, u) \in Seq(Byte) /\ Len(ViewIn(r, u)) = b
         /\ Field(ViewIn(r, u)) = SubSeq(r, u + 1, u + 1 + b)
<1> DEFINE v == ViewIn(r, u)
<1>1. Len(r) \in Nat /\ b \in Nat
  BY ByteIs
<1>2. u \in 0 .. Len(r) /\ u + 1 \in u .. Len(r) /\ u + 1 \in 0 .. Len(r)
      /\ u + 1 + b \in u + 1 .. Len(r)
  BY <1>1
<1>3. PICK m \in 0 .. Len(r) : m = u + 1
  BY <1>2
<1>4. PICK k \in m .. Len(r) : k = u + 1 + b
  BY <1>2, <1>3
<1>5. v = SubSeq(r, m + 1, k)
  <2>1. m + 1 = u + 2
    BY <1>3
  <2> QED BY <1>4, <2>1 DEF ViewIn
<1> HIDE DEF v
<1>6. v \in Seq(Byte) /\ Len(v) = k - m
  BY <1>5, PartIs
<1>7. k - m = b
  BY <1>1, <1>3, <1>4
<1>8. SubSeq(r, u + 1, m) = <<b>>
  <2>1. /\ SubSeq(r, u + 1, m) \in Seq(Byte) /\ Len(SubSeq(r, u + 1, m)) = m - u
        /\ \A i \in 1 .. m - u : SubSeq(r, u + 1, m)[i] = r[u + i]
    BY <1>2, <1>3, PartIs
  <2>2. m - u = 1
    BY <1>3
  <2>3. SubSeq(r, u + 1, m)[1] = b
    BY <2>1, <2>2
  <2>4. <<b>> \in Seq(Byte) /\ Len(<<b>>) = 1 /\ <<b>>[1] = b
    OBVIOUS
  <2>5. ASSUME NEW i \in 1 .. 1 PROVE SubSeq(r, u + 1, m)[i] = <<b>>[i]
    <3>1. i = 1
      OBVIOUS
    <3> QED BY <2>3, <2>4, <3>1, Zenon
  <2> QED BY <2>1, <2>2, <2>4, <2>5, SeqEqual
<1>9. SubSeq(r, u + 1, m) \o SubSeq(r, m + 1, k) = SubSeq(r, u + 1, k)
  <2>1. m \in u .. Len(r)
    BY <1>2, <1>3
  <2> QED BY <1>2, <2>1, PartsJoin
<1>10. Field(v) = SubSeq(r, u + 1, k)
  BY <1>5, <1>6, <1>7, <1>8, <1>9, Zenon DEF Field
<1> QED BY <1>4, <1>6, <1>7, <1>10 DEF v

\* The same of the buffer.
LEMMA Stretch ==
  ASSUME NEW r \in Buffers, NEW m \in 0 .. PacketMax, NEW k \in m .. PacketMax
  PROVE  /\ SubSeq(r, m + 1, k) \in Seq(Byte)
         /\ Len(SubSeq(r, m + 1, k)) = k - m
         /\ \A i \in 1 .. k - m : SubSeq(r, m + 1, k)[i] = r[m + i]
BY BufferIsSeq, PartIs

LEMMA StretchesJoin ==
  ASSUME NEW r \in Buffers, NEW m \in 0 .. PacketMax, NEW k \in m .. PacketMax,
         NEW n \in k .. PacketMax
  PROVE  SubSeq(r, m + 1, k) \o SubSeq(r, k + 1, n) = SubSeq(r, m + 1, n)
BY BufferIsSeq, PartsJoin

LEMMA FieldRead ==
  ASSUME NEW r \in Buffers, NEW u \in Nat, NEW b \in Byte, b = r[u + 1], u + 1 + b <= PacketMax
  PROVE  /\ ViewIn(r, u) \in Seq(Byte) /\ Len(ViewIn(r, u)) = b
         /\ Field(ViewIn(r, u)) = SubSeq(r, u + 1, u + 1 + b)
BY BufferIsSeq, FieldIn

\* An entry of the catalog, from one byte to another: two fields.
EntryIs(r, from, to) ==
  LET id   == ViewIn(r, from)
      name == ViewIn(r, from + 1 + Len(id))
  IN  /\ id \in Seq(Byte) /\ name \in Seq(Byte)
      /\ from + (2 + Len(id) + Len(name)) = to
      /\ Field(id) \o Field(name) = SubSeq(r, from + 1, to)

LEMMA EntryRead ==
  ASSUME NEW r \in Buffers, NEW n \in 5 .. PacketMax, NEW count \in Nat,
         NEW f, Walks(f, count, r, n, 0), f[count] # More,
         NEW k \in Nat, k + 2 <= count
  PROVE  EntryIs(r, f[k], f[k + 2])
<1>1. PICK u \in 5 .. n, v \in 5 .. n, w \in 5 .. n : u = f[k] /\ v = f[k + 1] /\ w = f[k + 2]
  <2>1. k \in 0 .. count /\ k + 1 \in 0 .. count /\ k + 2 \in 0 .. count
    OBVIOUS
  <2> QED BY <2>1, WalkWhole
<1>2. PacketMax \in 11 .. 255 /\ n \in Nat
  BY PacketAssumption
<1>3. r[u + 1] \in Byte /\ v = u + 1 + r[u + 1]
  <2>1. k + 1 \in 1 .. count /\ (k + 1) - 1 = k
    OBVIOUS
  <2>2. /\ r[f[(k + 1) - 1] + 0 + 1] \in Byte
        /\ f[k + 1] = f[(k + 1) - 1] + 0 + 1 + r[f[(k + 1) - 1] + 0 + 1]
    BY <2>1, WalkWhole
  <2>3. u + 0 + 1 = u + 1
    OBVIOUS
  <2> QED BY <1>1, <2>1, <2>2, <2>3
<1>4. r[v + 1] \in Byte /\ w = v + 1 + r[v + 1]
  <2>1. k + 2 \in 1 .. count /\ (k + 2) - 1 = k + 1
    OBVIOUS
  <2>2. /\ r[f[(k + 2) - 1] + 0 + 1] \in Byte
        /\ f[k + 2] = f[(k + 2) - 1] + 0 + 1 + r[f[(k + 2) - 1] + 0 + 1]
    BY <2>1, WalkWhole
  <2>3. v + 0 + 1 = v + 1
    OBVIOUS
  <2> QED BY <1>1, <2>1, <2>2, <2>3
<1>5. PICK a \in Byte, b \in Byte : a = r[u + 1] /\ b = r[v + 1]
  BY <1>3, <1>4
<1>6. u \in Nat /\ v \in Nat /\ w \in Nat /\ w <= PacketMax /\ a \in Nat /\ b \in Nat
      /\ v = u + 1 + a /\ w = v + 1 + b /\ v <= PacketMax
  <2>1. v = u + 1 + a /\ w = v + 1 + b
    BY <1>3, <1>4, <1>5, Zenon
  <2>2. u \in Nat /\ v \in Nat /\ w \in Nat /\ w <= PacketMax /\ v <= PacketMax
    BY <1>2
  <2>3. a \in Nat /\ b \in Nat
    BY DEF Byte
  <2> QED BY <2>1, <2>2, <2>3, Zenon
<1> DEFINE id == ViewIn(r, u)
           name == ViewIn(r, v)
<1>7. id \in Seq(Byte) /\ Len(id) = a /\ Field(id) = SubSeq(r, u + 1, v)
  <2>1. u + 1 + a <= PacketMax
    BY <1>6
  <2>2. id \in Seq(Byte) /\ Len(id) = a /\ Field(id) = SubSeq(r, u + 1, u + 1 + a)
    BY <1>5, <1>6, <2>1, FieldRead
  <2> QED BY <1>6, <2>2
<1>8. name \in Seq(Byte) /\ Len(name) = b /\ Field(name) = SubSeq(r, v + 1, w)
  <2>1. v + 1 + b <= PacketMax
    BY <1>6
  <2>2. name \in Seq(Byte) /\ Len(name) = b /\ Field(name) = SubSeq(r, v + 1, v + 1 + b)
    BY <1>5, <1>6, <2>1, FieldRead
  <2> QED BY <1>6, <2>2
<1>9. Field(id) \o Field(name) = SubSeq(r, u + 1, w)
  <2>1. u \in 0 .. PacketMax /\ v \in u .. PacketMax /\ w \in v .. PacketMax
    BY <1>2, <1>6
  <2> QED BY <1>7, <1>8, <2>1, StretchesJoin
<1>10. u + 1 + Len(id) = v /\ u + (2 + Len(id) + Len(name)) = w
  <2> HIDE DEF id, name
  <2> QED BY <1>6, <1>7, <1>8
<1> HIDE DEF id, name
<1> QED BY <1>1, <1>7, <1>8, <1>9, <1>10, Zenon DEF id, name, EntryIs

\* A metadata value: its type and a field.
ValueIs(r, from, to) ==
  LET v == ViewIn(r, from + 1)
  IN  /\ r[from + 1] \in Byte /\ v \in Seq(Byte)
      /\ from + (2 + Len(v)) = to
      /\ <<r[from + 1]>> \o Field(v) = SubSeq(r, from + 1, to)

LEMMA ValueRead ==
  ASSUME NEW r \in Buffers, NEW n \in 5 .. PacketMax, NEW count \in Nat,
         NEW f, Walks(f, count, r, n, 1), f[count] # More,
         NEW k \in Nat, k + 1 <= count
  PROVE  ValueIs(r, f[k], f[k + 1])
<1>1. PICK t \in 5 .. n, w \in 5 .. n : t = f[k] /\ w = f[k + 1]
  <2>1. k \in 0 .. count /\ k + 1 \in 0 .. count
    OBVIOUS
  <2> QED BY <2>1, WalkWhole
<1>2. PacketMax \in 11 .. 255 /\ n \in Nat
  BY PacketAssumption
<1>3. PICK u \in Nat : u = t + 1
  OBVIOUS
<1>4. r[u + 1] \in Byte /\ w = u + 1 + r[u + 1]
  <2>1. k + 1 \in 1 .. count /\ (k + 1) - 1 = k
    OBVIOUS
  <2>2. /\ r[f[(k + 1) - 1] + 1 + 1] \in Byte
        /\ f[k + 1] = f[(k + 1) - 1] + 1 + 1 + r[f[(k + 1) - 1] + 1 + 1]
    BY <2>1, WalkWhole
  <2> QED BY <1>1, <1>3, <2>1, <2>2
<1>5. PICK b \in Byte : b = r[u + 1]
  BY <1>4
<1>6. /\ t \in Nat /\ w \in Nat /\ w <= PacketMax /\ b \in Nat /\ w = u + 1 + b /\ u < PacketMax
  BY <1>1, <1>2, <1>3, <1>4, <1>5 DEF Byte
<1> DEFINE v == ViewIn(r, u)
<1>7. v \in Seq(Byte) /\ Len(v) = b /\ Field(v) = SubSeq(r, u + 1, w)
  <2>1. u + 1 + b <= PacketMax
    BY <1>6
  <2>2. v \in Seq(Byte) /\ Len(v) = b /\ Field(v) = SubSeq(r, u + 1, u + 1 + b)
    BY <1>5, <1>6, <2>1, FieldRead
  <2> QED BY <1>6, <2>2
<1>8. r[t + 1] \in Byte /\ <<r[t + 1]>> = SubSeq(r, t + 1, u)
  <2>1. t \in 0 .. PacketMax /\ u \in t .. PacketMax /\ u - t = 1 /\ u \in 1 .. PacketMax
    BY <1>2, <1>3, <1>6
  <2>2. PICK a \in Byte : a = r[t + 1]
    BY <1>3, <2>1 DEF Buffers
  <2>3. /\ SubSeq(r, t + 1, u) \in Seq(Byte) /\ Len(SubSeq(r, t + 1, u)) = 1
        /\ \A i \in 1 .. 1 : SubSeq(r, t + 1, u)[i] = r[t + i]
    BY <2>1, Stretch
  <2>4. <<a>> \in Seq(Byte) /\ Len(<<a>>) = 1 /\ <<a>>[1] = a
    OBVIOUS
  <2>5. \A i \in 1 .. 1 : SubSeq(r, t + 1, u)[i] = <<a>>[i]
    BY <2>2, <2>3, <2>4
  <2> QED BY <2>2, <2>3, <2>4, <2>5, SeqEqual
<1>9. <<r[t + 1]>> \o Field(v) = SubSeq(r, t + 1, w)
  <2>1. t \in 0 .. PacketMax /\ u \in t .. PacketMax /\ w \in u .. PacketMax
    BY <1>2, <1>3, <1>6
  <2> QED BY <1>7, <1>8, <2>1, StretchesJoin
<1>10. t + (2 + Len(v)) = w
  BY <1>3, <1>6, <1>7
<1> HIDE DEF v
<1> QED BY <1>1, <1>3, <1>7, <1>8, <1>9, <1>10, Zenon DEF v, ValueIs
-----------------------------------------------------------------------------
(* What the caller is shown of the pages.                                  *)

\* What an element is, how many lengths it has and what stands before the first.
Entries == [id : Seq(Byte), name : Seq(Byte)]
Values  == [type : Byte, value : Seq(Byte)]
Kind    == IF Catalog THEN Entries ELSE Values
Lengths == IF Catalog THEN 2 ELSE 1
Lead    == IF Catalog THEN 0 ELSE 1

\* The elements read, and the bodies of the pages ps, as bytes.
SeenBytes == [i \in DOMAIN seen |-> Bytes(seen[i])]
Shown     == FlattenSeq(SeenBytes)
Told(ps)  == FlattenSeq(Tails(ps, 6))
SeenOK    == seen \in Seq(Kind) /\ SeenBytes \in Messages

\* Of the page that is being read, behind the pages ps, the first index elements
\* have been shown: those up to the byte used of the walk f.
OnPage(ps, f) ==
  /\ pages = Append(ps, Message)
  /\ received \in 5 .. PacketMax
  /\ packet[5] \in Nat /\ Walks(f, Lengths * packet[5], packet, received, Lead)
  /\ f[Lengths * packet[5]] = received
  /\ index \in 0 .. packet[5] /\ used = f[Lengths * index]
  /\ Shown = Told(ps) \o SubSeq(packet, 6, used)

\* Between pages all of them has been shown, within one what has been read.
PagesInv ==
  Paged =>
    /\ SeenOK
    /\ stage # "returned" => outcome = "none"
    /\ stage \in {"build", "exchange", "check"} => Shown = Told(pages)
    /\ stage = "read" => \E ps \in Messages : \E f : OnPage(ps, f)
    /\ stage = "returned" => IsPrefix(Shown, Told(pages))
    /\ outcome = "ok" /\ call # "resolve" => Shown = Told(pages)

LEMMA ToldIs ==
  ASSUME NEW ps \in Messages PROVE Told(ps) \in Seq(Byte)
<1>1. PICK k \in Nat : k = 6 /\ k > 0
  OBVIOUS
<1>2. <<>> \in Seq(Byte)
  OBVIOUS
<1>3. Tails(ps, k) \in Messages
  BY <1>1, <1>2, TailsGrow, Zenon
<1>4. FlattenSeq(Tails(ps, k)) \in Seq(Byte)
  BY <1>2, <1>3, FlattenAppend DEF Messages
<1> QED BY <1>1, <1>4 DEF Told

\* The page received is told behind the others.
LEMMA ToldNext ==
  ASSUME ClientInv, NEW ps \in Messages, received >= 5
  PROVE  Told(Append(ps, Message)) = Told(ps) \o SubSeq(packet, 6, received)
<1>1. PICK k \in Nat : k = 6 /\ k > 0
  OBVIOUS
<1>2. /\ Message \in Seq(Byte) /\ Len(Message) = received
      /\ \A i \in 1 .. received : Message[i] = packet[i]
  BY MessageIs
<1>3. SubSeq(Message, k, Len(Message)) = SubSeq(packet, 6, received)
  <2>1. PICK n \in Nat : n = received
    BY DEF ClientInv, BufferOK
  <2>2. \A i \in 1 .. n : Message[i] = packet[i]
    BY <1>2, <2>1
  <2>3. /\ SubSeq(Message, 6, n) = [i \in 1 .. n - 5 |-> Message[i + 5]]
        /\ SubSeq(packet, 6, n) = [i \in 1 .. n - 5 |-> packet[i + 5]]
    BY <2>1
  <2>4. \A i \in 1 .. n - 5 : Message[i + 5] = packet[i + 5]
    BY <2>1, <2>2
  <2>5. SubSeq(Message, 6, n) = SubSeq(packet, 6, n)
    BY <2>3, <2>4, Zenon
  <2> QED BY <1>1, <1>2, <2>1, <2>5, Zenon
<1>4. SubSeq(Message, k, Len(Message)) \in Seq(Byte)
  BY <1>1, <1>2, TailIs, Zenon
<1>5. /\ Tails(ps, k) \in Messages
      /\ Tails(Append(ps, Message), k) = Append(Tails(ps, k), SubSeq(Message, k, Len(Message)))
  BY <1>1, <1>2, TailsGrow, Zenon
<1>6. /\ FlattenSeq(Append(Tails(ps, k), SubSeq(Message, k, Len(Message))))
          = FlattenSeq(Tails(ps, k)) \o SubSeq(Message, k, Len(Message))
  BY <1>4, <1>5, FlattenAppend, Zenon DEF Messages
<1> QED BY <1>1, <1>3, <1>5, <1>6, Zenon DEF Told

LEMMA NothingShown == Told(<<>>) = <<>> /\ IsPrefix(<<>>, <<>>)
<1>1. Tails(<<>>, 6) = <<>>
  <2>1. DOMAIN <<>> = {}
    OBVIOUS
  <2> QED BY <2>1 DEF Tails
<1> QED BY <1>1, FlattenNothing DEF Told, IsPrefix

LEMMA JoinedThrice ==
  ASSUME NEW s, NEW t, NEW v, s \in Seq(Byte), t \in Seq(Byte), v \in Seq(Byte)
  PROVE  s \o (t \o v) = (s \o t) \o v
<1>1. (s \o t) \o v = s \o (t \o v)
  BY ConcatAssociative
<1> QED BY <1>1

LEMMA PrefixOfJoined ==
  ASSUME NEW s \in Seq(Byte), NEW t \in Seq(Byte) PROVE IsPrefix(s, s \o t)
<1>1. /\ s \o t \in Seq(Byte) /\ Len(s \o t) = Len(s) + Len(t) /\ Len(s) \in Nat /\ Len(t) \in Nat
      /\ \A i \in 1 .. Len(s) : (s \o t)[i] = s[i]
  <2>1. Len(s) \in Nat /\ Len(t) \in Nat
    OBVIOUS
  <2>2. \A i \in 1 .. Len(s) : i \in 1 .. Len(s) + Len(t) /\ i <= Len(s)
    BY <2>1
  <2> QED BY <2>1, <2>2, ConcatProperties
<1>2. PICK n \in Nat : n = Len(s)
  BY <1>1
<1>3. SubSeq(s, 1, n) = [i \in 1 .. n |-> s[i]] /\ SubSeq(s \o t, 1, n) = [i \in 1 .. n |-> (s \o t)[i]]
  BY <1>2
<1>4. SubSeq(s, 1, n) = SubSeq(s \o t, 1, n)
  BY <1>1, <1>2, <1>3
<1>5. Len(s) <= Len(s \o t)
  BY <1>1
<1> QED BY <1>2, <1>4, <1>5 DEF IsPrefix

\* A part of a page is shown as far as it has been read.
LEMMA PageShown ==
  ASSUME ClientInv, NEW ps \in Messages, NEW f, OnPage(ps, f)
  PROVE  /\ IsPrefix(Shown, Told(pages))
         /\ index = packet[5] => Shown = Told(pages)
<1>1. /\ packet \in Buffers /\ PacketMax \in 11 .. 255
      /\ received \in 5 .. PacketMax /\ packet[5] \in Nat /\ index \in 0 .. packet[5]
  BY PacketAssumption DEF OnPage, ClientInv, BufferOK
<1>2. PICK n \in 5 .. PacketMax, c \in Nat, j \in Nat :
         /\ n = received /\ c = Lengths * packet[5] /\ j = Lengths * index /\ j <= c
  <2>1. Lengths \in {1, 2}
    BY Zenon DEF Lengths
  <2>2. PICK n \in 5 .. PacketMax : n = received
    BY <1>1
  <2>3. PICK m \in Nat : m = packet[5]
    BY <1>1
  <2>4. PICK i \in 0 .. m : i = index
    BY <1>1, <2>3
  <2>5. CASE Lengths = 1
    BY <2>2, <2>3, <2>4, <2>5
  <2>6. CASE Lengths = 2
    <3>1. 2 * i <= 2 * m /\ 2 * i \in Nat /\ 2 * m \in Nat
      OBVIOUS
    <3> QED BY <2>2, <2>3, <2>4, <2>6, <3>1
  <2> QED BY <2>1, <2>5, <2>6
<1>3. Walks(f, c, packet, n, Lead) /\ f[c] = n /\ used = f[j]
  BY <1>2, Zenon DEF OnPage
<1>4. Lead \in {0, 1} /\ n # More
  BY <1>1, <1>2 DEF Lead, More
<1>5. used \in 5 .. n
  <2>1. \A k \in 0 .. c : f[k] \in 5 .. n
    BY <1>1, <1>2, <1>3, <1>4, WalkWhole
  <2> QED BY <1>2, <1>3, <2>1
<1>6. Told(pages) = Told(ps) \o SubSeq(packet, 6, n)
  <2>1. received >= 5
    BY <1>1
  <2> QED BY <1>2, <2>1, ToldNext DEF OnPage
<1>7. Shown = Told(ps) \o SubSeq(packet, 6, used)
  BY DEF OnPage
<1>8. ASSUME index = packet[5] PROVE Shown = Told(pages)
  <2>1. c = j
    BY <1>2, <1>8, Zenon
  <2>2. used = n
    BY <1>3, <2>1, Zenon
  <2>3. Shown = Told(pages)
    BY <1>6, <1>7, <2>2, Zenon
  <2> QED BY <2>3
<1>9. IsPrefix(Shown, Told(pages))
  <2>1. PICK u \in 5 .. n : u = used
    BY <1>5
  <2>2. u \in 5 .. PacketMax /\ u \in 0 .. PacketMax /\ 5 \in 0 .. PacketMax
        /\ n \in u .. PacketMax /\ 5 + 1 = 6
    BY <1>1, <1>2, <2>1
  <2>3. /\ SubSeq(packet, 6, u) \in Seq(Byte) /\ SubSeq(packet, u + 1, n) \in Seq(Byte)
        /\ SubSeq(packet, 6, u) \o SubSeq(packet, u + 1, n) = SubSeq(packet, 6, n)
    <3>1. SubSeq(packet, 5 + 1, u) \in Seq(Byte) /\ SubSeq(packet, u + 1, n) \in Seq(Byte)
      BY <1>1, <2>2, Stretch
    <3>2. SubSeq(packet, 5 + 1, u) \o SubSeq(packet, u + 1, n) = SubSeq(packet, 5 + 1, n)
      BY <1>1, <2>2, StretchesJoin
    <3> QED BY <2>2, <3>1, <3>2, Zenon
  <2>4. PICK a, b, d : /\ a = Told(ps) /\ b = SubSeq(packet, 6, u) /\ d = SubSeq(packet, u + 1, n)
                       /\ a \in Seq(Byte) /\ b \in Seq(Byte) /\ d \in Seq(Byte)
    BY <2>3, ToldIs, Zenon
  <2>5. a \o b \in Seq(Byte) /\ a \o (b \o d) = (a \o b) \o d
    <3>1. a \o b \in Seq(Byte)
      BY <2>4, Joined
    <3>2. a \in Seq(Byte) /\ b \in Seq(Byte) /\ d \in Seq(Byte)
      BY <2>4
    <3>3. a \o (b \o d) = (a \o b) \o d
      BY <3>2, JoinedThrice
    <3> QED BY <3>1, <3>3
  <2>6. IsPrefix(a \o b, (a \o b) \o d)
    BY <2>4, <2>5, PrefixOfJoined
  <2>7. Shown = a \o b /\ Told(pages) = (a \o b) \o d
    BY <1>6, <1>7, <2>1, <2>3, <2>4, <2>5, Zenon
  <2> QED BY <2>6, <2>7, Zenon
<1> QED BY <1>8, <1>9

\* Some page is being read; and what is shown then is a beginning of what is told.
OnAPage   == \E ps \in Messages : \E f : OnPage(ps, f)
PartShown == IsPrefix(Shown, Told(pages)) /\ (index = packet[5] => Shown = Told(pages))

LEMMA PartIsShown == ClientInv /\ OnAPage => PartShown
BY PageShown DEF OnAPage, PartShown

LEMMA PrefixOfItself == ASSUME NEW s \in Seq(Byte) PROVE IsPrefix(s, s)
BY DEF IsPrefix

LEMMA PagesBegin == HostedInit => PagesInv
<1> SUFFICES ASSUME HostedInit PROVE PagesInv
  OBVIOUS
<1>1. seen = <<>> /\ pages = <<>> /\ stage = "build" /\ outcome = "none"
  BY DEF HostedInit
<1>2. SeenBytes = <<>>
  <2>1. DOMAIN <<>> = {}
    OBVIOUS
  <2> QED BY <1>1, <2>1 DEF SeenBytes
<1>3. SeenOK
  BY <1>1, <1>2 DEF SeenOK, Messages
<1>4. Shown = Told(pages)
  BY <1>1, <1>2, FlattenNothing, NothingShown, Zenon DEF Shown
<1> QED BY <1>1, <1>3, <1>4 DEF PagesInv

\* A page that answers is whole, its fields all in it.
LEMMA PageIsWhole ==
  ASSUME ClientInv, Paged, Answers, packet[2] = 0
  PROVE  /\ received \in 5 .. PacketMax /\ packet[5] \in Byte
         /\ \E f : /\ Walks(f, Lengths * packet[5], packet, received, Lead)
                   /\ f[Lengths * packet[5]] = received
<1>1. received \in 5 .. PacketMax
  BY HasHeader
<1>2. packet \in Buffers /\ packet[5] \in Byte
  <2>1. packet \in Buffers /\ 5 \in 1 .. PacketMax
    BY PacketAssumption DEF ClientInv, BufferOK
  <2> QED BY <2>1 DEF Buffers
<1>3. Size(packet, received) = received /\ packet[1] = ResponseBit + Operation
  BY DEF Answers, Whole
<1>4. ~(received < 2) /\ 5 \in Nat
  BY <1>1, PacketAssumption
<1>5. CASE Catalog
  <2>1. Operation \in {OpList, OpSearch} /\ Operation # OpCapabilities
    BY <1>5 DEF Operation, Catalog, OpList, OpSearch, OpCapabilities
  <2>2. packet[1] - ResponseBit = Operation /\ ~(packet[1] < ResponseBit)
    BY <1>3, <2>1 DEF OpList, OpSearch, ResponseBit
  <2>3. CatalogSize(packet, received) = received
    <3>1. packet[1] - ResponseBit \in {1, 2}
      BY <2>1, <2>2 DEF OpList, OpSearch
    <3>2. /\ ~(packet[1] < ResponseBit) /\ ~(packet[2] # 0) /\ ~(received < 2)
          /\ Size(packet, received) = received
      BY <1>3, <1>4, <2>2
    <3> DEFINE op == packet[1] - ResponseBit
               size == CatalogSize(packet, received)
    <3>3. op # 0 /\ op \in {1, 2}
      BY <3>1
    <3>4. Size(packet, received) =
            CASE op = 0 -> IF received >= 7 THEN 7 ELSE More
              [] op \in {1, 2} -> size
              [] op = 3 -> InfoSize(packet, received)
              [] op = 4 -> IF received < 11 THEN More ELSE 11 + packet[11]
              [] OTHER -> Never
      BY <3>2, Zenon DEF Size, OpCapabilities, OpList, OpSearch, OpInfo, OpDownload
    <3> HIDE DEF op, size
    <3>5. Size(packet, received) = size
      BY <3>3, <3>4
    <3> QED BY <3>2, <3>5 DEF size
  <2>4. Lengths = 2 /\ Lead = 0
    BY <1>5 DEF Lengths, Lead
  <2>5. PICK f : Walks(f, 2 * packet[5], packet, received, 0)
                 /\ CatalogSize(packet, received) = f[2 * packet[5]]
    BY <1>1, <1>2, CatalogWalk
  <2> QED BY <1>1, <1>2, <2>3, <2>4, <2>5
<1>6. CASE ~Catalog
  <2>1. Operation = OpInfo
    BY <1>6 DEF Operation, Paged
  <2>2. packet[1] - ResponseBit = OpInfo /\ ~(packet[1] < ResponseBit)
    BY <1>3, <2>1 DEF OpInfo, ResponseBit
  <2>3. InfoSize(packet, received) = received
    <3>1. /\ ~(packet[1] < ResponseBit) /\ ~(packet[2] # 0) /\ ~(received < 2)
          /\ Size(packet, received) = received
      BY <1>3, <1>4, <2>2
    <3> DEFINE op == packet[1] - ResponseBit
               size == InfoSize(packet, received)
    <3>2. op = 3
      BY <2>2 DEF OpInfo
    <3>3. Size(packet, received) =
            CASE op = 0 -> IF received >= 7 THEN 7 ELSE More
              [] op \in {1, 2} -> CatalogSize(packet, received)
              [] op = 3 -> size
              [] op = 4 -> IF received < 11 THEN More ELSE 11 + packet[11]
              [] OTHER -> Never
      BY <3>1, Zenon DEF Size, OpCapabilities, OpList, OpSearch, OpInfo, OpDownload
    <3> HIDE DEF op, size
    <3>4. Size(packet, received) = size
      BY <3>2, <3>3
    <3> QED BY <3>1, <3>4 DEF size
  <2>4. Lengths * packet[5] = packet[5] /\ Lead = 1
    BY <1>2, <1>6 DEF Lengths, Lead, Byte
  <2>5. PICK f : Walks(f, packet[5], packet, received, 1)
                 /\ InfoSize(packet, received) = f[packet[5]]
    BY <1>1, <1>2, InfoWalk
  <2> QED BY <1>1, <1>2, <2>3, <2>4, <2>5
<1> QED BY <1>5, <1>6

LEMMA PageAccepted ==
  ASSUME ClientInv, PagesInv, Paged, Accept PROVE SeenOK' /\ OnAPage'
<1>1. /\ stage = "check" /\ Answers /\ packet[2] = 0
      /\ pages' = Append(pages, Message) /\ used' = 5 /\ index' = 0
      /\ UNCHANGED <<call, packet, received, seen>>
  BY DEF Accept, Message, inputVars, bufferVars
<1>2. SeenOK /\ Shown = Told(pages)
  BY <1>1 DEF PagesInv
<1>3. UNCHANGED <<Catalog, Kind, Lengths, Lead>> /\ SeenBytes' = SeenBytes
  BY <1>1 DEF Catalog, Kind, Lengths, Lead, SeenBytes, Bytes
<1>4. SeenOK' /\ Shown' = Shown /\ Message' = Message
  BY <1>1, <1>2, <1>3 DEF SeenOK, Shown, Message
<1>5. received \in 5 .. PacketMax /\ packet[5] \in Byte
  BY <1>1, PageIsWhole
<1>6. PICK f : /\ Walks(f, Lengths * packet[5], packet, received, Lead)
               /\ f[Lengths * packet[5]] = received
  BY <1>1, PageIsWhole
<1>7. packet[5] \in Nat /\ 0 \in 0 .. packet[5] /\ Lengths * 0 = 0
  BY <1>5 DEF Byte, Lengths
<1>8. PICK ps \in Messages : ps = pages
  BY DEF ClientInv, CursorOK, Messages
<1>9. used' = f[Lengths * index']
  BY <1>1, <1>6, <1>7 DEF Walks
<1>10. Shown' = Told(ps) \o SubSeq(packet, 6, 5)
  <2>1. SubSeq(packet, 6, 5) = <<>>
    OBVIOUS
  <2>2. PICK t \in Seq(Byte) : t = Told(ps)
    BY ToldIs
  <2>3. t \o <<>> = t
    OBVIOUS
  <2> QED BY <1>2, <1>4, <1>8, <2>1, <2>2, <2>3, Zenon
<1>11. OnPage(ps, f)'
  <2>1. /\ Walks(f, Lengths' * packet'[5], packet', received', Lead')
        /\ f[Lengths' * packet'[5]] = received'
    BY <1>1, <1>3, <1>6, Zenon
  <2>2. pages' = Append(ps, Message')
    BY <1>1, <1>4, <1>8, Zenon
  <2>3. received' \in 5 .. PacketMax /\ packet'[5] \in Nat /\ index' \in 0 .. packet'[5]
    BY <1>1, <1>5, <1>7, Zenon
  <2>4. used' = f[Lengths' * index'] /\ Shown' = Told(ps) \o SubSeq(packet', 6, used')
    BY <1>1, <1>3, <1>9, <1>10, Zenon
  <2> QED BY <2>1, <2>2, <2>3, <2>4, Zenon DEF OnPage
<1> QED BY <1>4, <1>11 DEF OnAPage

\* One element more is what comes next on the page.
LEMMA SeenGrows ==
  ASSUME SeenOK, NEW e \in Kind, NEW b \in Seq(Byte), b = Bytes(e),
         seen' = Append(seen, e), call' = call
  PROVE  SeenOK' /\ Shown' = Shown \o b
<1>1. Kind' = Kind /\ \A x : Bytes(x)' = Bytes(x)
  BY DEF Kind, Catalog, Bytes
<1>2. PICK n \in Nat : n = Len(seen) /\ DOMAIN seen = 1 .. n
  BY DEF SeenOK
<1>3. PICK ss \in Messages : ss = SeenBytes
  BY DEF SeenOK
<1>4. Len(ss) = n /\ ss \in Seq(Seq(Byte))
  <2>1. DOMAIN ss = 1 .. n
    BY <1>2, <1>3 DEF SeenBytes
  <2> QED BY <2>1 DEF Messages
<1>5. /\ seen' \in Seq(Kind) /\ DOMAIN seen' = 1 .. n + 1 /\ seen'[n + 1] = e
      /\ \A i \in 1 .. n : seen'[i] = seen[i]
  BY <1>2 DEF SeenOK
<1>6. SeenBytes' = [i \in 1 .. n + 1 |-> IF i <= n THEN ss[i] ELSE b]
  <2>1. SeenBytes' = [i \in 1 .. n + 1 |-> Bytes(seen'[i])]
    BY <1>1, <1>5 DEF SeenBytes, Bytes, Catalog
  <2>2. ASSUME NEW i \in 1 .. n + 1 PROVE Bytes(seen'[i]) = IF i <= n THEN ss[i] ELSE b
    <3>1. CASE i <= n
      <4>1. seen'[i] = seen[i] /\ ss[i] = Bytes(seen[i])
        BY <1>2, <1>3, <1>5, <3>1 DEF SeenBytes
      <4> QED BY <3>1, <4>1, Zenon
    <3>2. CASE i = n + 1
      <4>1. ~(i <= n) /\ seen'[i] = e
        BY <1>5, <3>2
      <4> QED BY <4>1, Zenon
    <3>3. i <= n \/ i = n + 1
      OBVIOUS
    <3> QED BY <3>1, <3>2, <3>3, Zenon
  <2> QED BY <2>1, <2>2, Zenon
<1>7. SeenBytes' = Append(ss, b)
  BY <1>4, <1>6, AppendIs
<1>8. SeenBytes' \in Messages
  BY <1>4, <1>7 DEF Messages
<1>9. FlattenSeq(Append(ss, b)) = FlattenSeq(ss) \o b
  BY <1>4, FlattenAppend
<1> QED BY <1>1, <1>3, <1>5, <1>7, <1>8, <1>9, Zenon DEF SeenOK, Shown

LEMMA ElementShown ==
  ASSUME ClientInv, SeenOK, NEW ps \in Messages, NEW f, OnPage(ps, f), index # packet[5],
         NEW e \in Kind, seen' = Append(seen, e), index' = index + 1,
         used' = f[Lengths * index + Lengths], used <= used',
         Bytes(e) = SubSeq(packet, used + 1, used'),
         UNCHANGED <<call, packet, received, pages>>
  PROVE  SeenOK' /\ OnPage(ps, f)'
<1>1. /\ packet \in Buffers /\ PacketMax \in 11 .. 255
      /\ received \in 5 .. PacketMax /\ packet[5] \in Nat /\ index \in 0 .. packet[5]
  BY PacketAssumption DEF OnPage, ClientInv, BufferOK
<1>2. Lengths \in {1, 2} /\ Lead \in {0, 1}
  BY DEF Lengths, Lead
<1>3. /\ index' \in 0 .. packet[5]
      /\ Lengths * index + Lengths = Lengths * index'
      /\ Lengths * index \in 0 .. Lengths * packet[5]
      /\ Lengths * index' \in 0 .. Lengths * packet[5] /\ Lengths * packet[5] \in Nat
      /\ Lengths * index <= Lengths * index'
  <2>1. PICK m \in Nat, i \in Nat : m = packet[5] /\ i = index /\ i <= m /\ i # m
    BY <1>1
  <2>2. i + 1 \in 0 .. m
    BY <2>1
  <2>3. CASE Lengths = 1
    <3>1. 1 * i + 1 = 1 * (i + 1) /\ 1 * i \in 0 .. 1 * m /\ 1 * (i + 1) \in 0 .. 1 * m /\ 1 * m \in Nat
          /\ 1 * i <= 1 * (i + 1)
      BY <2>1
    <3> QED BY <2>1, <2>2, <2>3, <3>1, Zenon
  <2>4. CASE Lengths = 2
    <3>1. 2 * i + 2 = 2 * (i + 1) /\ 2 * i \in 0 .. 2 * m /\ 2 * (i + 1) \in 0 .. 2 * m /\ 2 * m \in Nat
          /\ 2 * i <= 2 * (i + 1)
      BY <2>1
    <3> QED BY <2>1, <2>2, <2>4, <3>1, Zenon
  <2> QED BY <1>2, <2>3, <2>4
<1>4. PICK n \in 5 .. PacketMax, c \in Nat : n = received /\ c = Lengths * packet[5]
  BY <1>1, <1>3
<1>5. Walks(f, c, packet, n, Lead) /\ f[c] = n /\ n # More
  BY <1>1, <1>4 DEF OnPage, More
<1>6. \A k \in 0 .. c : f[k] \in 5 .. n
  BY <1>1, <1>2, <1>4, <1>5, WalkWhole
<1>7. used = f[Lengths * index] /\ used' = f[Lengths * index']
  BY <1>3, Zenon DEF OnPage
<1>8. used \in 5 .. n /\ used' \in 5 .. n
  BY <1>3, <1>4, <1>6, <1>7
<1>9. PICK u \in 5 .. n : u = used
  BY <1>8
<1>0. PICK w \in u .. n : w = used'
  <2>1. PICK w \in 5 .. n : w = used'
    BY <1>8
  <2>2. w \in u .. n
    BY <1>9, <2>1
  <2> QED BY <2>1, <2>2
<1>10. /\ u \in 0 .. PacketMax /\ 5 \in 0 .. PacketMax /\ u \in 5 .. PacketMax
       /\ w \in u .. PacketMax /\ 5 + 1 = 6
  BY <1>1
<1>11. PICK p \in Seq(Byte), b \in Seq(Byte) :
         /\ p = SubSeq(packet, 6, u) /\ b = SubSeq(packet, u + 1, w)
         /\ p \o b = SubSeq(packet, 6, w)
  <2>1. /\ SubSeq(packet, 5 + 1, u) \in Seq(Byte) /\ SubSeq(packet, u + 1, w) \in Seq(Byte)
        /\ SubSeq(packet, 5 + 1, u) \o SubSeq(packet, u + 1, w) = SubSeq(packet, 5 + 1, w)
    BY <1>1, <1>10, Stretch, StretchesJoin
  <2> QED BY <1>10, <2>1, Zenon
<1>12. b = Bytes(e)
  BY <1>9, <1>0, <1>11, Zenon
<1>13. SeenOK' /\ Shown' = Shown \o b
  BY <1>12, SeenGrows
<1>14. PICK t \in Seq(Byte) : t = Told(ps)
  BY ToldIs
<1>15. Shown' = t \o (p \o b)
  <2>1. Shown = t \o p
    BY <1>9, <1>0, <1>11, <1>14, Zenon DEF OnPage
  <2>2. t \o (p \o b) = (t \o p) \o b
    <3>1. t \in Seq(Byte) /\ p \in Seq(Byte) /\ b \in Seq(Byte)
      OBVIOUS
    <3> QED BY ONLY <3>1, JoinedThrice
  <2> QED BY <1>13, <2>1, <2>2, Zenon
<1>16. OnPage(ps, f)'
  <2>1. Message' = Message /\ Lengths' = Lengths /\ Lead' = Lead
    BY DEF Message, Lengths, Lead, Catalog
  <2>2. pages' = Append(ps, Message')
    BY <2>1 DEF OnPage
  <2>3. received' \in 5 .. PacketMax /\ packet'[5] \in Nat /\ index' \in 0 .. packet'[5]
    BY <1>1, <1>3, Zenon
  <2>4. /\ Walks(f, Lengths' * packet'[5], packet', received', Lead')
        /\ f[Lengths' * packet'[5]] = received'
    BY <2>1, Zenon DEF OnPage
  <2>5. used' = f[Lengths' * index'] /\ Shown' = Told(ps) \o SubSeq(packet', 6, used')
    BY <1>7, <1>0, <1>9, <1>11, <1>14, <1>15, <2>1, Zenon
  <2> QED BY <2>2, <2>3, <2>4, <2>5, Zenon DEF OnPage
<1> QED BY <1>13, <1>16

\* The elements that a page still has, counted in its lengths.
LEMMA ElementsLeft ==
  ASSUME ClientInv, NEW ps \in Messages, NEW f, OnPage(ps, f), index < packet[5]
  PROVE  /\ received \in 5 .. PacketMax /\ packet \in Buffers /\ index # packet[5]
         /\ Lengths * packet[5] \in Nat /\ Lengths * index \in Nat
         /\ Lengths * index + Lengths <= Lengths * packet[5]
         /\ f[Lengths * packet[5]] # More /\ used = f[Lengths * index] /\ used \in Nat
<1>1. /\ packet \in Buffers /\ PacketMax \in 11 .. 255
      /\ received \in 5 .. PacketMax /\ packet[5] \in Nat /\ index \in 0 .. packet[5]
  BY PacketAssumption DEF OnPage, ClientInv, BufferOK
<1>2. PICK m \in Nat, i \in Nat : m = packet[5] /\ i = index /\ i < m
  BY <1>1
<1>3. /\ Lengths * packet[5] \in Nat /\ Lengths * index \in 0 .. Lengths * packet[5]
      /\ Lengths * index + Lengths <= Lengths * packet[5]
  <2>1. CASE Lengths = 1
    <3>1. 1 * m \in Nat /\ 1 * i \in 0 .. 1 * m /\ 1 * i + 1 <= 1 * m
      BY <1>2
    <3> QED BY <1>2, <2>1, <3>1, Zenon
  <2>2. CASE Lengths = 2
    <3>1. 2 * m \in Nat /\ 2 * i \in 0 .. 2 * m /\ 2 * i + 2 <= 2 * m
      BY <1>2
    <3> QED BY <1>2, <2>2, <3>1, Zenon
  <2>3. Lengths \in {1, 2}
    BY DEF Lengths
  <2> QED BY <2>1, <2>2, <2>3
<1>4. used = f[Lengths * index] /\ f[Lengths * packet[5]] = received
  BY Zenon DEF OnPage
<1>5. f \in [0 .. Lengths * packet[5] -> 0 .. received]
  BY DEF OnPage, Walks
<1>6. used \in Nat
  BY <1>1, <1>3, <1>4, <1>5
<1> QED BY <1>1, <1>2, <1>3, <1>4, <1>6 DEF More

LEMMA EntryShown ==
  ASSUME ClientInv, SeenOK, OnAPage, VisitEntry PROVE SeenOK' /\ OnAPage'
<1>1. PICK ps, f : ps \in Messages /\ OnPage(ps, f)
  BY DEF OnAPage
<1>2. Catalog /\ index < packet[5] /\ Lengths = 2 /\ Lead = 0
  BY DEF VisitEntry, ElementLeft, Lengths, Lead
<1>3. /\ received \in 5 .. PacketMax /\ packet \in Buffers /\ index # packet[5]
      /\ 2 * packet[5] \in Nat /\ 2 * index \in Nat /\ 2 * index + 2 <= 2 * packet[5]
      /\ f[2 * packet[5]] # More /\ used = f[2 * index] /\ used \in Nat
  BY <1>1, <1>2, ElementsLeft
<1>4. Walks(f, 2 * packet[5], packet, received, 0)
  BY <1>1, <1>2, Zenon DEF OnPage
<1> DEFINE id   == ViewIn(packet, used)
           name == ViewIn(packet, used + 1 + Len(id))
           e    == [id |-> id, name |-> name]
<1>5. /\ seen' = Append(seen, e) /\ index' = index + 1
      /\ used' = used + (2 + Len(id) + Len(name))
      /\ UNCHANGED <<call, packet, received, pages>>
  BY DEF VisitEntry, NextElement, View, ViewIn, inputVars, bufferVars
<1>6. /\ id \in Seq(Byte) /\ name \in Seq(Byte)
      /\ used + (2 + Len(id) + Len(name)) = f[2 * index + 2]
      /\ Field(id) \o Field(name) = SubSeq(packet, used + 1, f[2 * index + 2])
  <2>1. PICK n \in 5 .. PacketMax, c \in Nat, k \in Nat, r \in Buffers :
               n = received /\ c = 2 * packet[5] /\ k = 2 * index /\ r = packet
    BY <1>3
  <2>2. Walks(f, c, r, n, 0) /\ f[c] # More /\ k + 2 <= c
    BY <1>3, <1>4, <2>1, Zenon
  <2>3. EntryIs(r, f[k], f[k + 2])
    <3>1. n \in 5 .. PacketMax /\ c \in Nat /\ k \in Nat /\ r \in Buffers
      OBVIOUS
    <3> QED BY ONLY <2>2, <3>1, EntryRead, Zenon
  <2>4. used = f[k]
    BY <1>3, <2>1, Zenon
  <2> QED BY <2>1, <2>3, <2>4, Zenon DEF EntryIs
<1> HIDE DEF id, name
<1>7. Kind = Entries /\ Bytes(e) = Field(id) \o Field(name) /\ e \in Entries
  BY <1>2, <1>6 DEF Kind, Bytes, Entries
<1>8. used <= used'
  <2>1. Len(id) \in Nat /\ Len(name) \in Nat
    BY <1>6
  <2> QED BY <1>3, <1>5, <2>1
<1> HIDE DEF e
<1>9. PICK d \in Kind : d = e
  BY <1>7
<1>10. /\ used' = f[Lengths * index + Lengths]
       /\ Bytes(d) = SubSeq(packet, used + 1, used')
  BY <1>2, <1>5, <1>6, <1>7, <1>9, Zenon
<1>11. SeenOK' /\ OnPage(ps, f)'
  BY <1>1, <1>3, <1>5, <1>8, <1>9, <1>10, ElementShown, Zenon
<1> QED BY <1>1, <1>11 DEF OnAPage

LEMMA ValueShown ==
  ASSUME ClientInv, SeenOK, OnAPage, CollectValue
  PROVE  /\ SeenOK' /\ OnAPage'
         /\ packet[used + 1] \in Byte /\ View(used + 1) \in Seq(Byte)
<1>1. PICK ps, f : ps \in Messages /\ OnPage(ps, f)
  BY DEF OnAPage
<1>2. ~Catalog /\ index < packet[5] /\ Lengths = 1 /\ Lead = 1
  BY DEF CollectValue, ElementLeft, Lengths, Lead, Catalog
<1>3. /\ received \in 5 .. PacketMax /\ packet \in Buffers /\ index # packet[5]
      /\ 1 * packet[5] \in Nat /\ 1 * index \in Nat /\ 1 * index + 1 <= 1 * packet[5]
      /\ f[1 * packet[5]] # More /\ used = f[1 * index] /\ used \in Nat
  BY <1>1, <1>2, ElementsLeft
<1>4. Walks(f, 1 * packet[5], packet, received, 1)
  BY <1>1, <1>2, Zenon DEF OnPage
<1> DEFINE type == packet[used + 1]
           v    == ViewIn(packet, used + 1)
           e    == [type |-> type, value |-> v]
<1>5. /\ seen' = Append(seen, e) /\ index' = index + 1
      /\ used' = used + (2 + Len(v))
      /\ UNCHANGED <<call, packet, received, pages>>
  BY DEF CollectValue, NextElement, View, ViewIn, inputVars, bufferVars
<1>6. /\ type \in Byte /\ v \in Seq(Byte)
      /\ used + (2 + Len(v)) = f[1 * index + 1]
      /\ <<type>> \o Field(v) = SubSeq(packet, used + 1, f[1 * index + 1])
  <2>1. PICK n \in 5 .. PacketMax, c \in Nat, k \in Nat, r \in Buffers :
               n = received /\ c = 1 * packet[5] /\ k = 1 * index /\ r = packet
    BY <1>3
  <2>2. Walks(f, c, r, n, 1) /\ f[c] # More /\ k + 1 <= c
    BY <1>3, <1>4, <2>1, Zenon
  <2>3. ValueIs(r, f[k], f[k + 1])
    <3>1. n \in 5 .. PacketMax /\ c \in Nat /\ k \in Nat /\ r \in Buffers
      OBVIOUS
    <3> QED BY ONLY <2>2, <3>1, ValueRead, Zenon
  <2>4. used = f[k]
    BY <1>3, <2>1, Zenon
  <2> QED BY <2>1, <2>3, <2>4, Zenon DEF ValueIs
<1> HIDE DEF type, v
<1>7. Kind = Values /\ Bytes(e) = <<type>> \o Field(v) /\ e \in Values
  BY <1>2, <1>6 DEF Kind, Bytes, Values
<1>8. used <= used'
  <2>1. Len(v) \in Nat
    BY <1>6
  <2> QED BY <1>3, <1>5, <2>1
<1> HIDE DEF e
<1>9. PICK d \in Kind : d = e
  BY <1>7
<1>10. /\ used' = f[Lengths * index + Lengths]
       /\ Bytes(d) = SubSeq(packet, used + 1, used')
  BY <1>2, <1>5, <1>6, <1>7, <1>9, Zenon
<1>11. SeenOK' /\ OnPage(ps, f)'
  BY <1>1, <1>3, <1>5, <1>8, <1>9, <1>10, ElementShown, Zenon
<1>12. packet[used + 1] \in Byte /\ View(used + 1) \in Seq(Byte)
  BY <1>6, Zenon DEF type, v, View, ViewIn
<1> QED BY <1>1, <1>11, <1>12 DEF OnAPage

\* Once a page is read on, or left, it is shown as far as it has been read.
LEMMA PageReadOn ==
  ASSUME ClientInv', Paged', SeenOK', OnAPage', stage' \in {"read", "returned"},
         stage' # "returned" => outcome' = "none", outcome' = "ok" => call' = "resolve"
  PROVE  PagesInv'
<1>1. ClientInv' /\ OnAPage' => PartShown'
  BY PartIsShown, PTL
<1>2. IsPrefix(Shown, Told(pages))'
  BY <1>1 DEF PartShown
<1> QED BY <1>2 DEF PagesInv, OnAPage

LEMMA PagesStep ==
  ASSUME ClientInv, ClientInv', PagesInv, [HostedNext]_hostedVars PROVE PagesInv'
<1> SUFFICES ASSUME Paged' PROVE PagesInv'
  BY DEF PagesInv
<1>1. call' = call /\ Paged
  <2>1. call' = call
    BY DEF HostedNext, hostedVars, inputVars, BuildRequest, ExchangeFails, Exchange, NoAnswer,
       ServerError, Accept, CheckCapabilities, VisitEntry, CollectValue, EndOfPage, TakeChunk,
       Returned
  <2> QED BY <2>1 DEF Paged, Catalog
<1>2. SeenOK /\ (stage # "returned" => outcome = "none")
  BY <1>1 DEF PagesInv
<1>3. CASE Accept
  <2>1. stage = "check" /\ stage' = "read" /\ outcome' = outcome
    BY <1>3 DEF Accept, Go
  <2>2. SeenOK' /\ OnAPage'
    BY <1>1, <1>3, PageAccepted
  <2> QED BY <1>2, <2>1, <2>2, PageReadOn
<1>4. CASE VisitEntry
  <2>1. stage = "read"
    BY <1>4 DEF VisitEntry, ElementLeft
  <2>2. outcome = "none" /\ OnAPage
    BY <1>1, <1>2, <2>1 DEF PagesInv, OnAPage
  <2>3. SeenOK' /\ OnAPage'
    BY <1>2, <1>4, <2>2, EntryShown
  <2>4. \/ stage' = stage /\ outcome' = outcome
        \/ stage' = "returned" /\ (outcome' = "ok" => call = "resolve")
    BY <1>4 DEF VisitEntry, Return
  <2> QED BY <1>1, <2>1, <2>2, <2>3, <2>4, PageReadOn
<1>5. CASE CollectValue
  <2>1. stage = "read"
    BY <1>5 DEF CollectValue, ElementLeft
  <2>2. outcome = "none" /\ OnAPage
    BY <1>1, <1>2, <2>1 DEF PagesInv, OnAPage
  <2>3. SeenOK' /\ OnAPage'
    BY <1>2, <1>5, <2>2, ValueShown
  <2>4. \/ stage' = stage /\ outcome' = outcome
        \/ stage' = "returned" /\ outcome' # "ok"
    BY <1>5 DEF CollectValue, CollectDownload, Store, Reject, Return
  <2> QED BY <1>1, <2>1, <2>2, <2>3, <2>4, PageReadOn
\* The others show nothing and add no page.
<1> DEFINE Rests == UNCHANGED <<call, seen, pages>>
<1>6. ASSUME Rests
      PROVE  SeenOK' /\ Shown' = Shown /\ Told(pages)' = Told(pages)
  <2>1. Kind' = Kind /\ SeenBytes' = SeenBytes
    BY <1>6 DEF Kind, Catalog, SeenBytes, Bytes
  <2> QED BY <1>2, <1>6, <2>1 DEF SeenOK, Shown
<1>7. Shown = Told(pages) => IsPrefix(Shown, Told(pages))
  <2>1. pages \in Messages
    BY DEF ClientInv, CursorOK, Messages
  <2> QED BY <2>1, ToldIs, PrefixOfItself
<1>8. ASSUME Rests, stage \in {"build", "exchange", "check"},
             \/ stage' \in {"build", "exchange", "check"} /\ outcome' = outcome
             \/ stage' = "returned"
      PROVE  PagesInv'
  <2>1. Shown = Told(pages) /\ outcome = "none"
    BY <1>1, <1>8 DEF PagesInv
  <2> QED BY <1>6, <1>7, <1>8, <2>1 DEF PagesInv
<1>9. BuildRequest => /\ Rests /\ stage = "build"
                      /\ \/ stage' = "exchange" /\ outcome' = outcome
                         \/ stage' = "returned"
  BY <1>1 DEF BuildRequest, BuildInfo, BuildCatalog, Go, Return, inputVars, histVars, Paged, Catalog
<1>10. ExchangeFails \/ NoAnswer \/ ServerError \/ Exchange =>
         /\ Rests /\ stage \in {"exchange", "check"}
         /\ \/ stage' = "check" /\ outcome' = outcome
            \/ stage' = "returned"
  BY DEF ExchangeFails, NoAnswer, ServerError, Exchange, Go, Return, inputVars, histVars
<1>11. CASE EndOfPage
  <2>1. /\ Rests /\ stage = "read" /\ index = packet[5]
        /\ \/ stage' = "build" /\ outcome' = outcome
           \/ stage' = "returned"
    BY <1>11 DEF EndOfPage, Go, Return, inputVars, histVars
  <2>2. outcome = "none" /\ OnAPage
    BY <1>1, <1>2, <2>1 DEF PagesInv, OnAPage
  <2>3. Shown = Told(pages)
    BY <2>1, <2>2, PartIsShown DEF PartShown
  <2> QED BY <1>6, <1>7, <2>1, <2>2, <2>3 DEF PagesInv
<1>12. ~(CheckCapabilities \/ TakeChunk)
  BY <1>1 DEF CheckCapabilities, TakeChunk, Paged, Catalog
<1>13. Returned \/ UNCHANGED hostedVars => UNCHANGED hostedVars
  BY DEF Returned
<1>14. CASE UNCHANGED hostedVars
  <2>1. UNCHANGED <<call, packet, received, used, index, seen, pages, stage, outcome>>
    BY <1>14 DEF hostedVars, inputVars, bufferVars, pageVars, histVars
  <2>2. OnAPage => OnAPage'
    BY <2>1 DEF OnAPage, OnPage, Message, Lengths, Lead, Catalog, Shown, SeenBytes, Bytes
  <2>3. Rests
    BY <2>1
  <2> HIDE DEF Rests
  <2> QED BY <1>1, <1>6, <2>1, <2>2, <2>3 DEF PagesInv, OnAPage
<1> HIDE DEF Rests
<1>15. CASE BuildRequest
  BY <1>8, <1>9, <1>15
<1>16. CASE ExchangeFails \/ NoAnswer \/ ServerError \/ Exchange
  BY <1>8, <1>10, <1>16
<1> QED BY <1>3, <1>4, <1>5, <1>11, <1>12, <1>13, <1>14, <1>15, <1>16 DEF HostedNext

\* At every step of a call what has been shown is the pages so far, the last of
\* them as far as it has been read.
THEOREM PagesKnown == HostedSpec => []PagesInv
<1>1. ClientInv /\ ClientInv' /\ PagesInv /\ [HostedNext]_hostedVars => PagesInv'
  BY PagesStep
<1> QED BY <1>1, ClientKnown, PagesBegin, PTL DEF HostedSpec

\* What the caller is shown is the received pages, cut into their elements in
\* order: no byte of them left out, shown twice or taken from what the buffer held
\* before (the visitors of client.c over catalog_response_size and
\* info_response_size of retrovault.c).
THEOREM PagesAreShownExactly == HostedSpec => []PagesShownExactly
<1>1. ASSUME ClientInv, PagesInv PROVE PagesShownExactly
  <2>1. SUFFICES ASSUME Paged
                 PROVE  /\ IsPrefix(Shown, Told(pages))
                        /\ stage = "build" \/ (outcome = "ok" /\ call # "resolve")
                             => Shown = Told(pages)
    BY Zenon DEF PagesShownExactly, Paged, Shown, SeenBytes, Told, Tails, Body
  <2>2. pages \in Messages /\ stage \in Stages
    BY <1>1 DEF ClientInv, CursorOK, Messages
  <2>3. Shown = Told(pages) => IsPrefix(Shown, Told(pages))
    BY <2>2, ToldIs, PrefixOfItself
  <2>4. CASE stage \in {"build", "exchange", "check", "returned"}
    BY <1>1, <2>1, <2>3, <2>4 DEF PagesInv
  <2>5. CASE stage = "read"
    <3>1. OnAPage /\ outcome = "none"
      BY <1>1, <2>1, <2>5 DEF PagesInv, OnAPage
    <3>2. IsPrefix(Shown, Told(pages))
      BY <1>1, <3>1, PartIsShown DEF PartShown
    <3> QED BY <2>5, <3>1, <3>2
  <2> QED BY <2>2, <2>4, <2>5 DEF Stages
<1> QED BY <1>1, ClientKnown, PagesKnown, PTL
-----------------------------------------------------------------------------
(* A download is decoded to what encodes to the same bytes.                *)

\* Four bytes and the number they make.
LEMMA LongWordBack ==
  ASSUME NEW a \in Byte, NEW b \in Byte, NEW c \in Byte, NEW d \in Byte
  PROVE  LET x == (a + 256 * b) + 65536 * (c + 256 * d)
         IN  /\ x \in Nat /\ x % 256 = a /\ (x \div 256) % 256 = b
             /\ (x \div 65536) % 256 = c /\ x \div 16777216 = d
<1>1. a \in 0 .. 255 /\ b \in 0 .. 255 /\ c \in 0 .. 255 /\ d \in 0 .. 255
  BY DEF Byte
<1> DEFINE x == (a + 256 * b) + 65536 * (c + 256 * d)
<1>2. x \in Nat
  BY <1>1
<1>3. x % 256 = a
  BY <1>1
<1>4. (x \div 256) % 256 = b
  <2>1. x \div 256 = b + 256 * (c + 256 * d)
    BY <1>1
  <2>2. (b + 256 * (c + 256 * d)) % 256 = b
    BY <1>1
  <2> QED BY <2>1, <2>2
<1>5. (x \div 65536) % 256 = c
  <2>1. x \div 65536 = c + 256 * d
    BY <1>1
  <2>2. (c + 256 * d) % 256 = c
    BY <1>1
  <2> QED BY <2>1, <2>2
<1>6. x \div 16777216 = d
  BY <1>1
<1> QED BY <1>2, <1>3, <1>4, <1>5, <1>6

LEMMA LongWordThere ==
  ASSUME NEW v \in Seq(Byte), NEW u \in Nat, u + 4 <= Len(v)
  PROVE  /\ GetU32(v, u) \in Nat
         /\ U32(GetU32(v, u)) = SubSeq(v, u + 1, u + 4)
         /\ U32(GetU32(v, u)) \in Seq(Byte)
<1>1. PICK a \in Byte, b \in Byte, c \in Byte, d \in Byte :
         a = v[u + 1] /\ b = v[u + 2] /\ c = v[u + 3] /\ d = v[u + 4]
  OBVIOUS
<1> DEFINE x == (a + 256 * b) + 65536 * (c + 256 * d)
<1>2. GetU32(v, u) = x
  <2>1. (u + 2) + 1 = u + 3 /\ (u + 2) + 2 = u + 4
    OBVIOUS
  <2>2. GetU16(v, u) = a + 256 * b
    BY <1>1, Zenon DEF GetU16
  <2>3. GetU16(v, u + 2) = c + 256 * d
    BY <1>1, <2>1, Zenon DEF GetU16
  <2> QED BY <2>2, <2>3 DEF GetU32
<1>3. /\ x \in Nat /\ x % 256 = a /\ (x \div 256) % 256 = b
      /\ (x \div 65536) % 256 = c /\ x \div 16777216 = d
  BY LongWordBack
<1> HIDE DEF x
<1>4. U32(x) = <<a, b, c, d>>
  BY <1>3 DEF U32
<1>5. SubSeq(v, u + 1, u + 4) = <<a, b, c, d>>
  <2>1. u \in 0 .. Len(v) /\ u + 4 \in u .. Len(v) /\ (u + 4) - u = 4
    OBVIOUS
  <2>2. /\ SubSeq(v, u + 1, u + 4) \in Seq(Byte) /\ Len(SubSeq(v, u + 1, u + 4)) = 4
        /\ \A i \in 1 .. 4 : SubSeq(v, u + 1, u + 4)[i] = v[u + i]
    BY <2>1, PartIs
  <2>3. <<a, b, c, d>> \in Seq(Byte) /\ Len(<<a, b, c, d>>) = 4
    OBVIOUS
  <2>4. ASSUME NEW i \in 1 .. 4 PROVE SubSeq(v, u + 1, u + 4)[i] = <<a, b, c, d>>[i]
    <3>1. i \in {1, 2, 3, 4}
      OBVIOUS
    <3> QED BY <1>1, <2>2, <3>1
  <2> QED BY <2>2, <2>3, <2>4, SeqEqual
<1>6. <<a, b, c, d>> \in Seq(Byte)
  OBVIOUS
<1>7. U32(GetU32(v, u)) = <<a, b, c, d>>
  BY <1>2, <1>4
<1>8. GetU32(v, u) \in Nat
  BY <1>2, <1>3
<1> QED BY <1>5, <1>6, <1>7, <1>8

\* A field, and what comes before it.
LEMMA FieldThere ==
  ASSUME NEW v \in Seq(Byte), NEW u \in Nat, NEW b \in Byte, b = v[u + 1],
         NEW w \in Nat, w = u + 1 + b, w <= Len(v)
  PROVE  /\ SubSeq(v, u + 2, w) \in Seq(Byte)
         /\ Field(SubSeq(v, u + 2, w)) = SubSeq(v, u + 1, w)
         /\ SubSeq(v, 1, u) \o SubSeq(v, u + 1, w) = SubSeq(v, 1, w)
<1>1. ViewIn(v, u) \in Seq(Byte) /\ Field(ViewIn(v, u)) = SubSeq(v, u + 1, u + 1 + b)
  BY FieldIn
<1>2. ViewIn(v, u) = SubSeq(v, u + 2, w)
  BY Zenon DEF ViewIn
<1>3. SubSeq(v, 0 + 1, u) \o SubSeq(v, u + 1, w) = SubSeq(v, 0 + 1, w)
  <2>1. b \in Nat /\ Len(v) \in Nat
    BY ByteIs
  <2>2. 0 \in 0 .. Len(v) /\ u \in 0 .. Len(v) /\ w \in u .. Len(v)
    BY <2>1
  <2> QED BY <2>2, PartsJoin
<1>4. 0 + 1 = 1
  OBVIOUS
<1> QED BY <1>1, <1>2, <1>3, <1>4, Zenon

\* What rv_decode_download makes of a value that it accepts.
Offers == [valid : {TRUE}, id : Seq(Byte), label : Seq(Byte), format : Seq(Byte),
           aggregate_size : Nat, file_count : Byte]

LEMMA DownloadDecoded ==
  ASSUME NEW v \in Seq(Byte), DownloadFields(v).valid
  PROVE  DownloadFields(v) \in Offers /\ Encoded(DownloadFields(v)) = v
<1>1. PICK n \in Nat : n = Len(v)
  OBVIOUS
<1> DEFINE id     == 1 + v[1]
           label  == id + 1 + v[id + 1]
           format == label + 1 + v[label + 1]
           d == [valid |-> TRUE,
                 id |-> SubSeq(v, 2, id), label |-> SubSeq(v, id + 2, label),
                 format |-> SubSeq(v, label + 2, format),
                 aggregate_size |-> GetU32(v, format), file_count |-> v[format + 5]]
<1>2. /\ n >= 8 /\ id < n /\ label < n /\ format <= n /\ n - format = 5
      /\ DownloadFields(v) = d
  <2> DEFINE fits == n >= 8 /\ id < n /\ label < n /\ format <= n /\ n - format = 5
  <2>1. DownloadFields(v) = IF fits THEN d ELSE [valid |-> FALSE]
    BY <1>1, Zenon DEF DownloadFields, TailFits
  <2> HIDE DEF fits, d
  <2>2. fits
    BY <2>1
  <2>3. DownloadFields(v) = d
    BY <2>1, <2>2
  <2> QED BY <2>2, <2>3 DEF fits
<1>3. PICK a \in Byte : a = v[1]
  BY <1>1, <1>2
<1>4. PICK i \in Nat : i = id /\ i = 1 + a /\ i < n /\ 1 <= i
  <2>1. a \in Nat
    BY ByteIs
  <2> QED BY <1>2, <1>3, <2>1
<1>5. PICK b \in Byte : b = v[i + 1]
  BY <1>1, <1>4
<1>6. PICK l \in Nat : l = label /\ l = i + 1 + b /\ l < n
  <2>1. b \in Nat
    BY ByteIs
  <2>2. label = i + 1 + b
    BY <1>4, <1>5, Zenon
  <2> QED BY <1>2, <2>1, <2>2
<1>7. PICK c \in Byte : c = v[l + 1]
  BY <1>1, <1>6
<1>8. PICK f \in Nat : f = format /\ f = l + 1 + c /\ f + 5 = n
  <2>1. c \in Nat
    BY ByteIs
  <2>2. format = l + 1 + c
    BY <1>6, <1>7, Zenon
  <2> QED BY <1>2, <2>1, <2>2
<1>9. /\ SubSeq(v, 2, i) \in Seq(Byte) /\ Field(SubSeq(v, 2, i)) = SubSeq(v, 1, i)
  <2>1. PICK u \in Nat : u = 0 /\ u + 1 = 1 /\ u + 2 = 2
    OBVIOUS
  <2>2. a = v[u + 1] /\ i = u + 1 + a /\ i <= Len(v)
    BY <1>1, <1>3, <1>4, <2>1
  <2>3. SubSeq(v, u + 2, i) \in Seq(Byte) /\ Field(SubSeq(v, u + 2, i)) = SubSeq(v, u + 1, i)
    BY <2>2, FieldThere
  <2> QED BY <2>1, <2>3, Zenon
<1>10. /\ SubSeq(v, i + 2, l) \in Seq(Byte) /\ Field(SubSeq(v, i + 2, l)) = SubSeq(v, i + 1, l)
       /\ SubSeq(v, 1, i) \o SubSeq(v, i + 1, l) = SubSeq(v, 1, l)
  <2>1. l <= Len(v)
    BY <1>1, <1>6
  <2> QED BY <1>5, <1>6, <2>1, FieldThere
<1>11. /\ SubSeq(v, l + 2, f) \in Seq(Byte) /\ Field(SubSeq(v, l + 2, f)) = SubSeq(v, l + 1, f)
       /\ SubSeq(v, 1, l) \o SubSeq(v, l + 1, f) = SubSeq(v, 1, f)
  <2>1. f <= Len(v)
    BY <1>1, <1>8
  <2> QED BY <1>7, <1>8, <2>1, FieldThere
<1>12. /\ GetU32(v, f) \in Nat /\ U32(GetU32(v, f)) = SubSeq(v, f + 1, f + 4)
       /\ SubSeq(v, 1, f) \o SubSeq(v, f + 1, f + 4) = SubSeq(v, 1, f + 4)
  <2>1. f + 4 <= Len(v) /\ Len(v) \in Nat
    BY <1>1, <1>8
  <2>2. /\ 0 \in 0 .. Len(v) /\ f \in 0 .. Len(v) /\ f + 4 \in f .. Len(v) /\ 0 + 1 = 1
    BY <2>1
  <2>3. SubSeq(v, 0 + 1, f) \o SubSeq(v, f + 1, f + 4) = SubSeq(v, 0 + 1, f + 4)
    BY <2>2, PartsJoin
  <2>4. GetU32(v, f) \in Nat /\ U32(GetU32(v, f)) = SubSeq(v, f + 1, f + 4)
    BY <2>1, LongWordThere
  <2> QED BY <2>2, <2>3, <2>4, Zenon
<1>13. PICK z \in Byte : z = v[f + 5]
  <2>1. f + 5 \in 1 .. Len(v)
    BY <1>1, <1>8
  <2> QED BY <2>1
<1>14. SubSeq(v, 1, f + 4) \o <<z>> = v
  <2>1. /\ 0 \in 0 .. Len(v) /\ f + 4 \in 0 .. Len(v) /\ n \in f + 4 .. Len(v) /\ 0 + 1 = 1
        /\ n - (f + 4) = 1 /\ (f + 4) + 1 = f + 5
    BY <1>1, <1>8
  <2>2. SubSeq(v, 0 + 1, f + 4) \o SubSeq(v, (f + 4) + 1, n) = SubSeq(v, 0 + 1, n)
    BY <2>1, PartsJoin
  <2>3. /\ SubSeq(v, (f + 4) + 1, n) \in Seq(Byte) /\ Len(SubSeq(v, (f + 4) + 1, n)) = 1
        /\ \A j \in 1 .. 1 : SubSeq(v, (f + 4) + 1, n)[j] = v[(f + 4) + j]
    BY <2>1, PartIs
  <2>4. <<z>> \in Seq(Byte) /\ Len(<<z>>) = 1 /\ <<z>>[1] = z
    OBVIOUS
  <2>5. ASSUME NEW j \in 1 .. 1 PROVE SubSeq(v, (f + 4) + 1, n)[j] = <<z>>[j]
    <3>1. j = 1
      OBVIOUS
    <3>2. SubSeq(v, (f + 4) + 1, n)[1] = v[(f + 4) + 1]
      BY <2>3
    <3> QED BY <1>13, <2>1, <2>4, <3>1, <3>2, Zenon
  <2>6. SubSeq(v, (f + 4) + 1, n) = <<z>>
    BY <2>3, <2>4, <2>5, SeqEqual
  <2>7. SubSeq(v, 1, n) = v
    BY <1>1
  <2> QED BY <2>1, <2>2, <2>6, <2>7, Zenon
<1>15. /\ d.valid = TRUE /\ d.id = SubSeq(v, 2, i) /\ d.label = SubSeq(v, i + 2, l)
       /\ d.format = SubSeq(v, l + 2, f)
       /\ d.aggregate_size = GetU32(v, f) /\ d.file_count = z
       /\ d = [valid |-> TRUE, id |-> SubSeq(v, 2, i), label |-> SubSeq(v, i + 2, l),
               format |-> SubSeq(v, l + 2, f),
               aggregate_size |-> GetU32(v, f), file_count |-> z]
  BY <1>4, <1>6, <1>8, <1>13, Zenon
<1> HIDE DEF d
<1>16. d \in Offers
  BY <1>9, <1>10, <1>11, <1>12, <1>15 DEF Offers
<1>17. Encoded(d) = v
  BY <1>9, <1>10, <1>11, <1>12, <1>14, <1>15, Zenon DEF Encoded
<1> QED BY <1>2, <1>16, <1>17, Zenon
-----------------------------------------------------------------------------
(* What is known of a package.                                             *)

\* Of the values ss the last of each text is known, and the number of downloads.
IdKnown(ss, id) == id = <<>> \/ \E i \in LastPlace(ss, TypeId) : id = ss[i].value
TextKnown(ss, t, s) == \A i \in LastPlace(ss, t) : CutFrom(s, ss[i].value, TextSize[t])
CountKnown(ss, n) == n = AtMost(Cardinality(Places(ss, TypeDownload)), CountMax)

\* Of the download seen at i, the n-th, it is known what was sent.
OfferKnown(ss, ds, i, n) ==
  LET d == DownloadFields(ss[i].value)
  IN  Encoded(d) = ss[i].value /\ (n <= DownloadMax => Kept(ds[n], d))
OffersKnown(ss, ds) ==
  LET offered == Places(ss, TypeDownload)
  IN  /\ ds \in Seq(Offers) /\ Len(ds) = AtMost(Cardinality(offered), DownloadMax)
      /\ \A i \in offered : OfferKnown(ss, ds, i, PlaceIn(offered, i))

LEMMA CutIs ==
  ASSUME NEW s \in Seq(Byte), NEW size \in Nat \ {0}
  PROVE  Cut(s, size) \in Seq(Byte) /\ CutFrom(Cut(s, size), s, size)
<1>1. PICK k \in 0 .. Len(s) : k = IF Len(s) < size THEN Len(s) ELSE size - 1
  OBVIOUS
<1>2. Cut(s, size) = SubSeq(s, 1, k)
  BY <1>1, Zenon DEF Cut
<1>3. PICK u \in 0 .. Len(s) : u + 1 = 1 /\ k \in u .. Len(s) /\ k - u = k
  <2>1. 0 \in 0 .. Len(s) /\ 0 + 1 = 1 /\ k \in 0 .. Len(s) /\ k - 0 = k
    OBVIOUS
  <2> QED BY <2>1
<1>4. PICK c \in Seq(Byte) : c = SubSeq(s, 1, k) /\ Len(c) = k
  <2>1. SubSeq(s, u + 1, k) \in Seq(Byte) /\ Len(SubSeq(s, u + 1, k)) = k - u
    BY <1>3, PartIs
  <2> QED BY <1>3, <2>1, Zenon
<1>5. SubSeq(c, 1, Len(c)) = c
  OBVIOUS
<1>6. IsPrefix(c, s)
  <2>1. Len(c) <= Len(s)
    BY <1>4
  <2> QED BY <1>4, <1>5, <2>1 DEF IsPrefix
<1>7. k = AtMost(Len(s), size - 1)
  BY <1>1 DEF AtMost
<1> QED BY <1>2, <1>4, <1>6, <1>7, Zenon DEF CutFrom

\* One value more.
Grown(ss, e, n, tt, t) ==
  /\ tt[n + 1] = e /\ \A i \in 1 .. n : tt[i] = ss[i]
  /\ Places(ss, t) \in SUBSET (1 .. n) /\ LastPlace(ss, t) \in SUBSET (1 .. n)
  /\ e.type # t => Places(tt, t) = Places(ss, t) /\ LastPlace(tt, t) = LastPlace(ss, t)
  /\ e.type = t => Places(tt, t) = Places(ss, t) \cup {n + 1} /\ LastPlace(tt, t) = {n + 1}

LEMMA ValueSeen ==
  ASSUME NEW ss \in Seq(Values), NEW e \in Values, NEW n \in Nat, n = Len(ss),
         NEW tt, tt = Append(ss, e), NEW t
  PROVE  Grown(ss, e, n, tt, t)
<1>1. DOMAIN ss = 1 .. n
  OBVIOUS
<1>2. DOMAIN tt = 1 .. n + 1 /\ tt[n + 1] = e /\ \A i \in 1 .. n : tt[i] = ss[i]
  BY AppendProperties
<1>3. Places(ss, t) \in SUBSET (1 .. n) /\ LastPlace(ss, t) \in SUBSET (1 .. n)
  BY <1>1 DEF Places, LastPlace
<1>4. ASSUME e.type # t
      PROVE  Places(tt, t) = Places(ss, t) /\ LastPlace(tt, t) = LastPlace(ss, t)
  <2>1. Places(tt, t) = Places(ss, t)
    BY <1>1, <1>2, <1>4 DEF Places
  <2> QED BY <2>1 DEF LastPlace
<1>5. ASSUME e.type = t
      PROVE  Places(tt, t) = Places(ss, t) \cup {n + 1} /\ LastPlace(tt, t) = {n + 1}
  <2>1. Places(tt, t) = Places(ss, t) \cup {n + 1}
    BY <1>1, <1>2, <1>5 DEF Places
  <2>2. \A i \in Places(tt, t) : i <= n + 1
    BY <1>3, <2>1
  <2>3. \A i \in Places(ss, t) : ~(n + 1 <= i)
    BY <1>3
  <2> QED BY <2>1, <2>2, <2>3 DEF LastPlace
<1> QED BY <1>2, <1>3, <1>4, <1>5 DEF Grown

LEMMA ValueKnown ==
  ASSUME NEW ss \in Seq(Values), NEW e \in Values, NEW tt, tt = Append(ss, e)
  PROVE  /\ e.type # TypeId => \A id : IdKnown(ss, id) => IdKnown(tt, id)
         /\ e.type = TypeId => IdKnown(tt, e.value)
         /\ \A t, s : e.type # t /\ TextKnown(ss, t, s) => TextKnown(tt, t, s)
         /\ \A s : CutFrom(s, e.value, TextSize[e.type]) => TextKnown(tt, e.type, s)
         /\ e.type # TypeDownload =>
              /\ \A c : CountKnown(ss, c) => CountKnown(tt, c)
              /\ \A ds : OffersKnown(ss, ds) => OffersKnown(tt, ds)
<1>1. PICK n \in Nat : n = Len(ss)
  OBVIOUS
<1>0. \A t : Grown(ss, e, n, tt, t)
  BY <1>1, ValueSeen
<1>2. tt[n + 1] = e /\ \A i \in 1 .. n : tt[i] = ss[i]
  BY <1>0, Zenon DEF Grown
<1>3. e.type # TypeId => \A id : IdKnown(ss, id) => IdKnown(tt, id)
  <2>1. e.type # TypeId =>
          LastPlace(tt, TypeId) = LastPlace(ss, TypeId) /\ LastPlace(ss, TypeId) \in SUBSET (1 .. n)
    BY <1>0, Zenon DEF Grown
  <2> QED BY <1>2, <2>1 DEF IdKnown
<1>4. e.type = TypeId => IdKnown(tt, e.value)
  <2>1. e.type = TypeId => LastPlace(tt, TypeId) = {n + 1}
    BY <1>0, Zenon DEF Grown
  <2> QED BY <1>2, <2>1 DEF IdKnown
<1>5. ASSUME NEW t, NEW s, e.type # t, TextKnown(ss, t, s) PROVE TextKnown(tt, t, s)
  <2>1. LastPlace(tt, t) = LastPlace(ss, t) /\ LastPlace(ss, t) \in SUBSET (1 .. n)
    BY <1>0, <1>5, Zenon DEF Grown
  <2> QED BY <1>2, <1>5, <2>1 DEF TextKnown
<1>6. ASSUME NEW s, CutFrom(s, e.value, TextSize[e.type]) PROVE TextKnown(tt, e.type, s)
  <2>1. LastPlace(tt, e.type) = {n + 1}
    BY <1>0, Zenon DEF Grown
  <2> QED BY <1>2, <1>6, <2>1 DEF TextKnown
<1>7. ASSUME e.type # TypeDownload
      PROVE  /\ \A c : CountKnown(ss, c) => CountKnown(tt, c)
             /\ \A ds : OffersKnown(ss, ds) => OffersKnown(tt, ds)
  <2>1. /\ Places(tt, TypeDownload) = Places(ss, TypeDownload)
        /\ Places(ss, TypeDownload) \in SUBSET (1 .. n)
    BY <1>0, <1>7, Zenon DEF Grown
  <2>2. \A c : CountKnown(ss, c) => CountKnown(tt, c)
    BY <2>1, Zenon DEF CountKnown
  <2>3. \A i \in Places(ss, TypeDownload) : tt[i] = ss[i]
    BY <1>2, <2>1
  <2>4. \A ds : OffersKnown(ss, ds) => OffersKnown(tt, ds)
    BY <2>1, <2>3, Zenon DEF OffersKnown, OfferKnown
  <2> QED BY <2>2, <2>4
<1> QED BY <1>3, <1>4, <1>5, <1>6, <1>7, Zenon

LEMMA Limits == /\ CountMax \in Nat /\ DownloadMax \in Nat
                /\ \A t \in TextTypes \cup {TypeId, TypeDownload} : TextSize[t] \in Nat \ {0}
<1>1. CountMax \in Nat /\ DownloadMax \in Nat
  BY RoomAssumption
<1>2. TextTypes \cup {TypeId, TypeDownload} \subseteq 1 .. 10
  BY DEF TextTypes, TypeId, TypeName, TypeDownload
<1>3. \A t \in 1 .. 10 : TextSize[t] \in Nat \ {0}
  BY RoomAssumption
<1> QED BY <1>1, <1>2, <1>3

\* One more, up to a limit.
LEMMA OneMore ==
  ASSUME NEW m \in Nat, NEW most \in Nat
  PROVE  /\ AtMost(m + 1, most) = IF AtMost(m, most) < most THEN AtMost(m, most) + 1
                                  ELSE AtMost(m, most)
         /\ AtMost(m, most) < most => AtMost(m, most) = m /\ m < most
         /\ AtMost(m, most) >= most => m >= most
BY DEF AtMost

LEMMA DownloadCounted ==
  ASSUME NEW ss \in Seq(Values), NEW e \in Values, NEW tt, tt = Append(ss, e),
         e.type = TypeDownload, NEW c, CountKnown(ss, c)
  PROVE  CountKnown(tt, IF c < CountMax THEN c + 1 ELSE c)
<1>1. PICK n \in Nat : n = Len(ss)
  OBVIOUS
<1>2. Grown(ss, e, n, tt, TypeDownload)
  BY <1>1, ValueSeen
<1>3. PICK P \in SUBSET (1 .. n) : P = Places(ss, TypeDownload)
  BY <1>2 DEF Grown
<1>4. Places(tt, TypeDownload) = P \cup {n + 1}
  BY <1>2, <1>3, Zenon DEF Grown
<1>5. Cardinality(P \cup {n + 1}) = Cardinality(P) + 1 /\ Cardinality(P) \in 0 .. n
  BY NextPosition, SomePositions
<1>6. PICK m \in Nat : m = Cardinality(P) /\ Cardinality(P \cup {n + 1}) = m + 1
  BY <1>5
<1>7. c = AtMost(m, CountMax)
  BY <1>3, <1>6, Zenon DEF CountKnown
<1>8. (IF c < CountMax THEN c + 1 ELSE c) = AtMost(m + 1, CountMax)
  BY <1>7, Limits, OneMore
<1> QED BY <1>4, <1>6, <1>8, Zenon DEF CountKnown

\* A download more, kept while there is room.
LEMMA DownloadTaken ==
  ASSUME NEW ss \in Seq(Values), NEW e \in Values, NEW tt, tt = Append(ss, e),
         e.type = TypeDownload, NEW ds, OffersKnown(ss, ds),
         NEW d, d = DownloadFields(e.value), Encoded(d) = e.value
  PROVE  /\ Len(ds) >= DownloadMax => OffersKnown(tt, ds)
         /\ \A k \in Offers : Len(ds) < DownloadMax /\ Kept(k, d) => OffersKnown(tt, Append(ds, k))
<1>1. PICK n \in Nat : n = Len(ss)
  OBVIOUS
<1>2. Grown(ss, e, n, tt, TypeDownload)
  BY <1>1, ValueSeen
<1>3. PICK P \in SUBSET (1 .. n) : P = Places(ss, TypeDownload)
  BY <1>2 DEF Grown
<1>4. PICK T : T = P \cup {n + 1} /\ T = Places(tt, TypeDownload)
  BY <1>2, <1>3, Zenon DEF Grown
<1>5. PICK m \in Nat : m = Cardinality(P) /\ Cardinality(T) = m + 1 /\ PlaceIn(T, n + 1) = m + 1
  <2>1. Cardinality(P) \in 0 .. n
    BY SomePositions
  <2>2. Cardinality(T) = Cardinality(P) + 1 /\ PlaceIn(T, n + 1) = Cardinality(P) + 1
    BY <1>4, NextPosition
  <2> QED BY <2>1, <2>2
<1>6. \A i \in P : PlaceIn(T, i) = PlaceIn(P, i) /\ PlaceIn(P, i) \in 1 .. m
  BY <1>4, <1>5, NextPosition
<1>7. /\ ds \in Seq(Offers) /\ Len(ds) = AtMost(m, DownloadMax)
      /\ \A i \in P : OfferKnown(ss, ds, i, PlaceIn(P, i))
  BY <1>3, <1>5, Zenon DEF OffersKnown
<1>8. \A i \in P : tt[i] = ss[i]
  BY <1>2 DEF Grown
<1>9. tt[n + 1] = e /\ \A i \in T : i \in P \/ i = n + 1
  BY <1>2, <1>4 DEF Grown
<1>0. PICK most \in Nat, had \in Nat, has \in Nat :
         /\ most = DownloadMax /\ had = Len(ds) /\ has = AtMost(m + 1, DownloadMax)
         /\ has = IF had < most THEN had + 1 ELSE had
         /\ (had < most => had = m) /\ (had >= most => m >= most)
  <2>1. PICK most \in Nat : most = DownloadMax
    BY Limits
  <2>2. PICK had \in Nat : had = Len(ds) /\ had = AtMost(m, most)
    BY <1>7, <2>1
  <2>3. /\ AtMost(m + 1, most) = IF had < most THEN had + 1 ELSE had
        /\ (had < most => had = m) /\ (had >= most => m >= most)
    <3>1. /\ AtMost(m + 1, most) = IF AtMost(m, most) < most THEN AtMost(m, most) + 1
                                   ELSE AtMost(m, most)
          /\ AtMost(m, most) < most => AtMost(m, most) = m /\ m < most
          /\ AtMost(m, most) >= most => m >= most
      BY OneMore, Zenon
    <3> QED BY <2>2, <3>1, Zenon
  <2>4. PICK has \in Nat : has = AtMost(m + 1, most)
    BY <2>3
  <2> QED BY <2>1, <2>2, <2>3, <2>4, Zenon
<1>10. ASSUME Len(ds) >= DownloadMax PROVE OffersKnown(tt, ds)
  <2>1. Len(ds) = AtMost(m + 1, DownloadMax) /\ ~(m + 1 <= DownloadMax)
    BY <1>0, <1>10
  <2>2. ASSUME NEW i \in P PROVE OfferKnown(tt, ds, i, PlaceIn(T, i))
    BY <1>6, <1>7, <1>8, Zenon DEF OfferKnown
  <2>3. OfferKnown(tt, ds, n + 1, m + 1)
    BY <1>9, <2>1, Zenon DEF OfferKnown
  <2>4. \A i \in T : OfferKnown(tt, ds, i, PlaceIn(T, i))
    BY <1>5, <1>9, <2>2, <2>3, Zenon
  <2> QED BY <1>4, <1>5, <1>7, <2>1, <2>4, Zenon DEF OffersKnown
<1>11. ASSUME NEW k \in Offers, Len(ds) < DownloadMax, Kept(k, d)
       PROVE  OffersKnown(tt, Append(ds, k))
  <2>1. PICK es : es = Append(ds, k)
    OBVIOUS
  <2>2. m + 1 = AtMost(m + 1, DownloadMax) /\ Len(ds) = m
    BY <1>0, <1>11
  <2>3. /\ es \in Seq(Offers) /\ Len(es) = m + 1 /\ es[m + 1] = k
        /\ \A p \in 1 .. m : es[p] = ds[p]
    BY <1>7, <2>1, <2>2, AppendProperties
  <2>4. ASSUME NEW i \in P PROVE OfferKnown(tt, es, i, PlaceIn(T, i))
    <3>1. es[PlaceIn(P, i)] = ds[PlaceIn(P, i)]
      BY <1>6, <2>3
    <3> QED BY <1>6, <1>7, <1>8, <3>1, Zenon DEF OfferKnown
  <2>5. OfferKnown(tt, es, n + 1, m + 1)
    BY <1>9, <1>11, <2>3, Zenon DEF OfferKnown
  <2>6. \A i \in T : OfferKnown(tt, es, i, PlaceIn(T, i))
    BY <1>5, <1>9, <2>4, <2>5, Zenon
  <2> QED BY <1>4, <1>5, <2>1, <2>2, <2>3, <2>6, Zenon DEF OffersKnown
<1> QED BY <1>10, <1>11, Zenon

\* paket_package_info.
Infos == [id : Seq(Byte), texts : [TextTypes -> Seq(Byte)], year : Nat, rating : Byte,
          count : Nat, downloads : Seq(Offers)]

\* What is known of a package, inf, once the values ss have been seen.
Knows(ss, inf) ==
  /\ inf \in Infos
  /\ IdKnown(ss, inf.id) /\ \A t \in TextTypes : TextKnown(ss, t, inf.texts[t])
  /\ CountKnown(ss, inf.count) /\ OffersKnown(ss, inf.downloads)

\* inf has these fields, whatever its year and its rating.
Has(inf, id, texts, count, downloads) ==
  /\ inf \in Infos
  /\ inf.id = id /\ inf.texts = texts /\ inf.count = count /\ inf.downloads = downloads

LEMMA FieldSet ==
  ASSUME NEW inf \in Infos
  PROVE  /\ \A x \in Seq(Byte) :
              Has([inf EXCEPT !["id"] = x], x, inf.texts, inf.count, inf.downloads)
         /\ \A x \in [TextTypes -> Seq(Byte)] :
              Has([inf EXCEPT !["texts"] = x], inf.id, x, inf.count, inf.downloads)
         /\ \A x \in Nat :
              Has([inf EXCEPT !["year"] = x], inf.id, inf.texts, inf.count, inf.downloads)
         /\ \A x \in Byte :
              Has([inf EXCEPT !["rating"] = x], inf.id, inf.texts, inf.count, inf.downloads)
         /\ \A x \in Nat :
              Has([inf EXCEPT !["count"] = x], inf.id, inf.texts, x, inf.downloads)
         /\ \A x \in Nat, y \in Seq(Offers) :
              Has([inf EXCEPT !.count = x, !.downloads = y], inf.id, inf.texts, x, y)
<1> DEFINE A == Seq(Byte)
           B == [TextTypes -> Seq(Byte)]
           C == Seq(Offers)
           D == Byte
<1>1. Infos = [id : A, texts : B, year : Nat, rating : D, count : Nat, downloads : C]
  BY DEF Infos
<1> HIDE DEF A, B, C, D
<1>2. \A x \in A : Has([inf EXCEPT !["id"] = x], x, inf.texts, inf.count, inf.downloads)
  BY <1>1 DEF Has
<1>3. \A x \in B : Has([inf EXCEPT !["texts"] = x], inf.id, x, inf.count, inf.downloads)
  BY <1>1 DEF Has
<1>4. \A x \in Nat : Has([inf EXCEPT !["year"] = x], inf.id, inf.texts, inf.count, inf.downloads)
  BY <1>1 DEF Has
<1>5. \A x \in D : Has([inf EXCEPT !["rating"] = x], inf.id, inf.texts, inf.count, inf.downloads)
  BY <1>1 DEF Has
<1>6. \A x \in Nat : Has([inf EXCEPT !["count"] = x], inf.id, inf.texts, x, inf.downloads)
  BY <1>1 DEF Has
<1>7. \A x \in Nat, y \in C :
        Has([inf EXCEPT !.count = x, !.downloads = y], inf.id, inf.texts, x, y)
  BY <1>1 DEF Has
<1> QED BY <1>2, <1>3, <1>4, <1>5, <1>6, <1>7 DEF A, B, C, D

LEMMA OtherTexts ==
  ASSUME NEW ss \in Seq(Values), NEW e \in Values, NEW tt, tt = Append(ss, e),
         NEW texts, \A t \in TextTypes : TextKnown(ss, t, texts[t])
  PROVE  \A t \in TextTypes : t # e.type => TextKnown(tt, t, texts[t])
<1> TAKE t \in TextTypes
<1>1. PICK s : s = texts[t] /\ TextKnown(ss, t, s)
  OBVIOUS
<1>2. e.type # t /\ TextKnown(ss, t, s) => TextKnown(tt, t, s)
  BY ValueKnown
<1> QED BY <1>1, <1>2

\* A value of another kind leaves what is known as it is.
LEMMA StillKnown ==
  ASSUME NEW ss \in Seq(Values), NEW e \in Values, NEW tt, tt = Append(ss, e),
         NEW inf, Knows(ss, inf), NEW i,
         e.type \notin TextTypes \cup {TypeId, TypeDownload},
         Has(i, inf.id, inf.texts, inf.count, inf.downloads)
  PROVE  Knows(tt, i)
<1>1. IdKnown(tt, i.id) /\ CountKnown(tt, i.count) /\ OffersKnown(tt, i.downloads)
  BY ValueKnown, Zenon DEF Knows, Has
<1>2. \A t \in TextTypes : TextKnown(tt, t, i.texts[t])
  BY OtherTexts, Zenon DEF Knows, Has
<1> QED BY <1>1, <1>2 DEF Knows, Has

LEMMA TypesDiffer == TypeId # TypeDownload /\ TypeId \notin TextTypes /\ TypeDownload \notin TextTypes
BY DEF TypeId, TypeName, TypeDownload, TextTypes

LEMMA IdTaken ==
  ASSUME NEW ss \in Seq(Values), NEW e \in Values, NEW tt, tt = Append(ss, e),
         NEW inf, Knows(ss, inf), NEW i,
         e.type = TypeId, Has(i, e.value, inf.texts, inf.count, inf.downloads)
  PROVE  Knows(tt, i)
<1>1. IdKnown(tt, i.id) /\ CountKnown(tt, i.count) /\ OffersKnown(tt, i.downloads)
  BY ValueKnown, TypesDiffer, Zenon DEF Knows, Has
<1>2. \A t \in TextTypes : TextKnown(tt, t, i.texts[t])
  BY OtherTexts, TypesDiffer, Zenon DEF Knows, Has
<1> QED BY <1>1, <1>2 DEF Knows, Has

LEMMA TextTaken ==
  ASSUME NEW ss \in Seq(Values), NEW e \in Values, NEW tt, tt = Append(ss, e),
         NEW inf, Knows(ss, inf), NEW i, NEW s, CutFrom(s, e.value, TextSize[e.type]), e.type \in TextTypes,
         Has(i, inf.id, [inf.texts EXCEPT ![e.type] = s], inf.count, inf.downloads)
  PROVE  Knows(tt, i)
<1>1. e.type # TypeId /\ e.type # TypeDownload
  BY TypesDiffer
<1>2. IdKnown(tt, i.id) /\ CountKnown(tt, i.count) /\ OffersKnown(tt, i.downloads)
  BY <1>1, ValueKnown, Zenon DEF Knows, Has
<1>3. i.texts[e.type] = s /\ \A t \in TextTypes : t # e.type => i.texts[t] = inf.texts[t]
  <2>1. PICK f : f = inf.texts /\ f \in [TextTypes -> Seq(Byte)]
    BY DEF Knows, Infos
  <2>2. i.texts = [f EXCEPT ![e.type] = s]
    BY <2>1, Zenon DEF Has
  <2> QED BY <2>1, <2>2
<1>4. TextKnown(tt, e.type, s) /\ \A t \in TextTypes : t # e.type => TextKnown(tt, t, inf.texts[t])
  <2>1. TextKnown(tt, e.type, s)
    BY ValueKnown
  <2>2. \A t \in TextTypes : t # e.type => TextKnown(tt, t, inf.texts[t])
    BY OtherTexts, Zenon DEF Knows
  <2> QED BY <2>1, <2>2, Zenon
<1>5. \A t \in TextTypes : TextKnown(tt, t, i.texts[t])
  BY <1>3, <1>4, Zenon
<1> QED BY <1>2, <1>5 DEF Knows, Has

LEMMA OfferTaken ==
  ASSUME NEW ss \in Seq(Values), NEW e \in Values, NEW tt, tt = Append(ss, e),
         NEW inf, Knows(ss, inf), NEW i, e.type = TypeDownload,
         DownloadFields(e.value).valid,
         NEW c, c = IF inf.count < CountMax THEN inf.count + 1 ELSE inf.count,
         NEW ds,
         \/ Len(inf.downloads) >= DownloadMax /\ ds = inf.downloads
         \/ /\ Len(inf.downloads) < DownloadMax
            /\ \E k \in Offers : Kept(k, DownloadFields(e.value)) /\ ds = Append(inf.downloads, k),
         Has(i, inf.id, inf.texts, c, ds)
  PROVE  Knows(tt, i)
<1>1. e.value \in Seq(Byte)
  BY DEF Values
<1>2. Encoded(DownloadFields(e.value)) = e.value
  BY <1>1, DownloadDecoded
<1>3. IdKnown(tt, i.id)
  BY ValueKnown, TypesDiffer, Zenon DEF Knows, Has
<1>4. \A t \in TextTypes : TextKnown(tt, t, i.texts[t])
  BY OtherTexts, TypesDiffer, Zenon DEF Knows, Has
<1>5. CountKnown(tt, i.count)
  BY DownloadCounted, Zenon DEF Knows, Has
<1>6. OffersKnown(tt, ds)
  BY <1>2, DownloadTaken, Zenon DEF Knows
<1> QED BY <1>3, <1>4, <1>5, <1>6 DEF Knows, Has

\* The call ends without success; or nothing happens to it.
Refused == stage' = "returned" /\ outcome' # "ok"
GoesOn  == stage' = stage /\ outcome' = outcome

\* What becomes of a value of each type.
LEMMA ValueTaken ==
  ASSUME CollectValue, NEW type, NEW v, type = packet[used + 1], v = View(used + 1)
  PROVE  /\ seen' = Append(seen, [type |-> type, value |-> v])
         /\ type = TypeId => IF TooLong(v) THEN Reject("too long") ELSE Store("id", v)
         /\ type \in TextTypes => Store("texts", [info.texts EXCEPT ![type] = Cut(v, TextSize[type])])
         /\ type = TypeYear => IF Len(v) # 2 THEN Reject("invalid response")
                               ELSE Store("year", GetU16(v, 0))
         /\ type = TypeRating => IF Len(v) # 1 THEN Reject("invalid response")
                                 ELSE Store("rating", v[1])
         /\ type = TypeDownload => CollectDownload(DownloadFields(v))
         /\ type \notin TextTypes \cup {TypeId, TypeYear, TypeRating, TypeDownload} =>
              UNCHANGED <<info, stage, outcome>>
<1> DEFINE A == IF TooLong(v) THEN Reject("too long") ELSE Store("id", v)
           B == Store("texts", [info.texts EXCEPT ![type] = Cut(v, TextSize[type])])
           C == IF Len(v) # 2 THEN Reject("invalid response") ELSE Store("year", GetU16(v, 0))
           D == IF Len(v) # 1 THEN Reject("invalid response") ELSE Store("rating", v[1])
           F == CollectDownload(DownloadFields(v))
           G == UNCHANGED <<info, stage, outcome>>
<1>1. /\ seen' = Append(seen, [type |-> type, value |-> v])
      /\ CASE type = TypeId -> A [] type \in TextTypes -> B [] type = TypeYear -> C
           [] type = TypeRating -> D [] type = TypeDownload -> F [] OTHER -> G
  BY Zenon DEF CollectValue
<1> HIDE DEF A, B, C, D, F, G
<1>2. /\ type = TypeId => A
      /\ type \in TextTypes => B
      /\ type = TypeYear => C
      /\ type = TypeRating => D
      /\ type = TypeDownload => F
      /\ type \notin TextTypes \cup {TypeId, TypeYear, TypeRating, TypeDownload} => G
  BY <1>1 DEF TypeId, TypeName, TypeYear, TypeRating, TypeDownload, TextTypes
<1> QED BY <1>1, <1>2, Zenon DEF A, B, C, D, F, G

\* A download is kept with its texts cut to their room.
LEMMA OfferCut ==
  ASSUME NEW d \in Offers
  PROVE  LET k == [d EXCEPT !.label = Cut(@, TextSize[TypeName]),
                            !.format = Cut(@, TextSize[TypeDownload])]
         IN  k \in Offers /\ Kept(k, d)
<1> DEFINE S == Seq(Byte)
           B == Byte
<1>1. /\ d \in [valid : {TRUE}, id : S, label : S, format : S, aggregate_size : Nat, file_count : B]
      /\ d.label \in Seq(Byte) /\ d.format \in Seq(Byte)
  <2>1. d \in [valid : {TRUE}, id : S, label : S, format : S, aggregate_size : Nat, file_count : B]
    BY DEF Offers
  <2> HIDE DEF S, B
  <2>2. d.label \in S /\ d.format \in S
    BY <2>1
  <2> QED BY <2>1, <2>2 DEF S, B
<1>2. TextSize[TypeName] \in Nat \ {0} /\ TextSize[TypeDownload] \in Nat \ {0}
  <2>1. TypeName \in TextTypes
    BY DEF TextTypes
  <2> QED BY <2>1, Limits
<1>3. PICK l \in Seq(Byte), f \in Seq(Byte) :
         /\ l = Cut(d.label, TextSize[TypeName]) /\ f = Cut(d.format, TextSize[TypeDownload])
         /\ CutFrom(l, d.label, TextSize[TypeName])
         /\ CutFrom(f, d.format, TextSize[TypeDownload])
  BY <1>1, <1>2, CutIs
<1>4. l \in S /\ f \in S
  OBVIOUS
<1> HIDE DEF S, B
<1> DEFINE k == [d EXCEPT !.label = l, !.format = f]
<1>5. /\ k \in [valid : {TRUE}, id : S, label : S, format : S, aggregate_size : Nat, file_count : B]
      /\ k.id = d.id /\ k.label = l /\ k.format = f
      /\ k.aggregate_size = d.aggregate_size /\ k.file_count = d.file_count
  BY <1>1, <1>4
<1>6. k \in Offers /\ Kept(k, d)
  BY <1>3, <1>5, Zenon DEF Offers, Kept, S, B
<1>7. k = [d EXCEPT !.label = Cut(@, TextSize[TypeName]), !.format = Cut(@, TextSize[TypeDownload])]
  BY <1>1, <1>3, <1>4
<1> QED BY <1>6, <1>7, Zenon

LEMMA ValueCollected ==
  ASSUME ClientInv, SeenOK, OnAPage, Knows(seen, info), CollectValue
  PROVE  \/ Refused
         \/ GoesOn /\ Knows(seen', info')
<1> USE DEF Refused, GoesOn
<1>1. call = "info" /\ Kind = Values /\ seen \in Seq(Values)
  BY DEF CollectValue, Kind, Catalog, SeenOK
<1>2. PICK type \in Byte, v \in Seq(Byte) : type = packet[used + 1] /\ v = View(used + 1)
  BY ValueShown
<1>3. PICK e \in Values : e = [type |-> type, value |-> v] /\ e.type = type /\ e.value = v
  <2> DEFINE S == Seq(Byte)
             e == [type |-> type, value |-> v]
  <2>1. v \in S
    OBVIOUS
  <2> HIDE DEF S
  <2>2. e \in [type : Byte, value : S] /\ e.type = type /\ e.value = v
    BY <2>1
  <2> HIDE DEF e
  <2>3. e \in Values
    BY <2>2, Zenon DEF S, Values
  <2> QED BY <2>2, <2>3 DEF e
<1>4. PICK tt : tt = Append(seen, e) /\ seen' = tt
  BY <1>2, <1>3, ValueTaken
<1>5. info \in Infos
  BY DEF Knows
<1>6. CASE type = TypeId
  <2>1. IF TooLong(v) THEN Reject("too long") ELSE Store("id", v)
    BY <1>2, <1>6, ValueTaken
  <2>2. CASE Reject("too long")
    BY <2>2 DEF Reject, Return
  <2>3. CASE Store("id", v)
    <3>1. GoesOn /\ Has(info', v, info.texts, info.count, info.downloads)
      BY <1>5, <2>3, FieldSet, Zenon DEF Store
    <3> QED BY <1>1, <1>3, <1>4, <1>6, <3>1, IdTaken
  <2> QED BY <2>1, <2>2, <2>3
<1>7. CASE type \in TextTypes
  <2>1. PICK s : s = Cut(v, TextSize[type]) /\ s \in Seq(Byte) /\ CutFrom(s, v, TextSize[type])
    BY <1>7, Limits, CutIs
  <2>2. Store("texts", [info.texts EXCEPT ![type] = s])
    BY <1>2, <1>7, <2>1, ValueTaken, Zenon
  <2>3. [info.texts EXCEPT ![type] = s] \in [TextTypes -> Seq(Byte)]
    <3>1. PICK f : f = info.texts /\ f \in [TextTypes -> Seq(Byte)]
      BY <1>5 DEF Infos
    <3>2. [f EXCEPT ![type] = s] \in [TextTypes -> Seq(Byte)]
      BY <2>1, <3>1, Zenon
    <3> QED BY <3>1, <3>2, Zenon
  <2>4. GoesOn /\ Has(info', info.id, [info.texts EXCEPT ![type] = s], info.count, info.downloads)
    BY <1>5, <2>2, <2>3, FieldSet, Zenon DEF Store
  <2> QED BY <1>1, <1>3, <1>4, <1>7, <2>1, <2>4, TextTaken
<1>8. CASE type \notin TextTypes \cup {TypeId, TypeDownload}
  <2>1. \/ Refused
        \/ GoesOn /\ Has(info', info.id, info.texts, info.count, info.downloads)
    <3>1. CASE type = TypeYear
      <4>1. IF Len(v) # 2 THEN Reject("invalid response") ELSE Store("year", GetU16(v, 0))
        BY <1>2, <3>1, ValueTaken
      <4>2. CASE Len(v) # 2
        BY <4>1, <4>2 DEF Reject, Return
      <4>3. CASE Len(v) = 2
        <5>1. v[1] \in Byte /\ v[2] \in Byte
          <6>1. \A i \in 1 .. Len(v) : v[i] \in Byte
            OBVIOUS
          <6>2. 1 \in 1 .. Len(v) /\ 2 \in 1 .. Len(v)
            BY <4>3
          <6> QED BY <6>1, <6>2
        <5>2. GetU16(v, 0) \in Nat
          <6>1. PICK a \in Nat, b \in Nat : a = v[1] /\ b = v[2]
            BY <5>1, ByteIs
          <6>2. 0 + 1 = 1 /\ 0 + 2 = 2
            OBVIOUS
          <6>3. GetU16(v, 0) = a + 256 * b
            BY <6>1, <6>2, Zenon DEF GetU16
          <6> QED BY <6>3
        <5>3. Store("year", GetU16(v, 0))
          BY <4>1, <4>3
        <5> QED BY <1>5, <5>2, <5>3, FieldSet, Zenon DEF Store
      <4> QED BY <4>2, <4>3
    <3>2. CASE type = TypeRating
      <4>1. IF Len(v) # 1 THEN Reject("invalid response") ELSE Store("rating", v[1])
        BY <1>2, <3>2, ValueTaken
      <4>2. CASE Len(v) # 1
        BY <4>1, <4>2 DEF Reject, Return
      <4>3. CASE Len(v) = 1
        <5>1. v[1] \in Byte
          BY <4>3
        <5>2. Store("rating", v[1])
          BY <4>1, <4>3
        <5> QED BY <1>5, <5>1, <5>2, FieldSet, Zenon DEF Store
      <4> QED BY <4>2, <4>3
    <3>3. CASE type \notin {TypeYear, TypeRating}
      <4>1. UNCHANGED <<info, stage, outcome>>
        BY <1>2, <1>8, <3>3, ValueTaken
      <4> QED BY <1>5, <4>1 DEF Has
    <3> QED BY <3>1, <3>2, <3>3
  <2> QED BY <1>1, <1>3, <1>4, <1>8, <2>1, StillKnown
<1>9. CASE type = TypeDownload
  <2>1. CollectDownload(DownloadFields(v))
    BY <1>2, <1>9, ValueTaken
  <2> DEFINE d == DownloadFields(v)
             c == IF info.count < CountMax THEN info.count + 1 ELSE info.count
             Fits(k) == Kept(k, d) /\ k \in Offers
  <2>2. c \in Nat /\ Counted = c
    <3>1. info.count \in Nat
      BY <1>5 DEF Infos
    <3>2. c \in Nat
      BY <3>1
    <3> QED BY <3>2, Zenon DEF Counted
  <2>3. CASE ~d.valid
    <3>1. Reject("invalid response")
      BY <2>1, <2>3 DEF CollectDownload
    <3> QED BY <3>1 DEF Reject, Return
  <2>4. CASE d.valid /\ Len(info.downloads) >= DownloadMax
    <3>1. Store("count", c)
      BY <2>1, <2>2, <2>4 DEF CollectDownload
    <3>2. GoesOn /\ Has(info', info.id, info.texts, c, info.downloads)
      BY <1>5, <2>2, <3>1, FieldSet, Zenon DEF Store
    <3> QED BY <1>1, <1>3, <1>4, <1>9, <2>4, <3>2, OfferTaken
  <2>5. CASE d.valid /\ ~(Len(info.downloads) >= DownloadMax) /\ TooLong(d.id)
    <3>1. Return("too long")
      BY <2>1, <2>5 DEF CollectDownload
    <3> QED BY <3>1 DEF Return
  <2>6. CASE d.valid /\ ~(Len(info.downloads) >= DownloadMax) /\ ~TooLong(d.id)
    <3> DEFINE k == [d EXCEPT !.label = Cut(@, TextSize[TypeName]),
                              !.format = Cut(@, TextSize[TypeDownload])]
    <3>1. /\ info' = [info EXCEPT !.count = Counted, !.downloads = Append(@, k)]
          /\ UNCHANGED <<stage, outcome>>
      BY <2>1, <2>6, Zenon DEF CollectDownload
    <3>2. k \in Offers /\ Kept(k, d)
      <4>1. d \in Offers
        BY <2>6, DownloadDecoded
      <4> QED BY <4>1, OfferCut
    <3> HIDE DEF k
    <3>3. PICK ds : ds = Append(info.downloads, k) /\ ds \in Seq(Offers)
      <4>1. info.downloads \in Seq(Offers)
        BY <1>5 DEF Infos
      <4>2. PICK a \in Seq(Offers), b \in Offers : a = info.downloads /\ b = k
        BY <3>2, <4>1
      <4>3. Append(a, b) \in Seq(Offers)
        BY AppendProperties
      <4> QED BY <4>2, <4>3, Zenon
    <3>4. info' = [info EXCEPT !.count = c, !.downloads = ds]
      BY <2>2, <3>1, <3>3, Zenon
    <3>5. Has(info', info.id, info.texts, c, ds)
      BY <1>5, <2>2, <3>3, <3>4, FieldSet, Zenon
    <3>6. Len(info.downloads) < DownloadMax
      <4>1. Len(info.downloads) \in Nat
        BY <1>5 DEF Infos
      <4> QED BY <2>6, <4>1, Limits
    <3> HIDE DEF d
    <3>7. Knows(tt, info')
      BY <1>1, <1>3, <1>4, <1>9, <2>6, <3>2, <3>3, <3>5, <3>6, OfferTaken DEF d
    <3> QED BY <1>4, <3>1, <3>7
  <2> QED BY <2>3, <2>4, <2>5, <2>6
<1> QED BY <1>6, <1>7, <1>8, <1>9

\* Until a metadata call has failed, all it has seen is known, and it ends well
\* only with an id.
InfoInv ==
  call = "info" /\ (stage # "returned" \/ outcome = "ok") =>
    Knows(seen, info) /\ (outcome = "ok" => info.id # <<>>)

LEMMA NothingKnown == Knows(<<>>, NoInfo)
<1>1. \A t : Places(<<>>, t) = {} /\ LastPlace(<<>>, t) = {}
  <2>1. DOMAIN <<>> = {}
    OBVIOUS
  <2> QED BY <2>1 DEF Places, LastPlace
<1>2. NoInfo \in Infos
  <2> DEFINE A == Seq(Byte)
             C == Seq(Offers)
             D == Byte
             f == [t \in TextTypes |-> <<>>]
  <2>1. <<>> \in A /\ <<>> \in C
    OBVIOUS
  <2>2. 0 \in D
    BY DEF Byte
  <2> HIDE DEF A, C, D
  <2>3. f \in [TextTypes -> A]
    BY <2>1
  <2> HIDE DEF f
  <2>4. [id |-> <<>>, texts |-> f, year |-> 0, rating |-> 0, count |-> 0, downloads |-> <<>>]
        \in [id : A, texts : [TextTypes -> A], year : Nat, rating : D, count : Nat, downloads : C]
    BY <2>1, <2>2, <2>3
  <2> QED BY <2>4, Zenon DEF NoInfo, Infos, A, C, D, f
<1>3. Cardinality({}) = 0
  BY FS_EmptySet
<1>4. AtMost(0, CountMax) = 0 /\ AtMost(0, DownloadMax) = 0
  BY Limits DEF AtMost
<1>5. NoInfo.id = <<>> /\ NoInfo.count = 0 /\ NoInfo.downloads = <<>>
  BY DEF NoInfo
<1>6. CountKnown(<<>>, 0)
  BY <1>1, <1>3, <1>4, Zenon DEF CountKnown
<1>7. OffersKnown(<<>>, <<>>)
  <2>1. <<>> \in Seq(Offers) /\ Len(<<>>) = 0
    OBVIOUS
  <2> QED BY <1>1, <1>3, <1>4, <2>1, Zenon DEF OffersKnown
<1>8. IdKnown(<<>>, <<>>)
  BY Zenon DEF IdKnown
<1>9. \A t, s : TextKnown(<<>>, t, s)
  BY <1>1, Zenon DEF TextKnown
<1> QED BY <1>2, <1>5, <1>6, <1>7, <1>8, <1>9, Zenon DEF Knows

LEMMA InfoStep ==
  ASSUME ClientInv, PagesInv, InfoInv, [HostedNext]_hostedVars PROVE InfoInv'
<1> SUFFICES ASSUME call' = "info" PROVE InfoInv'
  BY DEF InfoInv
<1>1. call = "info" /\ Paged /\ ~Catalog
  <2>1. call' = call
    BY DEF HostedNext, hostedVars, inputVars, BuildRequest, ExchangeFails, Exchange, NoAnswer,
       ServerError, Accept, CheckCapabilities, VisitEntry, CollectValue, EndOfPage, TakeChunk,
       Returned
  <2> QED BY <2>1 DEF Paged, Catalog
<1>2. CASE CollectValue
  <2>1. stage = "read"
    BY <1>2 DEF CollectValue, ElementLeft
  <2>2. SeenOK /\ OnAPage /\ outcome = "none" /\ Knows(seen, info)
    BY <1>1, <2>1 DEF PagesInv, OnAPage, InfoInv
  <2>3. Refused \/ (GoesOn /\ Knows(seen', info'))
    BY <1>2, <2>2, ValueCollected
  <2> QED BY <2>2, <2>3 DEF InfoInv, Refused, GoesOn
\* The others learn nothing.
<1> DEFINE Rests == /\ UNCHANGED <<call, seen, info>>
                    /\ \/ outcome' = outcome /\ (stage = "returned" => stage' = "returned")
                       \/ Refused
<1>3. CASE Rests
  BY <1>3 DEF InfoInv, Refused
<1>4. CASE EndOfPage
  <2>1. /\ stage = "read" /\ UNCHANGED <<call, seen, info>>
        /\ \/ GoesOn \/ Return(Finding) \/ Refused \/ Go("build")
    BY <1>4 DEF EndOfPage, Return, Refused, inputVars, foundVars, histVars
  <2>2. Knows(seen, info) /\ outcome = "none"
    BY <1>1, <2>1 DEF InfoInv, PagesInv
  <2>3. Finding = "ok" => info.id # <<>>
    BY <1>1 DEF Finding
  <2>4. outcome' = "ok" => info.id # <<>>
    BY <2>1, <2>2, <2>3 DEF Return, Go, GoesOn, Refused
  <2> QED BY <2>1, <2>2, <2>4 DEF InfoInv
<1>5. BuildRequest \/ ExchangeFails \/ Exchange \/ NoAnswer \/ ServerError \/ Accept => Rests
  BY <1>1 DEF BuildRequest, BuildInfo, ExchangeFails, Exchange, NoAnswer, ServerError, Accept,
     Go, Return, Refused, inputVars, foundVars, histVars
<1>6. ~(CheckCapabilities \/ VisitEntry \/ TakeChunk)
  BY <1>1 DEF CheckCapabilities, VisitEntry, TakeChunk
<1>7. Returned \/ UNCHANGED hostedVars => Rests
  BY DEF Returned, hostedVars, inputVars, foundVars, histVars
<1> HIDE DEF Rests
<1> QED BY <1>2, <1>3, <1>4, <1>5, <1>6, <1>7 DEF HostedNext

\* At every step of a metadata call what is known of the package is what the
\* values so far said.
THEOREM InfoKnown == HostedSpec => []InfoInv
<1>1. HostedInit => InfoInv
  BY NothingKnown DEF HostedInit, InfoInv
<1> QED BY <1>1, InfoStep, ClientKnown, PagesKnown, PTL DEF HostedSpec

\* What is known of a package is what its pages said: the last of each text, and
\* of its downloads how many there are and the first ones, every byte of theirs
\* accounted for (collect_info_entry in client.c over rv_decode_download in
\* retrovault.c).
THEOREM InfoIsExact == HostedSpec => []InfoExact
<1>1. ASSUME InfoInv PROVE InfoExact
  <2>1. SUFFICES ASSUME call = "info", outcome = "ok" PROVE InfoExact
    BY DEF InfoExact
  <2>2. Knows(seen, info) /\ info.id # <<>>
    BY <1>1, <2>1 DEF InfoInv
  <2>3. \E i \in LastPlace(seen, TypeId) : info.id = seen[i].value
    BY <2>2, Zenon DEF Knows, IdKnown
  <2>4. \A t \in TextTypes : \A i \in LastPlace(seen, t) :
          CutFrom(info.texts[t], seen[i].value, TextSize[t])
    BY <2>2, Zenon DEF Knows, TextKnown
  <2>5. /\ info.count = AtMost(Cardinality(Places(seen, TypeDownload)), CountMax)
        /\ Len(info.downloads) = AtMost(Cardinality(Places(seen, TypeDownload)), DownloadMax)
        /\ \A i \in Places(seen, TypeDownload) :
             OfferKnown(seen, info.downloads, i, PlaceIn(Places(seen, TypeDownload), i))
    BY <2>2, Zenon DEF Knows, CountKnown, OffersKnown
  <2> QED BY <2>3, <2>4, <2>5, Zenon DEF InfoExact, OfferKnown
<1> QED BY <1>1, InfoKnown, PTL
=============================================================================
