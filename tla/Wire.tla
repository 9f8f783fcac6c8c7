-------------------------------- MODULE Wire --------------------------------
(***************************************************************************)
(* The Retro Vault packets of src/src/retrovault.c.  A byte is a number, a *)
(* packet buffer a sequence of PacketMax of them, of which a message fills *)
(* the first n; what lies behind is left from the message before.          *)
(* Positions start at 1; "used" is the offset of the code, from 0.         *)
(***************************************************************************)
EXTENDS Integers, Sequences

CONSTANT PacketMax  \* RV_PACKET_MAX

ASSUME PacketAssumption == PacketMax \in 11 .. 255

CursorEnd == 65535
ResponseBit == 128
OpCapabilities == 0
OpList     == 1
OpSearch   == 2
OpInfo     == 3
OpDownload == 4

Byte == 0 .. 255

U16(v) == <<v % 256, v \div 256>>
U32(v) == <<v % 256, (v \div 256) % 256, (v \div 65536) % 256, v \div 16777216>>
GetU16(b, used) == b[used + 1] + 256 * b[used + 2]
GetU32(b, used) == GetU16(b, used) + 65536 * GetU16(b, used + 2)

\* A text with its length before it, and one that is left out when empty.
Field(s) == <<Len(s)>> \o s
Optional(s) == IF s = <<>> THEN <<>> ELSE Field(s)
-----------------------------------------------------------------------------
(* The library's request builders; <<>> is their -1.                       *)

Built(request) == IF Len(request) <= PacketMax THEN request ELSE <<>>

RvList(cursor, platform, model) ==
  Built(<<OpList>> \o U16(cursor) \o Field(platform) \o Optional(model))
RvSearch(cursor, platform, query, model) ==
  IF query = <<>> THEN <<>>
  ELSE Built(<<OpSearch>> \o U16(cursor) \o Field(platform) \o Field(query)
             \o Optional(model))
RvInfo(cursor, id) ==
  IF id = <<>> THEN <<>> ELSE Built(<<OpInfo>> \o U16(cursor) \o Field(id))
RvDownload(offset, maximum_bytes, package, download) ==
  IF package = <<>> \/ download = <<>> THEN <<>>
  ELSE Built(<<OpDownload>> \o U32(offset) \o <<maximum_bytes>> \o Field(package)
             \o Field(download))
-----------------------------------------------------------------------------
(* How long a response is, seen from its first n bytes.                    *)

More  == 0   \* it goes on
Never == -1  \* it is none

\* What a field may still take up: an unsigned difference, as any in C.
Room(n, used) == (n - used) % 65536

\* Past one field, its length byte first.
EndsMutant(n, used) == used > n  \* looks for a length byte behind the last byte
Ends(n, used) == used >= n
Past(r, n, used) == IF Ends(n, used) \/ r[used + 1] > Room(n, used + 1) THEN More
                    ELSE used + 1 + r[used + 1]

\* catalog_response_size: two fields to an entry.
CatalogSize(r, n) ==
  LET after[k \in 0 .. 2 * r[5]] ==
        IF k = 0 THEN 5
        ELSE IF after[k - 1] = More THEN More ELSE Past(r, n, after[k - 1])
  IN  IF n < 5 THEN More ELSE after[2 * r[5]]

\* info_response_size: a type before each field.
InfoSize(r, n) ==
  LET after[k \in 0 .. r[5]] ==
        IF k = 0 THEN 5
        ELSE IF after[k - 1] = More \/ n - after[k - 1] < 2 THEN More
        ELSE Past(r, n, after[k - 1] + 1)
  IN  IF n < 5 THEN More ELSE after[r[5]]

\* rv_response_size.
Size(r, n) ==
  IF n < 2 THEN More
  ELSE IF r[1] < ResponseBit THEN Never
  ELSE IF r[2] # 0 THEN 2
  ELSE LET op == r[1] - ResponseBit
       IN  CASE op = OpCapabilities -> IF n >= 7 THEN 7 ELSE More
             [] op \in {OpList, OpSearch} -> CatalogSize(r, n)
             [] op = OpInfo -> InfoSize(r, n)
             [] op = OpDownload -> IF n < 11 THEN More ELSE 11 + r[11]
             [] OTHER -> Never
-----------------------------------------------------------------------------
(* rv_decode_download: three fields, a size and a number of files.         *)

TailFitsMutant(rest) == rest >= 5  \* whatever follows is ignored
TailFits(rest) == rest = 5

DownloadFields(v) ==
  LET n == Len(v)
      id     == 1 + v[1]                   \* used up by each field
      label  == id + 1 + v[id + 1]
      format == label + 1 + v[label + 1]
  IN  IF n >= 8 /\ id < n /\ label < n /\ format <= n /\ TailFits(n - format)
      THEN [valid |-> TRUE,
            id |-> SubSeq(v, 2, id), label |-> SubSeq(v, id + 2, label),
            format |-> SubSeq(v, label + 2, format),
            aggregate_size |-> GetU32(v, format), file_count |-> v[format + 5]]
      ELSE [valid |-> FALSE]
=============================================================================
