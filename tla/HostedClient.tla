---------------------------- MODULE HostedClient ----------------------------
(***************************************************************************)
(* The client built off the Partner, src/src/client.c.  It has one packet  *)
(* buffer: the request is written there and the response over it, so what  *)
(* lies behind a short response is left from the request or the response   *)
(* before.  The exchange is external and may bring any bytes, or none.     *)
(* A behaviour is one call after paket_client_init.                        *)
(***************************************************************************)
EXTENDS Wire, SequencesExt, Subsequence

CONSTANTS Platform,  \* partner_platform_id
          Searches,  \* patterns: [query, asked], the anchor and what matches
          Packages, Downloads,  \* ids asked for
          Models,    \* of the Partner; empty for the GDP
          Responses, \* what may come back, for each call
          AnchorMax, \* the longest query
          TextSize,  \* for each type of text: the room for it and its end
          CountMax,  \* 255: download_count goes no further
          DownloadMax,  \* PAKET_DOWNLOAD_MAX
          MaxPages   \* bound: responses accepted in a call

\* The longest catalog request fits, so the unsigned room left for the model
\* never wraps.
ASSUME AnchorAssumption ==
  /\ AnchorMax \in Nat
  /\ \A m \in Models : 5 + Len(Platform) + AnchorMax + Len(Optional(m)) <= PacketMax
ASSUME SearchAssumption == \A s \in Searches : Len(s.query) <= AnchorMax
\* Texts and messages are bytes, and a message fits the buffer.
ASSUME BytesAssumption ==
  /\ Platform \in Seq(Byte) /\ Models \cup Packages \cup Downloads \subseteq Seq(Byte)
  /\ \A s \in Searches : s.query \in Seq(Byte)
  /\ \A c \in DOMAIN Responses : \A r \in Responses[c] :
       r \in Seq(Byte) /\ Len(r) <= PacketMax
ASSUME RoomAssumption ==
  /\ CountMax \in Nat /\ DownloadMax \in Nat
  /\ TextSize \in [1 .. 10 -> Nat \ {0}]
ASSUME CallsAssumption ==
  DOMAIN Responses = {"capabilities", "catalog", "resolve", "info", "download"}

TypeId == 1   TypeName == 2   TypeYear == 7   TypeRating == 8   TypeDownload == 10
TextTypes == {TypeName, 3, 5, 6, 9}  \* name, vendor, platform, version, description

VARIABLES
  call,      \* capabilities, catalog, resolve, info or download
  text, asked, file, model,  \* the query or package id, the download id
  packet, requested, received,  \* client->packet, and what is in it
  cursor, next_cursor, used, index,  \* the walk over a page
  listed,    \* the entries given to the visitor
  entry, priority,  \* resolve_context
  info,      \* paket_package_info
  offset, total_size, have_total, written,  \* paket_fetch_download
  stage,     \* build, exchange, check, read, returned
  outcome,   \* what the call returned
  seen, pages  \* history: the elements read, the responses accepted

inputVars  == <<call, text, asked, file, model>>
bufferVars == <<packet, requested, received>>
pageVars   == <<cursor, next_cursor, used, index>>
foundVars  == <<listed, entry, priority, info>>
chunkVars  == <<offset, total_size, have_total, written>>
histVars   == <<seen, pages>>
hostedVars == <<inputVars, bufferVars, pageVars, foundVars, chunkVars, stage, outcome,
                histVars>>

NoEntry == [id |-> <<>>, name |-> <<>>]
NoInfo  == [id |-> <<>>, texts |-> [t \in TextTypes |-> <<>>], year |-> 0,
            rating |-> 0, count |-> 0, downloads |-> <<>>]

Catalog == call \in {"catalog", "resolve"}

HostedInit ==
  /\ \/ /\ call \in {"catalog", "resolve"} /\ file = <<>>
        /\ \E s \in Searches : text = s.query /\ asked = s.asked
        /\ call = "resolve" => text # <<>>  \* a name, without wildcards
     \/ call = "info" /\ text \in Packages /\ file = <<>> /\ asked = {}
     \/ call = "download" /\ text \in Packages /\ file \in Downloads /\ asked = {}
     \/ call = "capabilities" /\ text = <<>> /\ file = <<>> /\ asked = {}
  /\ model \in Models /\ (~Catalog => model = <<>>)
  /\ packet = [i \in 1 .. PacketMax |-> 0] /\ requested = 0 /\ received = 0
  /\ cursor = 0 /\ next_cursor = 0 /\ used = 0 /\ index = 0
  /\ listed = <<>> /\ entry = NoEntry /\ priority = 0 /\ info = NoInfo
  /\ offset = 0 /\ total_size = 0 /\ have_total = FALSE /\ written = <<>>
  /\ stage = "build" /\ outcome = "none"
  /\ seen = <<>> /\ pages = <<>>

Return(why) == stage' = "returned" /\ outcome' = why
Go(next)    == stage' = next /\ UNCHANGED outcome
-----------------------------------------------------------------------------
(* The request, written into the buffer piece by piece.                    *)

Put(b, at, bytes) == [i \in 1 .. PacketMax |->
                        IF i - at \in DOMAIN bytes THEN bytes[i - at] ELSE b[i]]

Operation == CASE call = "capabilities" -> OpCapabilities
               [] Catalog -> IF text = <<>> THEN OpList ELSE OpSearch
               [] call = "info" -> OpInfo
               [] call = "download" -> OpDownload

\* build_catalog_request.
BuildCatalog ==
  LET base  == 4 + Len(Platform)
      after == base + Len(Optional(text))
  IN  /\ packet' = Put(Put(Put(packet, 0, <<Operation>> \o U16(cursor) \o Field(Platform)),
                           base, Optional(text)),
                       after, Optional(model))
      /\ requested' = after + Len(Optional(model))
      /\ Go("exchange")

\* build_info_request.
BuildInfo ==
  IF text # <<>> /\ Len(text) <= PacketMax - 4
  THEN /\ packet' = Put(Put(packet, 0, <<OpInfo>> \o U16(cursor)), 3, Field(text))
       /\ requested' = 4 + Len(text) /\ Go("exchange")
  ELSE UNCHANGED <<packet, requested>> /\ Return(IF text = <<>> THEN "argument" ELSE "too long")

\* build_download_request.
BuildDownload ==
  LET required == 8 + Len(text) + Len(file)
  IN  IF text # <<>> /\ file # <<>> /\ required <= PacketMax
      THEN /\ packet' = Put(Put(Put(packet, 0, <<OpDownload>> \o U32(offset)
                                               \o <<PacketMax - 11>>),
                                6, Field(text)),
                            7 + Len(text), Field(file))
           /\ requested' = required /\ Go("exchange")
      ELSE UNCHANGED <<packet, requested>> /\ Return("too long")

BuildRequest ==
  /\ stage = "build"
  /\ CASE Catalog -> BuildCatalog
       [] call = "info" -> BuildInfo
       [] call = "download" -> BuildDownload
       [] call = "capabilities" -> /\ packet' = Put(packet, 0, <<OpCapabilities>>)
                                   /\ requested' = 1 /\ Go("exchange")
  /\ UNCHANGED <<inputVars, received, pageVars, foundVars, chunkVars, histVars>>
-----------------------------------------------------------------------------
(* exchange_checked.                                                       *)

ExchangeFails == /\ stage = "exchange"
                 /\ Return("link failed")
                 /\ UNCHANGED <<inputVars, bufferVars, pageVars, foundVars, chunkVars,
                                histVars>>

Exchange == /\ stage = "exchange" /\ Len(pages) < MaxPages
            /\ \E r \in Responses[call] :
                 packet' = Put(packet, 0, r) /\ received' = Len(r)
            /\ Go("check")
            /\ UNCHANGED <<inputVars, requested, pageVars, foundVars, chunkVars, histVars>>

\* Exactly one whole response, to this request.
WholeMutant == Size(packet, received) \notin {More, Never}  \* bytes may follow it
Whole == Size(packet, received) = received
Answers == received >= 2 /\ Whole /\ packet[1] = ResponseBit + Operation

NoAnswer == /\ stage = "check" /\ ~Answers
            /\ Return("invalid response")
            /\ UNCHANGED <<inputVars, bufferVars, pageVars, foundVars, chunkVars, histVars>>

ServerError == /\ stage = "check" /\ Answers /\ packet[2] # 0
               /\ Return("server error")
               /\ UNCHANGED <<inputVars, bufferVars, pageVars, foundVars, chunkVars,
                              histVars>>

\* The header of a page; its elements follow.
Accept == /\ stage = "check" /\ Answers /\ packet[2] = 0
          /\ pages' = Append(pages, SubSeq(packet, 1, received))
          /\ next_cursor' = IF call \in {"catalog", "resolve", "info"}
                            THEN GetU16(packet, 2) ELSE next_cursor
          /\ used' = 5 /\ index' = 0
          /\ Go("read")
          /\ UNCHANGED <<inputVars, bufferVars, cursor, foundVars, chunkVars, seen>>

\* paket_check_capabilities.
CheckCapabilities ==
  /\ stage = "read" /\ call = "capabilities"
  /\ Return(IF /\ packet[3] = 1 /\ packet[4] % 16 = 15
               /\ packet[5] = 5 /\ packet[6] = 11 /\ packet[7] # 0
            THEN "ok" ELSE "invalid response")
  /\ UNCHANGED <<inputVars, bufferVars, pageVars, foundVars, chunkVars, histVars>>
-----------------------------------------------------------------------------
(* Catalog and metadata pages: every length in them has been checked.      *)

View(at) == SubSeq(packet, at + 2, at + 1 + packet[at + 1])
Cut(s, size) == SubSeq(s, 1, IF Len(s) < size THEN Len(s) ELSE size - 1)
TooLong(id) == Len(id) >= TextSize[TypeId]

ElementLeft == stage = "read" /\ index < packet[5]
NextElement(bytes) == used' = used + bytes /\ index' = index + 1
                      /\ UNCHANGED <<cursor, next_cursor>>

Selected(e) == e.id \in asked \/ e.name \in asked
Rank(e) == IF e.id \in asked THEN 2 ELSE IF e.name \in asked THEN 1 ELSE 0

\* visit_catalog_entry and, for a resolve, resolve_entry.
VisitEntry ==
  /\ ElementLeft /\ Catalog
  /\ LET id   == View(used)
         name == View(used + 1 + Len(id))
         e    == [id |-> id, name |-> Cut(name, TextSize[TypeName])]
     IN  /\ seen' = Append(seen, [id |-> id, name |-> name])
         /\ NextElement(2 + Len(id) + Len(name))
         /\ IF TooLong(id) THEN Return("too long") /\ UNCHANGED <<listed, entry, priority>>
            ELSE /\ listed' = IF call = "catalog" /\ Selected(e) THEN Append(listed, e)
                              ELSE listed
                 /\ IF call = "resolve" /\ Rank(e) > priority
                    THEN entry' = e /\ priority' = Rank(e)
                    ELSE UNCHANGED <<entry, priority>>
                 /\ IF call = "resolve" /\ Rank(e) = 2
                    THEN Return("ok") ELSE UNCHANGED <<stage, outcome>>
  /\ UNCHANGED <<inputVars, bufferVars, info, chunkVars, pages>>

\* The download_count of a package that has one more.
Counted == IF info.count < CountMax THEN info.count + 1 ELSE info.count

Store(field, value) == /\ info' = [info EXCEPT ![field] = value]
                       /\ UNCHANGED <<stage, outcome>>
Reject(why) == Return(why) /\ UNCHANGED info

\* A download that is not stored is decoded and counted all the same.
CollectDownload(d) ==
  IF ~d.valid THEN Reject("invalid response")
  ELSE IF Len(info.downloads) >= DownloadMax THEN Store("count", Counted)
  ELSE IF TooLong(d.id) THEN /\ info' = [info EXCEPT !.count = Counted]
                             /\ Return("too long")
  ELSE /\ info' = [info EXCEPT !.count = Counted, !.downloads = Append(@,
                     [d EXCEPT !.label = Cut(@, TextSize[TypeName]),
                               !.format = Cut(@, TextSize[TypeDownload])])]
       /\ UNCHANGED <<stage, outcome>>

\* collect_info_entry.
CollectValue ==
  /\ ElementLeft /\ call = "info"
  /\ LET type == packet[used + 1]
         v    == View(used + 1)
     IN  /\ seen' = Append(seen, [type |-> type, value |-> v])
         /\ NextElement(2 + Len(v))
         /\ CASE type = TypeId -> IF TooLong(v) THEN Reject("too long") ELSE Store("id", v)
              [] type \in TextTypes ->
                   Store("texts", [info.texts EXCEPT ![type] = Cut(v, TextSize[type])])
              [] type = TypeYear -> IF Len(v) # 2 THEN Reject("invalid response")
                                    ELSE Store("year", GetU16(v, 0))
              [] type = TypeRating -> IF Len(v) # 1 THEN Reject("invalid response")
                                      ELSE Store("rating", v[1])
              [] type = TypeDownload -> CollectDownload(DownloadFields(v))
              [] OTHER -> UNCHANGED <<info, stage, outcome>>
  /\ UNCHANGED <<inputVars, bufferVars, listed, entry, priority, chunkVars, pages>>

Finding == CASE call = "info" -> IF info.id = <<>> THEN "invalid response" ELSE "ok"
             [] call = "resolve" -> IF priority = 0 THEN "not found" ELSE "ok"
             [] call = "catalog" -> "ok"

NextCursorMutant == cursor + 1  \* counts pages instead
NextCursor == next_cursor

EndOfPage ==
  /\ stage = "read" /\ (Catalog \/ call = "info") /\ index = packet[5]
  /\ IF next_cursor = CursorEnd THEN Return(Finding) /\ UNCHANGED cursor
     ELSE IF next_cursor = cursor THEN Return("invalid response") /\ UNCHANGED cursor
     ELSE cursor' = NextCursor /\ Go("build")
  /\ UNCHANGED <<inputVars, bufferVars, next_cursor, used, index, foundVars, chunkVars,
                 histVars>>
-----------------------------------------------------------------------------
(* The loop of paket_fetch_download.                                       *)

Chunk == [offset |-> GetU32(packet, 2), total_size |-> GetU32(packet, 6), size |-> packet[11]]

SameTotalMutant(c) == TRUE  \* a package that changes its size goes unnoticed
SameTotal(c) == have_total => c.total_size = total_size

TakeChunk ==
  /\ stage = "read" /\ call = "download"
  /\ LET c == Chunk
     IN  IF /\ c.offset = offset /\ received = 11 + c.size
            /\ offset <= c.total_size /\ c.size <= c.total_size - offset
            /\ SameTotal(c) /\ (c.size = 0 => offset = c.total_size)
         THEN /\ total_size' = c.total_size /\ have_total' = TRUE
              /\ \/ Return("write failed") /\ UNCHANGED <<offset, written>>
                 \/ /\ written' = written \o SubSeq(packet, 12, 11 + c.size)
                    /\ offset' = offset + c.size
                    /\ IF offset' = total_size' THEN Return("ok") ELSE Go("build")
         ELSE Return("invalid response") /\ UNCHANGED chunkVars
  /\ UNCHANGED <<inputVars, bufferVars, pageVars, foundVars, histVars>>

Returned == stage = "returned" /\ UNCHANGED hostedVars

HostedNext ==
  \/ BuildRequest \/ ExchangeFails \/ Exchange \/ NoAnswer \/ ServerError \/ Accept
  \/ CheckCapabilities \/ VisitEntry \/ CollectValue \/ EndOfPage \/ TakeChunk \/ Returned

HostedSpec == HostedInit /\ [][HostedNext]_hostedVars
-----------------------------------------------------------------------------
(* Properties.                                                             *)

\* The bytes of a page behind its header, and of an element.
Body(page) == SubSeq(page, 6, Len(page))
Bytes(e) == IF Catalog THEN Field(e.id) \o Field(e.name) ELSE <<e.type>> \o Field(e.value)

Fillings == {[i \in 1 .. PacketMax |-> b] : b \in {0, 1, 255}}
FirstOf(b, n, behind) == [i \in 1 .. PacketMax |-> IF i <= n THEN b[i] ELSE behind[i]]

\* "Determine the complete response size from bytes received so far" (retrovault.h):
\* whatever the buffer held before, from the first bytes of a message comes its
\* size or "more", and never a size that later bytes take back.
SizeDecided ==
  stage = "check" =>
    \A n \in 0 .. received : \A behind \in Fillings :
      Size(FirstOf(packet, n, behind), n) \in {More, Size(packet, received)}

\* "All advertised lengths are checked before any caller-visible view is produced"
\* (retrovault.c): what the caller is shown is the received pages, cut into their
\* elements in order: no byte of them left out, shown twice or taken from what the
\* buffer held before.
PagesShownExactly ==
  Catalog \/ call = "info" =>
    LET shown == FlattenSeq([i \in DOMAIN seen |-> Bytes(seen[i])])
        told  == FlattenSeq([i \in DOMAIN pages |-> Body(pages[i])])
    IN  /\ IsPrefix(shown, told)
        /\ stage = "build" \/ (outcome = "ok" /\ call # "resolve") => shown = told

\* What goes out is the request the protocol library would build: for the page or
\* the offset that the last response left off at, though it was written over that
\* response, and over nothing but the buffer.
RequestWhole ==
  stage = "exchange" =>
    LET from == IF pages = <<>> THEN 0 ELSE GetU16(Last(pages), 2)
        sent == SubSeq(packet, 1, requested)
    IN  CASE Operation = OpList     -> sent = RvList(from, Platform, model)
          [] Operation = OpSearch   -> sent = RvSearch(from, Platform, text, model)
          [] Operation = OpInfo     -> sent = RvInfo(from, text)
          [] Operation = OpDownload ->
               sent = RvDownload(Len(written), PacketMax - 11, text, file)
          [] Operation = OpCapabilities -> sent = <<OpCapabilities>>

\* Where the values of a type were seen, and where the last of them was.
Places(ss, type) == {i \in DOMAIN ss : ss[i].type = type}
LastPlace(ss, type) == {i \in Places(ss, type) : \A j \in Places(ss, type) : j <= i}
AtMost(n, most) == IF n < most THEN n ELSE most

\* s is as much of the text t as there is room for, with an end.
CutFrom(s, t, room) == IsPrefix(s, t) /\ Len(s) = AtMost(Len(t), room - 1)

\* A download as it was sent; and as it is kept.
Encoded(d) == Field(d.id) \o Field(d.label) \o Field(d.format)
              \o U32(d.aggregate_size) \o <<d.file_count>>
Kept(k, d) == /\ k.id = d.id
              /\ CutFrom(k.label, d.label, TextSize[TypeName])
              /\ CutFrom(k.format, d.format, TextSize[TypeDownload])
              /\ k.aggregate_size = d.aggregate_size /\ k.file_count = d.file_count

\* What is known of a package is what its pages said: the last of each text, as
\* far as there is room for it, and of its downloads how many there are and the
\* first ones, every byte of theirs accounted for.
InfoExact ==
  call = "info" /\ outcome = "ok" =>
    LET offered == Places(seen, TypeDownload)
    IN  /\ \E i \in LastPlace(seen, TypeId) : info.id = seen[i].value
        /\ \A t \in TextTypes : \A i \in LastPlace(seen, t) :
             CutFrom(info.texts[t], seen[i].value, TextSize[t])
        /\ info.count = AtMost(Cardinality(offered), CountMax)
        /\ Len(info.downloads) = AtMost(Cardinality(offered), DownloadMax)
        /\ \A i \in offered :
             LET d == DownloadFields(seen[i].value)
                 n == PlaceIn(offered, i)
             IN  /\ Encoded(d) = seen[i].value
                 /\ n <= DownloadMax => Kept(info.downloads[n], d)

\* What is written is what the chunks held, each at the place it claims; and the
\* download is complete only when that is as long as every one of them said.
DownloadExact ==
  call = "download" /\ (stage = "build" \/ outcome = "ok") =>
    LET data == [i \in DOMAIN pages |-> SubSeq(pages[i], 12, Len(pages[i]))]
    IN  /\ written = FlattenSeq(data)
        /\ \A i \in DOMAIN pages :
             /\ GetU32(pages[i], 2) = Len(FlattenSeq(SubSeq(data, 1, i - 1)))
             /\ outcome = "ok" => GetU32(pages[i], 6) = Len(written)
=============================================================================
