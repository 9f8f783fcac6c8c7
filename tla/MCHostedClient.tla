--------------------------- MODULE MCHostedClient ---------------------------
EXTENDS HostedClient

\* The bytes of texts; "aaa" is longer than an id may be, "aba" than a name.
A == 97
B == 98
MCPlatform == <<105, 100, 112>>
MCModels   == {<<>>, <<112>>}
MCPackages == {<<>>, <<A>>, [i \in 1 .. PacketMax - 3 |-> A]}
MCDownloads == {<<B>>, [i \in 1 .. PacketMax - 8 |-> B]}

Entry(id, name) == [id |-> id, name |-> name]
MCEntries == {Entry(<<A>>, <<B>>), Entry(<<B>>, <<A, B, A>>), Entry(<<A, A, A>>, <<>>)}
Everything == {<<A>>, <<B>>, <<A, B>>, <<>>}
Long == [i \in 1 .. AnchorMax |-> B]
MCSearches == {[query |-> <<>>, asked |-> Everything], [query |-> <<A>>, asked |-> {<<A>>}],
               [query |-> Long, asked |-> {Long}]}

\* One element too short, one too long, one byte wrong.
Damaged(r) == {SubSeq(r, 1, n) : n \in 0 .. Len(r) - 1} \cup {r \o <<1>>}
              \cup {[r EXCEPT ![i] = b] : i \in DOMAIN r, b \in {0, 1, 2, 9}}

Page(op, next, count, body) == <<ResponseBit + op, 0>> \o U16(next) \o <<count>> \o body
Cursors == {1, 256, CursorEnd}

CatalogPage(op, next, es) ==
  Page(op, next, Len(es), FlattenSeq([i \in DOMAIN es |-> Field(es[i].id) \o Field(es[i].name)]))
CatalogPages(op) == {CatalogPage(op, next, es) : next \in Cursors, es \in SeqOf(MCEntries, 2)}
CatalogResponses ==
  CatalogPages(OpList) \cup CatalogPages(OpSearch) \cup {<<ResponseBit + OpList, 3>>}
  \cup UNION {Damaged(CatalogPage(op, 1, <<Entry(<<A>>, <<B>>)>>)) : op \in {OpList, OpSearch}}
  \cup UNION {Damaged(CatalogPage(OpList, next,
                                  <<Entry(<<A>>, <<B>>), Entry(<<B>>, <<A>>)>>))
                : next \in {1, CursorEnd}}

Offered(id, label, format) == Field(id) \o Field(label) \o Field(format) \o <<1, 2, 0, 0, 1>>
MCValues == {<<TypeId>> \o Field(<<A>>), <<TypeId>> \o Field(<<A, A, A>>),
             <<TypeName>> \o Field(<<A, B, A>>), <<4>> \o Field(<<A>>),
             <<TypeYear>> \o Field(<<1, 2>>), <<TypeYear>> \o Field(<<1>>),
             <<TypeRating>> \o Field(<<1>>), <<TypeRating>> \o Field(<<>>),
             <<TypeDownload>> \o Field(Offered(<<A>>, <<B>>, <<>>)),
             <<TypeDownload>> \o Field(Offered(<<B>>, <<>>, <<A>>)),
             <<TypeDownload>> \o Field(Offered(<<A, A, A>>, <<>>, <<>>)),
             <<TypeDownload>> \o Field(Offered(<<A>>, <<>>, <<>>) \o <<1>>),
             <<TypeDownload>> \o Field(<<1, 1, 1, 1, 1, 1, 1, 1>>)}
InfoPage(next, vs) == Page(OpInfo, next, Len(vs), FlattenSeq(vs))
InfoPages == {InfoPage(next, vs) : next \in Cursors \ {256}, vs \in SeqOf(MCValues, 2)}
InfoResponses ==
  {r \in InfoPages : Len(r) <= PacketMax}
  \cup Damaged(InfoPage(CursorEnd, <<<<TypeId>> \o Field(<<A>>), <<TypeRating>> \o Field(<<1>>)>>))

ChunkOf(from, total, data) == <<ResponseBit + OpDownload, 0>> \o U32(from) \o U32(total)
                              \o Field(data)
Chunks == {ChunkOf(from, total, data) :
             from \in 0 .. 3, total \in 0 .. 3, data \in {<<>>, <<A>>, <<A, B>>}}
DownloadResponses == Chunks \cup Damaged(ChunkOf(0, 2, <<A>>))

Capability == <<ResponseBit, 0, 1, 15, 5, 11, 1>>

MCResponses == [capabilities |-> {Capability} \cup Damaged(Capability),
                catalog |-> CatalogResponses, resolve |-> CatalogResponses,
                info |-> InfoResponses, download |-> DownloadResponses]

MCTextSize == [type \in 1 .. TypeDownload |-> 3]
=============================================================================
