-------------------------- MODULE ApplicationProofs --------------------------
(***************************************************************************)
(* Whatever command is given and whatever the catalog and metadata calls   *)
(* bring, the program does to the disk what a download does, and nothing   *)
(* else: Application implements Download.  What DownloadProofs shows of a  *)
(* download therefore holds of every run of the program.                   *)
(***************************************************************************)
EXTENDS Application, DownloadProofs, CommonLemmas

\* Outside of a download the file, the directory and the call stay untouched; a
\* refusal and the download's own steps are steps of Download.
LEMMA StepImplements == ApplicationNext => [Work]_vars
<1> SUFFICES ASSUME ApplicationNext PROVE Work \/ UNCHANGED vars
  OBVIOUS
<1>1. CASE PrintUsage \/ ShowCatalog \/ CatalogShown \/ Resolve \/ Fetch \/ Converse
           \/ ShowInfo \/ DownloadEnds
  BY <1>1 DEF PrintUsage, ShowCatalog, CatalogShown, Resolve, Fetch, Converse, ShowInfo,
              DownloadEnds
<1>2. CASE NoWildcards \/ RefuseDownload
  BY <1>2 DEF NoWildcards, RefuseDownload, Work
<1>3. CASE GiveUp
  BY <1>3 DEF GiveUp, Work
<1>4. CASE StartDownload
  BY <1>4 DEF StartDownload, Work
<1>5. CASE Transfer
  BY <1>5 DEF Transfer, Work
<1>6. CASE Exited
  BY <1>6 DEF Exited, allVars
<1> QED BY <1>1, <1>2, <1>3, <1>4, <1>5, <1>6 DEF ApplicationNext, Step

\* The program implements Download.
THEOREM ApplicationDownloads == ApplicationSpec => DownloadSpec
<1>1. ApplicationInit => DownloadInit
  BY DEF ApplicationInit
<1>2. [ApplicationNext]_allVars => [Work]_vars
  BY StepImplements DEF allVars
<1> QED BY <1>1, <1>2, PTL DEF ApplicationSpec, DownloadSpec

\* Whatever the command, the user area the program was started in is selected
\* again whenever no file is open.
THEOREM UserAlwaysGivenBack == ApplicationSpec => []UserGivenBack
BY ApplicationDownloads, AreaIsGivenBack, PTL

\* Whatever the command, a download that does not complete leaves no file.
THEOREM NothingStays == ApplicationSpec => []FailureLeavesNothing
BY ApplicationDownloads, NothingIsLeft, PTL

\* Whatever the command, no file is touched but the one the destination names.
THEOREM OnlyTheTargetIsTouched == ApplicationSpec => OnlyTheTarget
BY ApplicationDownloads, OthersUntouched, PTL

\* Whatever the command, the file it writes holds the beginning of the package,
THEOREM FileInOrder == ApplicationSpec => []WrittenInOrder
BY ApplicationDownloads, InOrder, PTL

\* is the buffered file of file.h,
THEOREM FileAsPromised == ApplicationSpec => OneByteFile
BY ApplicationDownloads, FileIsByteFile, PTL

\* and is the whole package when the program says so.
THEOREM SaysCompleteWhenWhole == ApplicationSpec => []CompleteMeansWhole
BY ApplicationDownloads, CompleteIsWhole, PTL
-----------------------------------------------------------------------------
(* The walks over a paged answer.  PagingInv says where a walk stands in   *)
(* all the server has to say: what has been seen is the first Place        *)
(* elements, whatever pages they came in.  On it rest three invariants of  *)
(* what the walk knows by then: of the package to resolve, of the listing, *)
(* of the metadata.                                                        *)

Element == Entries \cup Values

Seen == next_cursor - Len(page)
Place == IF Asking THEN cursor ELSE Seen

PagingInv ==
  /\ items \in Seq(Element)
  /\ Asking => cursor \in 0 .. Len(items)
  /\ Reading => /\ next_cursor \in 0 .. Len(items)
                /\ page \in Seq(Element) /\ Len(page) <= next_cursor
                /\ \A i \in 1 .. Len(page) : page[i] = items[Seen + i]

LEMMA ListsAreSequences ==
  ASSUME NEW S, S \subseteq Element, NEW n \in Nat, NEW s \in Lists(S, n)
  PROVE  s \in Seq(Element)
<1>1. PICK k \in 0 .. n : s \in [1 .. k -> S]
  BY DEF Lists
<1> QED BY <1>1

LEMMA WalkBegins ==
  ASSUME FetchInfo \/ \E texts, how : VisitCatalog(texts, how)
  PROVE  PagingInv' /\ Asking' /\ Place' = 0 /\ items' \in Seq(Element)
<1>1. items' \in Seq(Element) /\ cursor' = 0 /\ outcome' = "asking"
  BY ListsAreSequences, BoundAssumption DEF VisitCatalog, FetchInfo, Begin, Element
<1> QED BY <1>1 DEF PagingInv, Asking, Reading, Place

LEMMA PageIsNext ==
  ASSUME PagingInv, PageArrives, ~strayed'
  PROVE  PagingInv' /\ Running /\ Running' /\ Place \in 0 .. Len(items) /\ Place' = Place
<1>1. PICK k \in 0 .. Len(items) - cursor :
        /\ page' = SubSeq(items, cursor + 1, cursor + k)
        /\ next_cursor' = cursor + k
  BY DEF PageArrives
<1>2. items' = items /\ cursor' = cursor /\ outcome' = "reading" /\ outcome = "asking"
  BY DEF PageArrives, Asking
<1>3. items \in Seq(Element) /\ cursor \in 0 .. Len(items) /\ Place = cursor
  BY <1>2 DEF PagingInv, Asking, Place
<1>4. /\ page' \in Seq(Element) /\ Len(page') = k
      /\ \A i \in 1 .. k : page'[i] = items[cursor + i]
  BY <1>1, <1>3
<1>5. Seen' = cursor /\ Place' = cursor
  BY <1>1, <1>2, <1>3, <1>4 DEF Seen, Place, Asking
<1> QED BY <1>1, <1>2, <1>3, <1>4, <1>5 DEF PagingInv, Asking, Reading, Running

\* The element read next is the one after those seen.
LEMMA ElementIsNext ==
  ASSUME PagingInv, Reading, page # <<>>, NextElement, outcome' # "asking"
  PROVE  /\ PagingInv' /\ Place \in Nat /\ Place + 1 \in 1 .. Len(items)
         /\ Head(page) = items[Place + 1] /\ Place' = Place + 1
<1>1. /\ page \in Seq(Element) /\ Len(page) \in Nat /\ Len(page) # 0 /\ Len(items) \in Nat
      /\ next_cursor \in 0 .. Len(items) /\ Len(page) <= next_cursor
      /\ \A i \in 1 .. Len(page) : page[i] = items[(next_cursor - Len(page)) + i]
  BY DEF PagingInv, Seen
<1>2. page' = Tail(page) /\ next_cursor' = next_cursor /\ items' = items
  BY DEF NextElement
<1>3. Head(page) = page[1] /\ Tail(page) \in Seq(Element) /\ Len(Tail(page)) = Len(page) - 1
      /\ \A i \in 1 .. Len(page) - 1 : Tail(page)[i] = page[i + 1]
  BY <1>1
<1>4. Place = Seen /\ Place' = Seen' /\ Seen' = Seen + 1 /\ Seen \in Nat
  BY <1>1, <1>2, <1>3 DEF Seen, Place, Asking, Reading
<1>5. Head(page) = items[Seen + 1] /\ Seen + 1 \in 1 .. Len(items)
  BY <1>1, <1>3 DEF Seen
<1>6. \A i \in 1 .. Len(page') : page'[i] = items[Seen' + i]
  <2> SUFFICES ASSUME NEW i \in 1 .. Len(page') PROVE page'[i] = items[Seen' + i]
    OBVIOUS
  <2>1. i + 1 \in 1 .. Len(page) /\ page'[i] = page[i + 1]
    BY <1>1, <1>2, <1>3
  <2>2. page[i + 1] = items[(next_cursor - Len(page)) + (i + 1)]
    BY <1>1, <2>1
  <2>3. (next_cursor - Len(page)) + (i + 1) = Seen' + i
    BY <1>1, <1>2, <1>3 DEF Seen
  <2> QED BY <2>1, <2>2, <2>3
<1>7. PagingInv'
  BY <1>1, <1>2, <1>3, <1>6 DEF PagingInv, Asking
<1> QED BY <1>4, <1>5, <1>7

\* At the end of a page the walk fails, has seen everything, or goes on from there.
LEMMA PageEnds ==
  ASSUME PagingInv, EndOfPage
  PROVE  /\ PagingInv' /\ Running
         /\ \/ outcome' = "invalid response"
            \/ outcome' = Finding /\ Place = Len(items)
            \/ outcome' = "asking" /\ Place' = Place /\ Place \in 0 .. Len(items)
<1>1. /\ items' = items /\ page' = page /\ next_cursor' = next_cursor
      /\ Reading /\ page = <<>>
      /\ \/ outcome' = "invalid response"
         \/ outcome' = Finding /\ next_cursor = Len(items)
         \/ outcome' = "asking" /\ cursor' = next_cursor
  BY DEF EndOfPage, Return, End, Stall
<1>2. /\ items \in Seq(Element) /\ Len(items) \in Nat
      /\ next_cursor \in 0 .. Len(items) /\ next_cursor \in Nat
  <2>1. items \in Seq(Element) /\ next_cursor \in 0 .. Len(items)
    BY <1>1 DEF PagingInv
  <2> QED BY <2>1
<1>3. Len(page) = 0
  BY <1>1
<1>4. Place = next_cursor
  <2>1. outcome = "reading"
    BY <1>1 DEF Reading
  <2>2. Place = next_cursor - Len(page)
    BY <2>1 DEF Place, Seen, Asking
  <2> QED BY <1>2, <1>3, <2>2
<1>5. Finding \notin {"asking", "reading"}
  BY DEF Finding
<1>6. outcome' = "asking" => Place' = next_cursor
  BY <1>1, <1>5 DEF Place, Asking
<1>7. PagingInv'
  BY <1>1, <1>2, <1>5 DEF PagingInv, Asking, Reading
<1> QED BY <1>1, <1>2, <1>4, <1>6, <1>7 DEF Running
-----------------------------------------------------------------------------
\* What is known when n elements have been seen: to paket_resolve_package, that none
\* of them has the id, and that the entry kept, if any, is one that has the name;
Best(n) ==
  /\ priority \in {0, 1}
  /\ \A i \in 1 .. n : items[i].id \notin asked
  /\ priority = 0 => \A i \in 1 .. n : items[i].name \notin asked
  /\ priority = 1 => \E i \in 1 .. n : entry = items[i] /\ items[i].name \in asked

\* in a listing, those of them that match;
Matching(n) == {i \in 1 .. n : {items[i].id, items[i].name} \cap asked # {}}
Shown(n) == listed \in Seq(Element) /\ Picks(listed, items, Matching(n))

\* of a package, what they said: the last id, the first download, the count.
Of(type, n) == {i \in 1 .. n : items[i].type = type}
Told(n) ==
  LET ids == Of("id", n)
      downloads == Of("download", n)
  IN  /\ info = [id |-> info.id, download |-> info.download, stored |-> info.stored,
                 count |-> info.count]
      /\ \/ ids = {} /\ info.id = NoText
         \/ \E i \in ids : (\A j \in ids : j <= i) /\ info.id = items[i].text
      /\ info.stored = (downloads # {})
      /\ info.stored =>
           \E i \in downloads : (\A j \in downloads : i <= j) /\ info.download = items[i].text
      /\ info.count = IF Cardinality(downloads) < CountMax THEN Cardinality(downloads)
                      ELSE CountMax

Resolving == call = "catalog" /\ visitor = "resolve"
Listing == call = "catalog" /\ visitor = "print"

Known(n) == /\ Resolving => Best(n)
            /\ Listing => Shown(n)
            /\ call = "info" => Told(n)

Exact == ResolveExact /\ CatalogExact /\ InfoWhole

\* Where a walk stands if no cursor has strayed,
SteadyInv ==
  /\ PagingInv
  /\ Running => \E n \in 0 .. Len(items) : n = Place /\ Known(n)
  /\ ~Running => Exact

\* and in any case: there is room for all that a walk which has not can print.
Short == call = "catalog" => Len(items) <= MaxEntries
WalkInv == Short /\ (strayed \/ SteadyInv)

\* What is known is enough: half-way,
LEMMA SteadyExact == SteadyInv => Exact
<1> SUFFICES ASSUME SteadyInv, Running PROVE Exact
  BY DEF SteadyInv
<1>1. PICK n \in 0 .. Len(items) : Known(n)
  BY DEF SteadyInv
<1>2. outcome \notin {"ok", "not found"}
  BY DEF Running, Asking, Reading
<1>3. Listing => Picks(listed, items, Matching(n))
  BY <1>1 DEF Known, Shown
<1>4. CatalogExact
  BY <1>2, <1>3 DEF CatalogExact, Listing, Matching
<1> QED BY <1>2, <1>4 DEF Exact, ResolveExact, InfoWhole

LEMMA AlwaysExact == WalkInv => Exact
BY SteadyExact DEF WalkInv, Exact, ResolveExact, CatalogExact, InfoWhole

\* and when everything has been seen.
LEMMA WholeCatalog ==
  ASSUME items \in Seq(Element), Best(Len(items))
  PROVE  LET all == {items[i] : i \in DOMAIN items}
             ids == {e \in all : e.id \in asked}
             names == {e \in all : e.name \in asked}
         IN  /\ ids = {}
             /\ priority = 0 => names = {}
             /\ priority # 0 => entry \in names
<1>1. DOMAIN items = 1 .. Len(items)
  OBVIOUS
<1> QED BY <1>1 DEF Best

LEMMA WholeAnswer ==
  ASSUME items \in Seq(Element), Told(Len(items)), info.id # NoText
  PROVE  LET of(type) == {i \in DOMAIN items : items[i].type = type}
             downloads == of("download")
             n == Cardinality(downloads)
         IN  /\ \E i \in of("id") : (\A j \in of("id") : j <= i) /\ info.id = items[i].text
             /\ info.stored = (downloads # {})
             /\ info.stored =>
                  \E i \in downloads :
                    (\A j \in downloads : i <= j) /\ info.download = items[i].text
             /\ info.count = IF n < CountMax THEN n ELSE CountMax
<1>1. DOMAIN items = 1 .. Len(items)
  OBVIOUS
<1>2. /\ {i \in DOMAIN items : items[i].type = "id"} = Of("id", Len(items))
      /\ {i \in DOMAIN items : items[i].type = "download"} = Of("download", Len(items))
  BY <1>1 DEF Of
<1> DEFINE ids == Of("id", Len(items))
           downloads == Of("download", Len(items))
<1>3. /\ \E i \in ids : (\A j \in ids : j <= i) /\ info.id = items[i].text
      /\ info.stored = (downloads # {})
      /\ info.stored =>
           \E i \in downloads : (\A j \in downloads : i <= j) /\ info.download = items[i].text
      /\ info.count = IF Cardinality(downloads) < CountMax THEN Cardinality(downloads)
                      ELSE CountMax
  BY Zenon DEF Told
<1> QED BY <1>2, <1>3, Zenon
-----------------------------------------------------------------------------
\* What is known stays known when a step tells nothing,
LEMMA StillKnown ==
  ASSUME UNCHANGED <<call, visitor, asked, items, listed, entry, priority, info>>,
         NEW n, Known(n)
  PROVE  Known(n)'
<1>1. Resolving => Best(n)'
  BY DEF Known, Best
<1>2. Matching(n)' = Matching(n)
  BY DEF Matching
<1>3. Listing => Shown(n)'
  BY <1>2 DEF Known, Shown
<1>4. Of("id", n)' = Of("id", n) /\ Of("download", n)' = Of("download", n)
  BY DEF Of
<1>5. call = "info" => Told(n)'
  BY <1>4 DEF Known, Told
<1> QED BY <1>1, <1>3, <1>5 DEF Known, Resolving, Listing

\* and of nothing, nothing is known.
LEMMA NothingKnown ==
  ASSUME FetchInfo \/ \E texts, how : VisitCatalog(texts, how)
  PROVE  Known(0)'
<1>0. /\ FetchInfo => call' = "info" /\ info' = NoInfo
      /\ (\E texts, how : VisitCatalog(texts, how)) =>
           call' = "catalog" /\ listed' = <<>> /\ priority' = 0
  BY DEF FetchInfo, VisitCatalog, Begin
<1>1. Resolving' => Best(0)'
  BY <1>0 DEF Resolving, Best
<1>2. Listing' => Shown(0)'
  <2>1. Matching(0)' = {}
    BY DEF Matching
  <2>2. <<>> \in Seq(Element) /\ Picks(<<>>, items', {})
    BY PicksNothing
  <2> QED BY <1>0, <2>1, <2>2 DEF Listing, Shown
<1>3. call' = "info" => Told(0)'
  <2>1. Of("id", 0)' = {} /\ Of("download", 0)' = {}
    BY DEF Of
  <2>2. Cardinality({}) = 0
    BY FS_EmptySet
  <2>3. CASE FetchInfo
    <3>1. info' = [id |-> NoText, download |-> NoText, stored |-> FALSE, count |-> 0]
      BY <1>0, <2>3 DEF NoInfo
    <3>2. /\ info'.id = NoText /\ ~info'.stored /\ info'.count = 0
          /\ info' = [id |-> info'.id, download |-> info'.download,
                      stored |-> info'.stored, count |-> info'.count]
      BY <3>1
    <3>3. info'.count = IF 0 < CountMax THEN 0 ELSE CountMax
      BY <3>2, CountAssumption
    <3>4. info'.stored = FALSE
      BY <3>1
    <3> QED BY <2>1, <2>2, <3>2, <3>3, <3>4 DEF Told
  <2>4. CASE \E texts, how : VisitCatalog(texts, how)
    BY <1>0, <2>4
  <2> QED BY <2>3, <2>4
<1> QED BY <1>1, <1>2, <1>3 DEF Known

LEMMA BeginStep ==
  ASSUME FetchInfo \/ \E texts, how : VisitCatalog(texts, how)
  PROVE  SteadyInv'
<1>1. PagingInv' /\ Asking' /\ Place' = 0 /\ Len(items') \in Nat
  BY WalkBegins
<1>2. 0 \in 0 .. Len(items') /\ Known(0)'
  BY <1>1, NothingKnown
<1> QED BY <1>1, <1>2 DEF SteadyInv, Running

\* A call that fails keeps a listing what it was.
LEMMA FailedStep ==
  ASSUME SteadyInv, UNCHANGED <<call, visitor, asked, items, strayed, listed>>,
         outcome' \notin {"asking", "reading", "ok", "not found"}
  PROVE  SteadyInv'
<1>1. PagingInv' /\ ~Running'
  BY DEF SteadyInv, PagingInv, Running, Asking, Reading
<1>2. CatalogExact
  BY SteadyExact DEF Exact
<1>3. CatalogExact'
  BY <1>2 DEF CatalogExact
<1> QED BY <1>1, <1>3 DEF SteadyInv, Exact, ResolveExact, InfoWhole

LEMMA PageArrivesStep == ASSUME SteadyInv, PageArrives, ~strayed' PROVE SteadyInv'
<1>1. PagingInv' /\ Running /\ Place' = Place
  BY PageIsNext DEF SteadyInv
<1>2. PICK n \in 0 .. Len(items) : n = Place /\ Known(n)
  BY <1>1 DEF SteadyInv
<1>3. UNCHANGED <<call, visitor, asked, items, listed, entry, priority, info>>
      /\ outcome' = "reading"
  BY DEF PageArrives
<1>4. Known(n)'
  BY <1>2, <1>3, StillKnown
<1>5. Running'
  BY <1>3 DEF Running, Reading
<1> QED BY <1>1, <1>2, <1>3, <1>4, <1>5 DEF SteadyInv

\* The walk goes on, and knows one element more.
LEMMA OneMoreKnown ==
  ASSUME PagingInv', Running', items' = items, NEW n \in Nat, n + 1 \in 1 .. Len(items),
         Place' = n + 1, Known(n + 1)'
  PROVE  SteadyInv'
<1>1. n + 1 \in 0 .. Len(items')
  OBVIOUS
<1> QED BY <1>1 DEF SteadyInv

\* resolve_entry: another entry is compared with the best so far.
LEMMA BestNext ==
  ASSUME NEW n \in Nat, Best(n), NEW e, e = items[n + 1], e.id \notin asked,
         UNCHANGED <<asked, items>>,
         IF e.name \in asked /\ priority = 0 THEN entry' = e /\ priority' = 1
         ELSE entry' = entry /\ priority' = priority
  PROVE  Best(n + 1)'
<1>1. \A i \in 1 .. n + 1 : i \in 1 .. n \/ i = n + 1
  OBVIOUS
<1>2. priority \in {0, 1} /\ priority' \in {0, 1}
  BY DEF Best
<1>3. \A i \in 1 .. n + 1 : items[i].id \notin asked
  BY <1>1 DEF Best
<1>4. priority' = 0 => \A i \in 1 .. n + 1 : items[i].name \notin asked
  BY <1>1, <1>2 DEF Best
<1>5. priority' = 1 => \E i \in 1 .. n + 1 : entry' = items[i] /\ items[i].name \in asked
  <2>1. CASE e.name \in asked /\ priority = 0
    BY <2>1
  <2>2. CASE ~(e.name \in asked /\ priority = 0)
    BY <2>2 DEF Best
  <2> QED BY <2>1, <2>2
<1> QED BY <1>2, <1>3, <1>4, <1>5 DEF Best

\* print_catalog_entry: another entry is printed if it matches.
LEMMA ShownNext ==
  ASSUME NEW n \in Nat, Shown(n), NEW e \in Element, e = items[n + 1],
         UNCHANGED <<asked, items>>,
         listed' = IF Selected(e) THEN Append(listed, e) ELSE listed
  PROVE  Shown(n + 1)'
<1>1. listed \in Seq(Element) /\ Picks(listed, items, Matching(n)) /\ Matching(n) \in SUBSET (1 .. n)
  BY DEF Shown, Matching
<1>2. \A i \in 1 .. n + 1 : i \in 1 .. n \/ i = n + 1
  OBVIOUS
<1>3. Selected(e) <=> {e.id, e.name} \cap asked # {}
  BY DEF Selected
<1>4. CASE Selected(e)
  <2>1. Matching(n + 1)' = Matching(n) \cup {n + 1}
    BY <1>2, <1>3, <1>4 DEF Matching
  <2>2. Picks(Append(listed, e), items, Matching(n) \cup {n + 1})
    BY <1>1, PicksNext, Zenon
  <2>3. listed' = Append(listed, e) /\ listed' \in Seq(Element)
    BY <1>1, <1>4
  <2>4. Picks(listed', items', Matching(n + 1)')
    BY <2>1, <2>2, <2>3
  <2> QED BY <2>3, <2>4 DEF Shown
<1>5. CASE ~Selected(e)
  <2>1. Matching(n + 1)' = Matching(n)
    BY <1>2, <1>3, <1>5 DEF Matching
  <2> QED BY <1>1, <1>5, <2>1 DEF Shown
<1> QED BY <1>4, <1>5

\* collect_info_value: another value is of one of its types, or of none.
LEMMA OfNext ==
  ASSUME NEW n \in Nat, UNCHANGED items, NEW type
  PROVE  /\ Of(type, n) \in SUBSET (1 .. n)
         /\ items[n + 1].type = type => Of(type, n + 1)' = Of(type, n) \cup {n + 1}
         /\ items[n + 1].type # type => Of(type, n + 1)' = Of(type, n)
<1>1. \A i : i \in 1 .. n + 1 <=> i \in 1 .. n \/ i = n + 1
  OBVIOUS
<1> QED BY <1>1 DEF Of

LEMMA IdNext ==
  ASSUME NEW n \in Nat, Told(n), UNCHANGED items, items[n + 1].type = "id",
         info' = [info EXCEPT !.id = items[n + 1].text]
  PROVE  Told(n + 1)'
<1>1. /\ Of("id", n) \in SUBSET (1 .. n)
      /\ Of("id", n + 1)' = Of("id", n) \cup {n + 1}
      /\ Of("download", n + 1)' = Of("download", n)
  BY OfNext
<1>2. info' = [id |-> items[n + 1].text, download |-> info.download,
               stored |-> info.stored, count |-> info.count]
  BY DEF Told
<1>3. /\ info'.id = items'[n + 1].text /\ info'.download = info.download
      /\ info'.stored = info.stored /\ info'.count = info.count
      /\ info' = [id |-> info'.id, download |-> info'.download,
                  stored |-> info'.stored, count |-> info'.count]
  BY <1>2
<1>4. n + 1 \in Of("id", n + 1)' /\ \A j \in Of("id", n + 1)' : j <= n + 1
  BY <1>1
<1> QED BY <1>1, <1>3, <1>4 DEF Told

LEMMA DownloadNext ==
  ASSUME NEW n \in Nat, Told(n), UNCHANGED items, items[n + 1].type = "download",
         info' = IF Stores THEN [info EXCEPT !.download = items[n + 1].text, !.stored = TRUE,
                                             !.count = Counted]
                 ELSE [info EXCEPT !.count = Counted]
  PROVE  Told(n + 1)'
<1> DEFINE D == Of("download", n)
           k == Cardinality(D)
           d == IF info.stored THEN info.download ELSE items[n + 1].text
<1>1. /\ D \in SUBSET (1 .. n)
      /\ Of("id", n + 1)' = Of("id", n)
      /\ Of("download", n + 1)' = D \cup {n + 1}
  BY OfNext
<1>2. k \in Nat /\ Cardinality(D \cup {n + 1}) = k + 1
  BY <1>1, SomePositions, NextPosition
<1>3. /\ info = [id |-> info.id, download |-> info.download, stored |-> info.stored,
                 count |-> info.count]
      /\ info.stored = (D # {})
      /\ info.count = IF k < CountMax THEN k ELSE CountMax
  BY DEF Told
<1>4. info' = [id |-> info.id, download |-> d, stored |-> TRUE, count |-> Counted]
  BY <1>3 DEF Stores
<1>5. /\ info'.id = info.id /\ info'.stored = TRUE /\ info'.count = Counted
      /\ info'.download = d
      /\ info' = [id |-> info'.id, download |-> info'.download,
                  stored |-> info'.stored, count |-> info'.count]
  <2> HIDE DEF d
  <2>1. PICK r, i, s, t, c :
          r = info' /\ i = info.id /\ s = d /\ t = TRUE /\ c = Counted
    OBVIOUS
  <2>2. r = [id |-> i, download |-> s, stored |-> t, count |-> c]
    BY <1>4, <2>1
  <2>3. /\ r.id = i /\ r.download = s /\ r.stored = t /\ r.count = c
        /\ r = [id |-> r.id, download |-> r.download, stored |-> r.stored, count |-> r.count]
    BY <2>2
  <2> QED BY <2>1, <2>3
<1>6. Counted = IF k + 1 < CountMax THEN k + 1 ELSE CountMax
  BY <1>2, <1>3, CountAssumption DEF Counted
<1> HIDE DEF k
<1>7. \E i \in D \cup {n + 1} :
        (\A j \in D \cup {n + 1} : i <= j) /\ info'.download = items'[i].text
  <2>1. CASE info.stored
    <3>1. PICK i \in D : (\A j \in D : i <= j) /\ info.download = items[i].text
      BY <2>1 DEF Told
    <3>2. i <= n + 1
      BY <1>1
    <3> HIDE DEF D
    <3> QED BY <1>5, <2>1, <3>1, <3>2
  <2>2. CASE ~info.stored
    <3>1. D = {}
      BY <1>3, <2>2
    <3> HIDE DEF D
    <3> QED BY <1>5, <2>2, <3>1
  <2> QED BY <2>1, <2>2
<1>8. \/ Of("id", n) = {} /\ info'.id = NoText
      \/ \E i \in Of("id", n) : (\A j \in Of("id", n) : j <= i) /\ info'.id = items'[i].text
  BY <1>5 DEF Told
<1>9. info'.stored = (D \cup {n + 1} # {})
  BY <1>5
<1>10. info'.count = IF Cardinality(D \cup {n + 1}) < CountMax THEN Cardinality(D \cup {n + 1})
                     ELSE CountMax
  BY <1>2, <1>5, <1>6
<1> HIDE DEF D, d
<1> QED BY <1>1, <1>5, <1>7, <1>8, <1>9, <1>10, Zenon DEF Told

LEMMA OtherNext ==
  ASSUME NEW n \in Nat, Told(n), UNCHANGED <<items, info>>,
         items[n + 1].type \notin {"id", "download"}
  PROVE  Told(n + 1)'
<1>1. /\ Of("id", n + 1)' = Of("id", n) /\ Of("download", n + 1)' = Of("download", n)
  BY OfNext
<1> QED BY <1>1 DEF Told

LEMMA VisitEntryStep == ASSUME SteadyInv, Short, VisitEntry PROVE SteadyInv'
<1> DEFINE e == Head(page)
<1>1. /\ UNCHANGED <<call, visitor, asked, items, strayed, info>>
      /\ Reading /\ call = "catalog" /\ page # <<>> /\ NextElement
      /\ outcome' # "asking"
  BY DEF VisitEntry, NextElement, Return, Reading
<1>2. PagingInv /\ Running
  BY <1>1 DEF SteadyInv, Running
<1>3. PICK n \in 0 .. Len(items) : n = Place /\ Known(n)
  BY <1>2 DEF SteadyInv
<1>4. /\ PagingInv' /\ n \in Nat /\ n + 1 \in 1 .. Len(items)
      /\ e = items[n + 1] /\ Place' = n + 1
  <2>1. /\ PagingInv' /\ Place + 1 \in 1 .. Len(items)
        /\ e = items[Place + 1] /\ Place' = Place + 1
    BY <1>1, <1>2, ElementIsNext
  <2> QED BY <1>3, <2>1
<1>5. items \in Seq(Element) /\ e \in Element
  <2>1. items \in Seq(Element)
    BY <1>2 DEF PagingInv
  <2> QED BY <1>4, <2>1
<1>6. CASE e.id = Overlong
  <2>1. outcome' = "too long" /\ listed' = listed
    BY <1>6 DEF VisitEntry, Return
  <2> QED BY <1>1, <2>1, FailedStep
<1>7. CASE e.id # Overlong /\ Resolving
  <2>1. Best(n) /\ ~Listing' /\ call' # "info" /\ priority \in {0, 1}
    BY <1>1, <1>3, <1>7 DEF Known, Resolving, Listing, Best
  <2>2. CASE e.id \in asked
    <3>1. Selected(e) /\ Rank(e) = 2 /\ Rank(e) > priority /\ Stops(Rank(e))
      BY <2>1, <2>2 DEF Selected, Rank, Stops
    <3>2. outcome' = "ok" /\ entry' = e
      BY <1>7, <3>1 DEF VisitEntry, Return, Resolving
    <3> HIDE DEF e
    <3>3. ResolveExact'
      BY <1>1, <1>4, <1>5, <2>2, <3>2 DEF ResolveExact
    <3>4. CatalogExact' /\ InfoWhole'
      BY <2>1 DEF CatalogExact, InfoWhole, Listing
    <3> QED BY <1>4, <3>2, <3>3, <3>4 DEF SteadyInv, Exact, Running, Asking, Reading
  <2>3. CASE e.id \notin asked
    <3>1. Rank(e) = (IF e.name \in asked THEN 1 ELSE 0) /\ ~Stops(Rank(e))
          /\ (Selected(e) <=> e.name \in asked)
      BY <2>3 DEF Selected, Rank, Stops
    <3>2. /\ outcome' = outcome
          /\ IF Selected(e) /\ Rank(e) > priority THEN entry' = e /\ priority' = Rank(e)
             ELSE entry' = entry /\ priority' = priority
      BY <1>7, <3>1 DEF VisitEntry, Resolving
    <3>3. IF e.name \in asked /\ priority = 0 THEN entry' = e /\ priority' = 1
          ELSE entry' = entry /\ priority' = priority
      BY <2>1, <3>1, <3>2
    <3>4. Best(n + 1)'
      BY <1>1, <1>4, <2>1, <2>3, <3>3, BestNext
    <3>5. Known(n + 1)'
      BY <2>1, <3>4 DEF Known
    <3>6. Running'
      BY <1>1, <3>2 DEF Running, Reading
    <3> QED BY <1>1, <1>4, <3>5, <3>6, OneMoreKnown
  <2> QED BY <2>2, <2>3
<1>8. CASE e.id # Overlong /\ ~Resolving
  <2>1. visitor # "resolve" /\ ~Resolving' /\ call' # "info"
    BY <1>1, <1>8 DEF Resolving
  <2>2. outcome' = outcome
    BY <1>8, <2>1 DEF VisitEntry
  <2>3. Listing' => Shown(n + 1)'
    <3>1. SUFFICES ASSUME Listing' PROVE Shown(n + 1)'
      OBVIOUS
    <3>2. Shown(n) /\ visitor = "print"
      BY <1>1, <1>3, <3>1 DEF Known, Listing
    <3>3. Len(listed) < MaxListed
      <4>1. Matching(n) \in SUBSET (1 .. n) /\ Len(listed) = Cardinality(Matching(n))
        BY <3>2 DEF Shown, Matching, Picks
      <4>2. Len(listed) \in 0 .. n
        BY <1>4, <4>1, SomePositions
      <4>3. Len(items) <= MaxEntries /\ Len(items) \in Nat
        BY <1>1, <1>5 DEF Short
      <4> QED BY <1>4, <4>2, <4>3, ListedAssumption, BoundAssumption
    <3>4. listed' = IF Selected(e) THEN Append(listed, e) ELSE listed
      BY <1>8, <3>2, <3>3 DEF VisitEntry
    <3> QED BY <1>1, <1>4, <1>5, <3>2, <3>4, ShownNext
  <2>4. Known(n + 1)'
    BY <2>1, <2>3 DEF Known
  <2>5. Running'
    BY <1>1, <2>2 DEF Running, Reading
  <2> QED BY <1>1, <1>4, <2>4, <2>5, OneMoreKnown
<1> QED BY <1>6, <1>7, <1>8

LEMMA CollectValueStep == ASSUME SteadyInv, CollectValue PROVE SteadyInv'
<1> DEFINE v == Head(page)
<1>1. /\ UNCHANGED <<call, visitor, asked, items, strayed, listed>>
      /\ Reading /\ call = "info" /\ page # <<>> /\ NextElement
      /\ outcome' # "asking"
  BY DEF CollectValue, NextElement, Return, Reading
<1>2. PagingInv /\ Running
  BY <1>1 DEF SteadyInv, Running
<1>3. PICK n \in 0 .. Len(items) : n = Place /\ Known(n)
  BY <1>2 DEF SteadyInv
<1>4. /\ PagingInv' /\ n \in Nat /\ n + 1 \in 1 .. Len(items)
      /\ v = items[n + 1] /\ Place' = n + 1
  <2>1. /\ PagingInv' /\ Place + 1 \in 1 .. Len(items)
        /\ v = items[Place + 1] /\ Place' = Place + 1
    BY <1>1, <1>2, ElementIsNext
  <2> QED BY <1>3, <2>1
<1>5. Told(n) /\ ~Resolving' /\ ~Listing'
  BY <1>1, <1>3 DEF Known, Resolving, Listing
<1>6. CASE outcome' \in {"too long", "invalid response"}
  BY <1>1, <1>6, FailedStep
<1>7. CASE /\ outcome' = outcome
           /\ \/ v.type = "id" /\ info' = [info EXCEPT !.id = v.text]
              \/ /\ v.type = "download"
                 /\ info' = IF Stores THEN [info EXCEPT !.download = v.text, !.stored = TRUE,
                                                        !.count = Counted]
                            ELSE [info EXCEPT !.count = Counted]
              \/ v.type \notin {"id", "download"} /\ info' = info
  <2> HIDE DEF v
  <2>1. Told(n + 1)'
    BY <1>1, <1>4, <1>5, <1>7, IdNext, DownloadNext, OtherNext
  <2>2. Known(n + 1)'
    BY <1>5, <2>1 DEF Known
  <2>3. Running'
    BY <1>1, <1>7 DEF Running, Reading
  <2> QED BY <1>1, <1>4, <2>2, <2>3, OneMoreKnown
<1> QED BY <1>6, <1>7 DEF CollectValue, Return

LEMMA EndOfPageStep == ASSUME SteadyInv, EndOfPage PROVE SteadyInv'
<1>1. /\ PagingInv' /\ Running
      /\ \/ outcome' = "invalid response"
         \/ outcome' = Finding /\ Place = Len(items)
         \/ outcome' = "asking" /\ Place' = Place /\ Place \in 0 .. Len(items)
  BY PageEnds DEF SteadyInv
<1>2. UNCHANGED <<call, visitor, asked, items, strayed, listed, entry, priority, info>>
  BY DEF EndOfPage
<1>3. PICK n \in 0 .. Len(items) : n = Place /\ Known(n)
  BY <1>1 DEF SteadyInv
<1>4. Known(n)'
  BY <1>2, <1>3, StillKnown
<1>5. CASE outcome' = "invalid response"
  BY <1>2, <1>5, FailedStep
<1>6. CASE outcome' = Finding /\ Place = Len(items)
  <2>1. items \in Seq(Element) /\ n = Len(items)
    BY <1>3, <1>6 DEF SteadyInv, PagingInv
  <2>2. ResolveExact'
    <3>1. SUFFICES ASSUME Resolving' PROVE ResolveExact'
      BY DEF ResolveExact, Resolving
    <3>2. Best(Len(items)) /\ call = "catalog" /\ visitor = "resolve"
      BY <1>2, <1>3, <2>1, <3>1 DEF Known, Resolving
    <3>3. outcome' = IF priority = 0 THEN "not found" ELSE "ok"
      BY <1>6, <3>2 DEF Finding
    <3> QED BY <1>2, <2>1, <3>2, <3>3, WholeCatalog DEF ResolveExact
  <2>3. CatalogExact'
    <3>1. SUFFICES ASSUME Listing' PROVE CatalogExact'
      BY DEF CatalogExact, Listing
    <3>2. Picks(listed, items, Matching(n))' /\ n = Len(items') /\ n \in 0 .. Len(items')
      BY <1>2, <1>4, <2>1, <3>1 DEF Known, Shown
    <3> QED BY <3>2 DEF CatalogExact, Matching
  <2>4. InfoWhole'
    <3>1. SUFFICES ASSUME call' = "info", outcome' = "ok" PROVE InfoWhole'
      BY DEF InfoWhole
    <3>2. Told(Len(items)) /\ info.id # NoText
      BY <1>2, <1>3, <1>6, <2>1, <3>1 DEF Known, Finding
    <3> QED BY <1>2, <2>1, <3>2, WholeAnswer DEF InfoWhole
  <2>5. ~Running'
    BY <1>6 DEF Finding, Running, Asking, Reading
  <2> QED BY <1>1, <2>2, <2>3, <2>4, <2>5 DEF SteadyInv, Exact
<1>7. CASE outcome' = "asking" /\ Place' = Place
  <2>1. n \in 0 .. Len(items') /\ n = Place' /\ Known(n)'
    BY <1>2, <1>3, <1>4, <1>7
  <2>2. Running'
    BY <1>7 DEF Running, Asking
  <2> QED BY <1>1, <2>1, <2>2 DEF SteadyInv
<1> QED BY <1>1, <1>5, <1>6, <1>7

\* Another command has no walk, and the program says no more of one.
LEMMA StartDownloadStep == ASSUME StartDownload PROVE SteadyInv'
<1>1. call' = "none" /\ items' = <<>> /\ outcome' = "none"
  BY DEF StartDownload
<1> QED BY <1>1 DEF SteadyInv, PagingInv, Exact, ResolveExact, CatalogExact, InfoWhole,
                    Running, Asking, Reading

LEMMA IdleStep == ASSUME SteadyInv, UNCHANGED clientVars PROVE SteadyInv'
<1>1. UNCHANGED <<call, visitor, asked, items, page, cursor, next_cursor, strayed, listed,
                 entry, priority, info, outcome>>
  BY DEF clientVars, walkVars
<1>2. /\ Place' = Place /\ Asking' = Asking /\ Reading' = Reading /\ Running' = Running
      /\ PagingInv'
  BY <1>1 DEF SteadyInv, PagingInv, Running, Asking, Reading, Place, Seen
<1>3. Exact' <=> Exact
  BY <1>1 DEF Exact, ResolveExact, CatalogExact, InfoWhole
<1>4. CASE Running
  <2>1. PICK n \in 0 .. Len(items) : n = Place /\ Known(n)
    BY <1>4 DEF SteadyInv
  <2>2. Known(n)' /\ n \in 0 .. Len(items') /\ n = Place'
    BY <1>1, <1>2, <2>1, StillKnown
  <2> QED BY <1>2, <1>4, <2>2 DEF SteadyInv
<1> QED BY <1>2, <1>3, <1>4 DEF SteadyInv

LEMMA LostStep ==
  ASSUME SteadyInv, ExchangeLost \/ RefuseEmpty
  PROVE  SteadyInv'
<1>1. /\ UNCHANGED <<call, visitor, asked, items, strayed, listed>>
      /\ outcome' \in {"link failed", "server error", "invalid response", "invalid argument"}
  BY DEF ExchangeLost, RefuseEmpty, Return, walkVars
<1> QED BY <1>1, FailedStep

\* A walk that has strayed stays astray until the next one.
LEMMA WalkStep == ASSUME WalkInv, Walk PROVE WalkInv'
<1>1. Short'
  <2>1. UNCHANGED <<call, items>>
    BY DEF Walk, ExchangeLost, PageArrives, VisitEntry, CollectValue, EndOfPage, NextElement,
           walkVars
  <2> QED BY <2>1 DEF WalkInv, Short
<1>2. strayed => strayed'
  BY DEF Walk, ExchangeLost, PageArrives, VisitEntry, CollectValue, EndOfPage, NextElement,
         walkVars
<1>3. CASE ~strayed'
  <2>1. SteadyInv /\ Short
    BY <1>2, <1>3 DEF WalkInv
  <2>2. SteadyInv'
    BY <1>3, <2>1, PageArrivesStep, VisitEntryStep, CollectValueStep, EndOfPageStep, LostStep
       DEF Walk
  <2> QED BY <1>1, <2>2 DEF WalkInv
<1> QED BY <1>1, <1>3 DEF WalkInv

LEMMA NewWalkStep ==
  ASSUME FetchInfo \/ \E texts, how : VisitCatalog(texts, how)
  PROVE  WalkInv'
<1>1. SteadyInv'
  BY BeginStep
<1>2. CASE FetchInfo
  <2>1. call' = "info"
    BY <1>2 DEF FetchInfo, Begin
  <2> QED BY <1>1, <2>1 DEF WalkInv, Short
<1>3. CASE \E texts, how : VisitCatalog(texts, how)
  <2>1. items' \in Lists(Entries, MaxEntries)
    BY <1>3 DEF VisitCatalog, Begin
  <2>2. PICK k \in 0 .. MaxEntries : items' \in [1 .. k -> Entries]
    BY <2>1 DEF Lists
  <2>3. Len(items') <= MaxEntries
    BY <2>2, BoundAssumption
  <2> QED BY <1>1, <2>3 DEF WalkInv, Short
<1> QED BY <1>2, <1>3

LEMMA RefusedStep == ASSUME WalkInv, RefuseEmpty PROVE WalkInv'
<1>1. UNCHANGED <<call, items, strayed>>
  BY DEF RefuseEmpty, walkVars
<1> QED BY <1>1, LostStep DEF WalkInv, Short

LEMMA ClientKept == ASSUME WalkInv, [ApplicationNext]_allVars PROVE WalkInv'
<1>1. CASE Walk
  BY <1>1, WalkStep
<1>2. CASE UNCHANGED clientVars
  <2>1. UNCHANGED <<call, items, strayed>>
    BY <1>2 DEF clientVars, walkVars
  <2> QED BY <1>2, <2>1, IdleStep DEF WalkInv, Short
<1>3. CASE ShowCatalog
  BY <1>3, NewWalkStep DEF ShowCatalog
<1>4. CASE Resolve
  BY <1>4, RefusedStep, NewWalkStep DEF Resolve
<1>5. CASE Fetch
  BY <1>5, RefusedStep, NewWalkStep DEF Fetch
<1>6. CASE StartDownload
  <2>1. call' = "none"
    BY <1>6 DEF StartDownload
  <2> QED BY <1>6, <2>1, StartDownloadStep DEF WalkInv, Short
<1> QED
  BY <1>1, <1>2, <1>3, <1>4, <1>5, <1>6
     DEF ApplicationNext, Step, PrintUsage, CatalogShown, NoWildcards, Converse, GiveUp,
         ShowInfo, RefuseDownload, Transfer, DownloadEnds, Exited, allVars

LEMMA WalkInvariant == ApplicationSpec => []WalkInv
<1>1. ApplicationInit => WalkInv
  BY DEF ApplicationInit, ClientInit, WalkInv, Short, SteadyInv, PagingInv, Exact,
         ResolveExact, CatalogExact, InfoWhole, Running, Asking, Reading
<1> QED BY <1>1, ClientKept, PTL DEF ApplicationSpec

\* Unless a cursor strays, the package that paket_resolve_package gives, and that is
\* shown or downloaded, is one with the id that was typed, or else with the name,
\* whatever the catalog and its pages; and none is "not found" that the catalog
\* holds.
THEOREM RightPackage == ApplicationSpec => []ResolveExact
<1>1. WalkInv => ResolveExact
  BY AlwaysExact DEF Exact
<1> QED BY <1>1, WalkInvariant, PTL

\* What show_catalog prints, if every cursor is the place behind its page, is the
\* packages that match, each once and in the order of the catalog, whatever its pages;
\* and all of them if it says that it is complete.
THEOREM ListingIsExact == ApplicationSpec => []CatalogExact
<1>1. WalkInv => CatalogExact
  BY AlwaysExact DEF Exact
<1> QED BY <1>1, WalkInvariant, PTL

\* What paket_fetch_info returns of a package is what all its pages said of it, if every
\* cursor is the place behind its page.
THEOREM InfoIsWhole == ApplicationSpec => []InfoWhole
<1>1. WalkInv => InfoWhole
  BY AlwaysExact DEF Exact
<1> QED BY <1>1, WalkInvariant, PTL
=============================================================================
