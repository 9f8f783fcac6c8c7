---------------------------- MODULE CatalogClient ----------------------------
(***************************************************************************)
(* The catalog and metadata calls of src/src/client_z80.c: a page at a     *)
(* time, each element of a page given to the caller's visitor or stored.   *)
(* libsquid and the server are external: a cursor is a place in the list   *)
(* that answers the query, a page may hold none, some or all of what       *)
(* stands behind it and may name any cursor for the next, forward or back, *)
(* may turn out to be damaged after some of its elements, may be an error, *)
(* or may never come.  Texts are compared as in upper case.                *)
(***************************************************************************)
EXTENDS Naturals, Sequences, Subsequence

CONSTANTS Entries,   \* catalog entries: [id, name]
          Values,    \* metadata values: [type, text]
          Patterns,  \* what is typed to search: the texts that match it
          Names,     \* what is typed to name one package
          Overlong,  \* an id that does not fit
          NoText,    \* an empty text
          CountMax,  \* 255: download_count goes no further
          MaxEntries, MaxValues, \* bounds: elements of an answer
          MaxListed, \* bound: entries printed that the model keeps
          Leaps      \* bound: cursors that a page may name out of place

ASSUME BoundAssumption == MaxEntries \in Nat /\ MaxValues \in Nat
ASSUME ListedAssumption == MaxListed \in Nat /\ MaxEntries <= MaxListed
ASSUME CountAssumption == CountMax \in Nat

VARIABLES
  call,      \* the last call: none yet, catalog or info
  visitor,   \* print (print_catalog_entry) or resolve (resolve_entry)
  asked,     \* the texts that match the pattern
  items,     \* all the server has for this query
  page, damaged,        \* the rest of the page, and whether its end is
  cursor, next_cursor,  \* places in items; at the end of it RV_CURSOR_END
  strayed,   \* history: some cursor was not the place behind its page
  listed,    \* the entries printed; count is their number
  entry, priority,      \* resolve_context
  info,      \* paket_package_info: id, first download, download_count
  outcome    \* asking, reading, then what the call returned

walkVars == <<items, page, damaged, cursor, next_cursor, strayed>>
clientVars == <<call, visitor, asked, walkVars, listed, entry, priority, info,
                outcome>>

NoEntry == [id |-> NoText, name |-> NoText]
NoInfo  == [id |-> NoText, download |-> NoText, stored |-> FALSE, count |-> 0]
All == {e.id : e \in Entries} \cup {e.name : e \in Entries}

ClientInit == /\ call = "none" /\ visitor = "print" /\ asked = {}
              /\ items = <<>> /\ page = <<>> /\ damaged = FALSE
              /\ cursor = 0 /\ next_cursor = 0 /\ strayed = FALSE
              /\ listed = <<>> /\ entry = NoEntry /\ priority = 0
              /\ info = NoInfo /\ outcome = "none"

Asking  == outcome = "asking"
Reading == outcome = "reading"
Running == Asking \/ Reading

\* The place a page may leave off: the element after it, or the end.
End == Len(items)

Lists(S, n) == UNION {[1 .. k -> S] : k \in 0 .. n}

\* A call begins with the cursor 0, and the server with what it has to say.
Begin(what, answers) ==
  /\ ~Running /\ call' = what
  /\ items' \in answers
  /\ page' = <<>> /\ damaged' = FALSE /\ cursor' = 0 /\ next_cursor' = 0
  /\ strayed' = FALSE
  /\ outcome' = "asking"

\* paket_visit_catalog.
VisitCatalog(texts, how) ==
  /\ Begin("catalog", Lists(Entries, MaxEntries))
  /\ asked' = texts /\ visitor' = how
  /\ listed' = <<>> /\ entry' = NoEntry /\ priority' = 0
  /\ UNCHANGED info

\* paket_fetch_info.
FetchInfo == /\ Begin("info", Lists(Values, MaxValues))
             /\ info' = NoInfo
             /\ UNCHANGED <<asked, visitor, listed, entry, priority>>

Return(why) == outcome' = why

\* map_squid_result: the link fails, the server answers with an error, or its
\* answer is none.
ExchangeLost == /\ Asking
                /\ \E why \in {"link failed", "server error", "invalid response"} :
                     Return(why)
                /\ UNCHANGED <<call, visitor, asked, walkVars, listed, entry,
                               priority, info>>

\* Whatever cursor the page names is taken; a server that walks its list names the
\* place behind the page.
PageArrives ==
  /\ Asking
  /\ \E k \in 0 .. Len(items) - cursor, bad \in BOOLEAN :
     \E next \in {cursor + k} \cup (Leaps \cap (0 .. End)) :
       /\ page' = SubSeq(items, cursor + 1, cursor + k)
       /\ next_cursor' = next
       /\ strayed' = (strayed \/ next # cursor + k)
       /\ damaged' = bad
  /\ outcome' = "reading"
  /\ UNCHANGED <<call, visitor, asked, items, cursor, listed, entry, priority, info>>

NextElement == page' = Tail(page) /\ UNCHANGED <<items, damaged, cursor, next_cursor, strayed>>

\* paket_wildcard_match of the pattern with the id and with the name.
Selected(e) == e.id \in asked \/ e.name \in asked

\* resolve_entry: how well an entry fits the typed name.
Rank(e) == IF e.id \in asked THEN 2 ELSE IF e.name \in asked THEN 1 ELSE 0

\* The walk stops at an entry that no other can beat.
StopsMutant(rank) == rank > 0  \* at the first that fits at all
Stops(rank) == rank = 2

\* visit_catalog_entry.
VisitEntry ==
  /\ Reading /\ call = "catalog" /\ page # <<>>
  /\ LET e == Head(page)
     IN  IF e.id = Overlong
         THEN Return("too long") /\ UNCHANGED <<listed, entry, priority>>
         ELSE /\ listed' = IF visitor = "print" /\ Selected(e) /\ Len(listed) < MaxListed
                           THEN Append(listed, e) ELSE listed
              /\ IF visitor = "resolve" /\ Selected(e) /\ Rank(e) > priority
                 THEN entry' = e /\ priority' = Rank(e)
                 ELSE UNCHANGED <<entry, priority>>
              /\ IF visitor = "resolve" /\ Selected(e) /\ Stops(Rank(e))
                 THEN Return("ok") ELSE UNCHANGED outcome
  /\ NextElement
  /\ UNCHANGED <<call, visitor, asked, info>>

\* collect_info_value.  The first download is decoded and stored, the others are
\* only counted.
StoresMutant == TRUE  \* every download is stored over the last
Stores == ~info.stored
Counted == IF info.count < CountMax THEN info.count + 1 ELSE info.count
CollectValue ==
  /\ Reading /\ call = "info" /\ page # <<>>
  /\ LET v == Head(page)
     IN  \/ /\ v.type = "id" /\ v.text # Overlong
            /\ info' = [info EXCEPT !.id = v.text]
            /\ UNCHANGED outcome
         \/ /\ v.type = "id" /\ v.text = Overlong
            /\ Return("too long") /\ UNCHANGED info
         \/ /\ v.type = "download" /\ Stores /\ v.text # Overlong
            /\ info' = [info EXCEPT !.download = v.text, !.stored = TRUE,
                                    !.count = Counted]
            /\ UNCHANGED outcome
         \/ /\ v.type = "download" /\ Stores /\ v.text = Overlong
            /\ info' = [info EXCEPT !.count = Counted]
            /\ Return("invalid response")
         \/ /\ v.type = "download" /\ ~Stores
            /\ info' = [info EXCEPT !.count = Counted]
            /\ UNCHANGED outcome
         \/ /\ v.type = "broken" /\ Return("invalid response") /\ UNCHANGED info
         \/ /\ v.type = "other" /\ UNCHANGED <<info, outcome>>
  /\ NextElement
  /\ UNCHANGED <<call, visitor, asked, listed, entry, priority>>

\* What a walk that has seen everything returns: resolve.priority and info->id
\* decide.
Finding == IF call = "info"
           THEN IF info.id = NoText THEN "invalid response" ELSE "ok"
           ELSE IF visitor = "resolve" /\ priority = 0 THEN "not found" ELSE "ok"

\* A page that brings the walk no further is an error, not the end.
StallMutant == Finding
Stall == "invalid response"

\* Nothing else is asked of the cursor.
NoFurtherMutant == FALSE  \* it is not compared with the last
NoFurther == next_cursor = cursor

\* The end of visit_catalog_model's and paket_fetch_info's loops.
EndOfPage ==
  /\ Reading /\ page = <<>>
  /\ IF damaged THEN Return("invalid response") /\ UNCHANGED cursor
     ELSE IF next_cursor = End THEN Return(Finding) /\ UNCHANGED cursor
     ELSE IF NoFurther THEN Return(Stall) /\ UNCHANGED cursor
     ELSE cursor' = next_cursor /\ outcome' = "asking"
  /\ UNCHANGED <<call, visitor, asked, items, page, damaged, next_cursor, strayed, listed,
                 entry, priority, info>>

\* Every call refuses an empty text.
RefuseEmpty == /\ ~Running /\ outcome' = "invalid argument"
               /\ UNCHANGED <<call, visitor, asked, walkVars, listed, entry,
                              priority, info>>

Walk == ExchangeLost \/ PageArrives \/ VisitEntry \/ CollectValue \/ EndOfPage
-----------------------------------------------------------------------------
(* Properties.                                                             *)

\* If every cursor is the place behind its page, a listing shows the packages that
\* match, each of them once and in the order of the catalog, however the pages
\* divide it; and it counts as complete only if it is: a page lost, damaged or
\* empty half-way is never taken for the end.
CatalogExact ==
  ~strayed /\ call = "catalog" /\ visitor = "print" =>
    LET matching(n) == {i \in 1 .. n : {items[i].id, items[i].name} \cap asked # {}}
    IN  /\ \E n \in 0 .. Len(items) : Picks(listed, items, matching(n))
        /\ outcome = "ok" => Picks(listed, items, matching(Len(items)))

\* "Resolve an exact case-insensitive package ID or display name" (client.h): if the
\* cursors lead through the whole catalog, an id that fits wins over every name,
\* wherever in the catalog and its pages the two stand; and a package is not found
\* only if there is none.
ResolveExact ==
  ~strayed /\ call = "catalog" /\ visitor = "resolve" =>
    LET all == {items[i] : i \in DOMAIN items}
        ids == {e \in all : e.id \in asked}
        names == {e \in all : e.name \in asked}
    IN  /\ outcome = "ok" => entry \in IF ids # {} THEN ids ELSE names
        /\ outcome = "not found" => ids \cup names = {}

\* What paket_fetch_info returns is what all the pages said, if the cursors lead
\* through all of them: the last id, the first of the downloads, which is the one
\* that is downloaded, and how many there are.
InfoWhole ==
  ~strayed /\ call = "info" /\ outcome = "ok" =>
    LET of(type) == {i \in DOMAIN items : items[i].type = type}
        downloads == of("download")
        n == Cardinality(downloads)
    IN  /\ \E i \in of("id") : (\A j \in of("id") : j <= i) /\ info.id = items[i].text
        /\ info.stored = (downloads # {})
        /\ info.stored =>
             \E i \in downloads : (\A j \in downloads : i <= j) /\ info.download = items[i].text
        /\ info.count = IF n < CountMax THEN n ELSE CountMax
=============================================================================
