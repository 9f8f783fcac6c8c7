# Formal model of paket

paket is a CP/M program for the Iskra Delta Partner (Z80) that lists, describes
and downloads software packages over a serial line; its client is also built for
a host. These modules model the program in `src/`; TLC checks them on small
instances and TLAPS proves the properties that matter most for every value of
the constants.

    tlc -config SerialDriver.cfg SerialDriver      # one run of the table below
    tlapm SerialDriverProofs.tla                   # the proofs of one module

## The system

| part | code | state | operations | model |
|---|---|---|---|---|
| serial driver | `src/serial_link.c` | rings, WR5 shadow, `serial_open`, `serial_fault` | initialize, send, receive, close | `SerialDriver` |
| interrupt handlers | `src/serial_isr.s` | the same rings and shadow, IM2 words, IFF | lock/unlock, RX, TX, install/restore | `SerialDriver` |
| link session, entry point | `src/serial_link.c`, `src/main.c` | RTC mask, socket, session flags, epoch | startup hook, begin/end, open, poll, close | `LinkSession` |
| time | `src/partner_io.c`, `src/timebase.c` | last reading, remainder, tick | snapshot, reset, advance | `RtcClock` |
| command line | `src/command.c` | argument vector, options | options, wildcard match, search anchor, target names | `Options`, `Wildcard`, `TargetPath`, composed in `CommandLine` |
| application | `src/application.c` | package info, open file | list, info, download | `Application` |
| client, CP/M | `src/client_z80.c` | one exchange at a time over libsquid | capabilities, catalog, resolve, info, download | `CatalogClient`, `Download`; capabilities in `LinkSession` |
| file output | `src/file.c` | FCB, record buffer, user area | parse, create, write, close, remove | `TargetPath` (parse), `FileOutput` |
| client, hosted | `src/client.c` | one packet buffer for requests and responses | the same as on CP/M | `HostedClient` |
| wire format | `src/retrovault.c` | none | builders, size of a response, decoding | `Wire` |
| output, messages, platform, port I/O | `src/output.c`, `src/messages.c`, `src/platform.c`, `src/z80_io.s` | none | formatting, tables, single instructions | not modelled |

The foreground polls the link (`pump_link` calls libsquid, which calls send and
receive); the handlers run between any two of its instructions unless it has
masked them; both share the rings and the SIO channel. Above that everything is
sequential: the command line decides what the application does, the application
calls the client, and the client hands back, through callbacks, entries that are
printed or chunks that go to the file. libsquid, CP/M, the Z80 SIO, the RTC, the
server and the peer are external and are modelled as freely as the code's use of
them allows.

What is hard: the interleaving of foreground and handlers, flow control with
characters in flight, the interrupt flag across operations, reading a clock that
runs, a failure in the middle of an open, a download or a close, a catalog that
arrives in pages of which any may be lost, a response whose lengths point
anywhere, and two parsers that meet in a text. PROJECT.json lists these hazards
line by line.

## The modules and the code

### Driver, clock and session

**SerialFifo** states what the driver promises: two bounded streams, in which
bytes arrive in order and without loss until the driver reports a fault.

**SerialDriver** is the driver beneath it. Program points (`pc`) lie between
port operations and ring updates of `serial_initialize`,
`serial_send_character`, `serial_receive_character` and the UART part of
`paket_link_close`; `RxIsr` and `TxIsr` are the two handlers and may fire at any
point while `iff` is up. The SIO has a transmit buffer that latches its
interrupt, a receive FIFO, a register pointer and an RTS pin that may lag behind
its bit. Bytes are numbered, so order and loss are visible. Constants select the
hardware the design assumes or the hardware it may meet: `DelayedRts` (the pin
falls only when the transmitter is empty), `LdAIErratum` (an interrupt accepted
during `LD A,I` shows a cleared flag), `EntryIff` (interrupts on or off at
entry), `PeerSlack` (what the peer still sends after RTS has fallen).

**RtcClock** takes the five port reads of a snapshot one by one, with time
passing between any two, through BCD registers that roll over, and feeds the
readings to the 20 ms tick.

**LinkSession** follows one run of the program from the startup hook to the
exit: three masks and two restores of the RTC, every early return of `run`, every
failure of `paket_link_open`, the two timed waits, the close. A minute edge, a
ring overrun and a change of the link may come at any time the code allows them.
It takes the driver as open or closed; `SerialDriver` says what happens inside.

### The command

**Options** is `paket_parse_options`: options leave the argument vector while
what stays is moved down in the same vector. **Wildcard** is
`paket_search_anchor` and then `paket_wildcard_match`, turn by turn, of one
pattern and one name; a match is defined beside it as an alignment of pattern
and name, which knows nothing of stars to go back to. **TargetPath** is
`paket_make_target_path` and then `parse_target`: what the user typed becomes a
text, and the text an FCB. **CommandLine** puts the three side by side; they
share no state, so a behaviour is one call of one of them. **Ascii** is the case
folding and the character classes they share, **Subsequence** what it is to keep
some elements of a list in their order, which the properties of options, listing
and metadata are stated with.

**CatalogClient** is the paging of `client_z80.c`: `visit_catalog_model` with the
printing and the resolving visitor, and `paket_fetch_info`. Each call starts with
any list of entries or values a server may have for it, and a cursor is a place
in that list. A page brings any stretch of what stands behind its cursor, also
none, and names any cursor for the next, as the code takes any but the last; it
may turn out damaged after some of its elements, may be an error, or never come.
A history variable, `strayed`, records that a cursor was not the place behind its
page: what is exact of a listing, a resolved package or metadata holds unless one
has strayed, and the properties say so.

**ByteFile** states what `file.h` promises: a file that grows by whole blocks in
the order written, and is padded to a record when closed. **FileOutput** is
`file.c` for CP/M: record buffer, user areas, and BDOS calls that may each fail.
A write that fails keeps the full record in the buffer, and close flushes it.
**Download** composes it with `paket_fetch_download` and the end of
`download_package`: a server that may answer any offset, total and size, a writer
that may fail, then close and removal.

**Application** is `paket_application_run`: every command and early return,
composed of CatalogClient's calls and, for a download, of Download's steps. Seen
without the catalog it is a Download (`ApplicationDownloads`, proved).

### The hosted client

**Wire** is `retrovault.c` on bytes: request builders, `rv_response_size` and
the decoding of a download. **HostedClient** is `client.c` over it, each call
from the building of its request to what it returns. Its one buffer is a vector
of bytes: a request overwrites the response before it, a response the request,
and a response that is shorter leaves the rest of the older message behind it.
The exchange may bring any of the responses a configuration lists, or fail.

## The runs

| run | shows |
|---|---|
| `driver` | no overrun, no broken register write, RTS never stuck low over a drained ring, transmitter never left unarmed, interrupts given back, streams ordered (refinement of `SerialFifo`); every accepted byte is sent and RTS comes up again |
| `driver_hostile` | with late RTS, an overrunning peer, the erratum and a disabled entry the link may fail but never reorders or silently loses a byte |
| `driver_erratum`, `driver_delayed_rts`, `driver_disabled_entry`, `driver_bdos` | findings, below |
| `rtc_clock` | every accepted snapshot was shown by the clock while it was read; the tick does not drift over minute or tick rollovers |
| `link_session` | every path gives back RTC, channel and socket, polls only an open port, is quiet while the RTC is masked, and ends or reaches the application |
| `link_session_nmi` | finding, below |
| `application` | unless a cursor strays, a listing shows every match once and in order and counts as complete only if it is, an id wins over a name wherever the two stand, and what metadata returns is what all its pages say; "complete" only when the directory holds the whole package, otherwise no file unless its deletion failed; only the named file, in its own user area, is touched; the file is `ByteFile`'s; the command ends unless the server's cursors go back again and again |
| `command` | the matcher says yes of exactly the names that match, and always decides; every match contains the anchor, so the server withholds none; the file lands in the drive, area and name the user typed; every documented destination is accepted by both parsers; no word of the command line is lost or taken for a value |
| `hosted` | the size of a response depends on its bytes only and is never taken back; what the visitor sees is the received page, byte by byte; every request sent is the one `retrovault.c` would build, with the cursor of the page before; metadata and file are what the responses said |

### Bounds

`driver`: rings of 2 and 4 slots, water marks 2 and 1, a FIFO of 2, four bytes
out and eight in: both rings fill, wrap and cross both marks, and the peer's
slack fills the ring exactly to the last slot. `rtc_clock`: a minute of 12 ms
with a tick of 5 ms, so that minute and tick are coprime, over two rollovers of
the minute and more than one of the tick. `link_session`: three epochs; nothing
else is bounded, a latched edge being idempotent.

`application`: records of two bytes, packages of up to five and chunks of up to
three, so that a chunk may end before, at or behind a record boundary and a write
may flush more than one record, and offsets that wrap at 6, below the largest sum.
On the disk there are two user areas, each with or without an old file of that
name; the command is started in one of them (`Homes`), for the code treats all
alike. Catalogs have up to two entries, drawn from one whose id fits, one whose
name fits, one that does not fit and ones whose id is too long or empty, so that
the name may stand before the id and on another page; metadata has up to three
values, in any order and kind. A page names the place behind it or the beginning
(`Leaps`) for the next cursor, so that cursors may go round between the entries;
other cursors out of place are left to the proofs, which allow any. The counter
of downloads saturates at 2 here, at 255 in the code; a successful call with more
downloads than that needs four values, and is covered by the proof
(`InfoIsWhole`). The list that is printed is kept up to as many entries as the
catalog may have (`MaxListed`), which only a walk that has strayed exceeds.

`command`: every pattern of up to four characters over two letters, one of them
in both cases, and both wildcards, against every name of up to three: a pattern
has room for two stars with text between them, and names make a star stretch
twice. The anchor is cut at two characters, so that runs are shorter, as long and
longer. Destinations cover drives good and bad, user areas 0, 1, 15, 16 and 015,
with and without separators, and names of 1, 8 and 9 characters with types of 0,
1, 3 and 4; eight arguments, five at a time, cover every option, repeated, last,
and with values good and bad.

`hosted`: a buffer of 20 bytes instead of 255, in which every catalog request
fits, as every one does in the code, and two elements of a page. Pages are taken in every
combination of up to two entries or values; one of each kind is also taken cut
short at every byte, one byte too long, and with any byte replaced by 0, 1, 2 or
9. Two responses are accepted in a call: what a second one may meet behind its
end is what one request and one response left, and a third meets no other.

The instances that the proofs cover need no bounds.

### Fairness

`driver`: the transmitter shifts and RTS is released (the peer does not hold CTS
for ever); a pending interrupt is taken again and again until served (strong, for
interrupts are masked now and then); an operation once begun goes on; the link is
polled again and again, as `pump_link` is by every wait of the program.
`link_session`: the program goes on and time passes; nothing is assumed of the
link, the peer or the application, so the property ends at the application.
`application`: the program goes on, one weak fairness over all its steps; every
exchange returns because libsquid's retries are limited. Nothing is assumed of
the chunks and pages it returns, and of their cursors nothing either:
`Terminates` itself names the one case in which a command does not end, cursors
that go back again and again. The case is real: without that disjunct TLC finds a
listing that never ends, with the cursors 0, 1, 0, 1, ... `command`: the matcher
goes on, nothing in it waits.

Deadlock checking is off where the model may stop: in `command` a call returns
and nothing follows, and in `rtc_clock` the clock reaches its horizon.

## The proofs

*SerialDriverProofs.* `TypeCorrect`, `ControlWord`, `RtsRaised`,
`TransmitterArmed` and the refinement `ImplementsFifo` hold for every ring size,
water mark, peer and hardware mode that `SerialDriver`'s assumptions admit. The
properties are not inductive by themselves. The invariant adds: in which
program points interrupts are masked, when the SIO's pointer is mid-way, what
both rings hold in terms of byte numbers, and who will send the next byte (a
byte in the buffer, a latched interrupt, or an operation about to kick it).
Under `Sizing` (RTS falls at once, and `HighWater - 1 + FifoDepth + PeerSlack <=
InSize`) a flow invariant bounds ring, FIFO and credit together, and gives
`NeverOverrun`. Without the erratum and entered with interrupts on,
`InterruptsComeBack` follows from an invariant on the saved flag.

*RtcClockProofs.* First the arithmetic: quotient and remainder are unique,
division is monotone, dividing twice divides by the product, two numbers that
agree modulo b and lie less than b apart are equal. Then `Snapshot`: if the five
reads take less than a minute less a second, equal seconds and equal hundredths
force the middle reading to be of one moment. The invariant keeps, for each
value read, a time at which it was shown; `SnapshotIsTrue` and `ClockKeepsTime`
follow for every radix, tick and word that fit. The two limits on how much time
passes (`PassAssumed`, `PollAssumed`) are guards of the model: the code cannot
notice when they are broken.

*LinkSessionProofs.* The invariant says at which program points each loan is
out; `RtcIsRestored`, `EverythingIsReleased`, `NeverPollsClosed` and
`QuietUntilClosed` follow for every number of epochs.

*DownloadProofs.* Two invariants. The first ties the program counter to the open
file, the selected user area and the directory; `AreaIsGivenBack`,
`NothingIsLeft` and `OthersUntouched` follow for every record size, server and
sequence of failures. The second (`ContentInv`) ties the bytes received to where
they are: the file and then the record buffer hold a beginning of what the
server sent, at most one whole record is kept for a write that failed, and
padding is there only after a close. From it follow `InOrder`,
`CompleteIsWhole` and, action by action, `FileIsByteFile`: FileOutput's opening,
flushing, failing writes and closing are steps of `ByteFile` or stutter.

*ApplicationProofs.* `ApplicationDownloads`: every step of a command is a step of
Download or changes nothing of it, whatever the catalog, the patterns and the
metadata. So what DownloadProofs proves of a download alone holds for the whole
program (`UserAlwaysGivenBack`, `NothingStays`, `OnlyTheTargetIsTouched`,
`FileInOrder`, `FileAsPromised`, `SaysCompleteWhenWhole`). The proof goes action
by action, since a command that lists, or that fails before its file is created,
must leave the disk and the user area alone.

Its second half is about the catalog, however it falls into pages, as long as no
cursor strays (`WalkInv`: a walk has strayed, or `SteadyInv` holds). `PagingInv`
says how far a call has got: all of the list before the cursor while a page is
asked for, before the cursor less what is left of the page while one is read.
What is known after n elements is then one of three: of the entry to resolve the
best so far (`RightPackage`), of the listing the matching entries so far
(`ListingIsExact`), of the metadata the last of each text and the first
downloads (`InfoIsWhole`). Assumed of the constants: the counter of downloads
has a limit (`CountAssumption`), and what is kept of a listing has room for the
catalog (`ListedAssumption`).

*CommonLemmas.* What several of the proofs need. A sequence that picks, of
another, the places with some property, in order, goes on doing so when the next
element is appended or passed over. And recursion on numbers: what the prover
cannot take from an induction theorem, whose parameter is an operator, `Climbs`,
`AlikeUp` and `Recursion` draw from the least number at which it fails.

*CommandProofs.* `MatcherDecides` (a name is listed exactly if it matches) and
`AnchorWithholdsNone`, for every alphabet, pattern and name. Two invariants
meet in the verdict. `Found`: what has been read is aligned, and so is what was
read when the last star was met. `Missed`: no alignment of pattern and name
stands further left than the matcher, so that going back to the last star and
to no earlier one loses no match. The anchor is a run of literals, which an
alignment keeps together. Assumed is `PlainAssumption`: a name holds no `*`.
`CommandLineIsRead` is about the options: at each turn the arguments before the
write index are those read so far that belong to no option, and those behind the
read index are as they were typed, although both lie in one vector.

Its last part follows a destination through two conversions. `PlaceIs` and
`NameTaken` say what `paket_make_target_path` takes the text for: a drive, a user
area that exists, and a name of at most 8 and 3 characters of a file name, in
upper case, typed or made up. `PathShape` is the text written, and that it fits;
`PathRead` and `ReadBack` are what `parse_target` finds in it, which holds because
no such name has a dot, a bracket or a colon in it. `TargetInv` joins them between
the two calls: a path that is named is the text of something that was asked for.
From it follow `TargetIsAsTyped` (`LandsWhereAsked`) and `DocumentedTargets`
(`DocumentedAccepted`), for every destination, package, format and limit.
Assumed (`TargetAssumption`): those are texts, the default names fit the
limits, a user area has at most two digits and the path buffer holds the longest
path, all of which command.h and command.c fix.

*HostedClientProofs.* `RequestIsWhole`: what goes out is, byte by byte, the
request the protocol library builds. A lemma on the buffer (what is written
behind its first n bytes follows them) composes the pieces of each builder; the
invariant `ClientInv` says that the cursor is the one the last accepted page
named, although the request now lies over that page, and that the offset is the
number of bytes written, which no chunk takes past a long word.

`SizeIsDecided`: a response's size hangs on its bytes alone. Both size functions
are one walk (`Walks`) from a length to the next, which stops short or goes on;
two buffers that agree on the first bytes walk alike as far as those reach
(`WalksAgree`), and the room left, an unsigned difference in the code, is never
taken below zero. The theorem holds for every content behind the bytes, of which
the run tries three.

The other three theorems follow the bytes into what the caller is given.
`DownloadIsExact` has the chunks joined, each at its offset (`DownloadInv`), and
`PagesAreShownExactly` the pages: an accepted page is a walk that ends where the
message ends (`PageIsWhole`), so every step of it is a whole element (`EntryRead`,
`ValueRead`), and what has been shown is the pages before and this one up to the
byte the walk has reached (`OnPage`). `InfoIsExact` goes on from there: `Knows`
says what is known after the values seen so far, one lemma for each type of
value says what one more does to it, and `DownloadDecoded` that a download which
`rv_decode_download` accepts encodes to the very bytes it came from.
Joining is a fold, which the provers do not see into: `FlattenIs` finds its value
by `Recursion`, and `FlattenAppend` is all that the rest needs of it.

Assumed are bytes in texts and messages and messages no longer than the buffer
(`BytesAssumption`), that the longest catalog request fits (`AnchorAssumption`),
and that the limits are numbers and every text has room for its end
(`RoomAssumption`).

Only model-checked: liveness (`TxDelivered`, `RtsRecovers`, `Returns`,
`Terminates`, `Decides`), which needs fairness and ENABLED. Every invariant and
every action property of the passing runs is proved.

## Findings

| run | what the code does |
|---|---|
| `driver_erratum` | one `LD A,I` decides whether interrupts were on; an interrupt during it makes the lock forget, and the unlock leaves them off (`serial_isr.s:80`) |
| `driver_delayed_rts` | on a chip that holds RTS until the transmitter is empty the slots above the high-water mark do not suffice (`serial_isr.s:213`) |
| `driver_disabled_entry` | an open refused because interrupts were off leaves the channel interrupting through the restored vectors (`serial_link.c:306`) |
| `driver_bdos` | COMPATIBILITY.md says TX is drained and RTS lowered before BDOS calls; nothing does so |
| `link_session_nmi` | close and failed open unmask the RTC while the program still runs (`serial_link.c:571`, `:477`), against link.h |

The first three depend on the hardware or the entry state named; the model shows
them only with the constant that says so.

Seen while modelling, and stated here without a run:

- "the incomplete file has been removed" is printed although F_DELETE may have
  failed (`application.c:542`); `FailureLeavesNothing` names that one exception.
- `paket_make_target_path` accepts a destination such as `A:/README`, without a
  type, and `parse_target` then refuses the path it wrote: TargetPath's stage
  `unreadable`. `DocumentedAccepted` says that no documented destination ends so.
- After `/` digits are a user area: `A:/1942.COM` is refused, while `A:1942.COM`
  and `A:/0/1942.COM` are accepted.
- The hosted client cuts a display name to its field before it compares it, so a
  package whose name has 96 bytes or more cannot be resolved by that name.
- A `*` in a name is taken as a literal by the pattern's star, which then
  stretches no further; names are assumed to hold none.
- README.md:77 says that the payload offered without `-m` is 112 bytes; it is 64
  (`command.c:133`, `command.h:28`, `tests/test_paket.c:114`). `OptionsExact`
  claims nothing of it.
- README.md:87 says that the information view presents each available download's
  format, size and file count; the code stores and shows the first
  (`PAKET_DOWNLOAD_MAX`, `client.h:32`) and prints how many more there are
  (`application.c:385`). `InfoWhole` is about what `paket_fetch_info` returns,
  which is the first and the number of all.
- COMPATIBILITY.md says that the client "validates lengths and cursors"; of a
  cursor both clients check that it is not the last one, so a server whose cursors
  go round keeps a command going for ever (`Terminates`).

## What the models leave out

- The receive guard of `SerialDriver` (`FifoDepth`) assumes that the handler is
  reached before the chip's own FIFO overflows; baud rates and instruction times
  are not modelled.
- Vector tables, port profiles, line parameters and libsquid's protocol are
  data or external; an exchange either returns an answer or fails.
- CP/M's default handling of a physical disk error ends the program without any
  of its own clean-up; the models cover errors that BDOS returns.
- A cursor of CatalogClient is a place in a list that stays the same during a
  call: a catalog that changes on the server between two pages is not modelled.
- CatalogClient leaves out how the CP/M client cuts long display texts; the
  hosted client does the same and HostedClient has it.
- The `rv_visit_` functions of `retrovault.c`, which nothing calls; the
  hosted (POSIX) build of `file.c`, where each function is one system call.
- `src/output.c`, `src/messages.c`, `src/platform.c` and `src/z80_io.s`:
  formatting, tables of text and single instructions, with no state of their own.
- The tests and the integration server, which were read for what they say of the
  program.

## Plan

Done: driver, clock, session, command line, application with catalog, metadata
and download, file output, hosted client and wire format, and the proofs above.
What is left:

1. A composition of `LinkSession` with `Application`: a fault or a new epoch
   during a command ends in a failed command and a clean exit. Each half is
   checked here; the interface between them is one outcome of an exchange.
