----------------------------- MODULE TargetPath -----------------------------
(***************************************************************************)
(* Where a download goes: paket_make_target_path of src/src/command.c      *)
(* turns the destination of the command line into a native path, such as   *)
(* A:LUNATIK.COM[1], and parse_target of src/src/file.c, in                *)
(* paket_file_create, reads that path into an FCB.  The two agree only     *)
(* through the text, so both conversions are modelled.                     *)
(***************************************************************************)
EXTENDS Naturals, Sequences, SequencesExt, Ascii

CONSTANTS BaseMax, TypeMax,  \* 8 and 3 characters of a file name
          LastUser,          \* 15
          TargetSize,        \* PAKET_TARGET_SIZE
          Destinations,      \* what is typed as a destination
          Packages, Formats  \* names of packages and of download formats

\* Names are texts.  The default names fit, a user area has one or two digits, and
\* target_path holds a drive, a full name, an area and the end of the string.
ASSUME TargetAssumption ==
  /\ \A s \in Destinations \cup Packages \cup Formats : s \in Seq(Range(s))
  /\ BaseMax \in Nat /\ BaseMax >= 7 /\ TypeMax \in Nat /\ TypeMax >= 3
  /\ LastUser \in 0 .. 99
  /\ TargetSize \in Nat /\ TargetSize > BaseMax + TypeMax + 7

VARIABLES destination, package, format, many,  \* many: more than one file
          stage, \* start, then refused, or named, then unreadable, or parsed
          path,  \* target_path
          fcb    \* drive, name, type and user area

inputVars  == <<destination, package, format, many>>
targetVars == <<inputVars, stage, path, fcb>>

NoFcb == [drive |-> <<>>, base |-> <<>>, type |-> <<>>, user |-> 0]

TargetInit == /\ destination \in Destinations
              /\ package \in Packages /\ format \in Formats /\ many \in BOOLEAN
              /\ stage = "start" /\ path = <<>> /\ fcb = NoFcb

\* path_separator.
Separators == {"/", "\\"}

Suffix(s, n) == SubSeq(s, n + 1, Len(s))
First(s, n)  == SubSeq(s, 1, IF n <= Len(s) THEN n ELSE Len(s))
Uppercase(s) == [i \in DOMAIN s |-> Upper(s[i])]

\* How many characters at the front of s are in S.
Span(s, S) == CHOOSE n \in 0 .. Len(s) :
                /\ \A i \in 1 .. n : s[i] \in S
                /\ n < Len(s) => s[n + 1] \notin S

Numeral(n) == <<"0", "1", "2", "3", "4", "5", "6", "7", "8", "9">>[n + 1]
DigitValue(c) == CHOOSE n \in 0 .. 9 : Numeral(n) = c
Value(digits) ==
  LET v[i \in 0 .. Len(digits)] == IF i = 0 THEN 0
                                   ELSE 10 * v[i - 1] + DigitValue(digits[i])
  IN  v[Len(digits)]
Decimal(n) == IF n >= 10 THEN <<Numeral(n \div 10), Numeral(n % 10)>> ELSE <<Numeral(n)>>

HasDrive(s) == Len(s) >= 2 /\ s[1] \in Alphas /\ s[2] = ":"
AfterDrive(s) == IF HasDrive(s) THEN Suffix(s, 2) ELSE s
Drive(s) == IF HasDrive(s) THEN <<Upper(s[1]), ":">> ELSE <<>>

\* make_suggested_name, of what a directory is to hold.
Plain(s) ==
  LET kept[i \in 0 .. Len(s)] ==
        IF i = 0 THEN <<>>
        ELSE IF s[i] \in Alphas \cup Digits THEN Append(kept[i - 1], s[i]) ELSE kept[i - 1]
  IN  kept[Len(s)]
OrElse(s, default) == IF s = <<>> THEN default ELSE s
SuggestedName ==
  OrElse(First(Uppercase(Plain(package)), BaseMax), <<"P", "A", "C", "K", "A", "G", "E">>)
  \o <<".">>
  \o IF many THEN <<"Z", "I", "P">>
     ELSE OrElse(First(Uppercase(Plain(format)), TypeMax), <<"P", "A", "K">>)

\* copy_explicit_name.
Allowed(s) == Range(s) \subseteq FileChars
ExplicitName(s) ==
  LET n    == Span(s, Range(s) \ {"."})
      base == First(s, n)
      type == Suffix(s, n + 1)
  IN  [valid |-> /\ base # <<>> /\ Len(base) <= BaseMax /\ Allowed(base)
                 /\ n < Len(s) => type # <<>> /\ Len(type) <= TypeMax /\ Allowed(type),
       text  |-> Uppercase(s)]

\* The user area and the file a destination names: nothing after the drive, /,
\* /user, /user/ and /user/file, /file or file, where / may be \.  An empty file means the
\* suggested one.
TooHighMutant(user) == user >= LastUser  \* the last area is out of range
TooHigh(user) == user > LastUser
NoUserMutant == 1  \* without a user area, the next one
NoUser == 0
Place(s) ==
  LET n == Span(Suffix(s, 1), Digits)
      user == Value(SubSeq(s, 2, n + 1))
      rest == Suffix(s, n + 1)
  IN  IF s = <<>> \/ s[1] \notin Separators
      THEN [valid |-> TRUE, user |-> NoUser, file |-> s]
      ELSE IF n = 0 THEN [valid |-> TRUE, user |-> NoUser, file |-> rest]
      ELSE [valid |-> ~TooHigh(user) /\ (rest # <<>> => rest[1] \in Separators),
            user |-> user, file |-> Suffix(rest, 1)]

\* paket_make_target_path.
MakeTargetPath ==
  /\ stage = "start"
  /\ LET place == Place(AfterDrive(destination))
         name  == IF place.file = <<>> THEN [valid |-> TRUE, text |-> SuggestedName]
                  ELSE ExplicitName(place.file)
         text  == Drive(destination) \o name.text
                  \o <<"[">> \o Decimal(place.user) \o <<"]">>
     IN  IF /\ destination # <<>> /\ place.valid /\ name.valid
            /\ Len(text) < TargetSize
         THEN stage' = "named" /\ path' = text
         ELSE stage' = "refused" /\ UNCHANGED path
  /\ UNCHANGED <<inputVars, fcb>>

\* parse_target.
ParseTarget ==
  /\ stage = "named"
  /\ LET s    == AfterDrive(path)
         n    == Span(s, Range(s) \ {".", "["})
         rest == Suffix(s, n + 1)
         k    == Span(rest, Range(rest) \ {"["})
         tail == Suffix(rest, k + 1)
         user == First(tail, Span(tail, Digits))
     IN  IF /\ n \in 1 .. BaseMax /\ n < Len(s) /\ s[n + 1] = "."
            /\ k \in 1 .. TypeMax /\ k < Len(rest)
            /\ user # <<>> /\ Value(user) <= LastUser /\ tail = user \o <<"]">>
         THEN /\ stage' = "parsed"
              /\ fcb' = [drive |-> Drive(path), base |-> Uppercase(First(s, n)),
                         type |-> Uppercase(First(rest, k)), user |-> Value(user)]
         ELSE stage' = "unreadable" /\ UNCHANGED fcb
  /\ UNCHANGED <<inputVars, path>>

TargetNext == MakeTargetPath \/ ParseTarget
TargetSpec == TargetInit /\ [][TargetNext]_targetVars
-----------------------------------------------------------------------------
(* Properties.                                                             *)

Parsed == stage = "parsed"

\* A user area as it is typed before a file, or with no file at all.
NamesArea(area, file, user) ==
  \/ user = 0 /\ (area = <<>> \/ \E c \in Separators : area = <<c>>)
  \/ \E n \in 2 .. Len(area) :
       /\ area[1] \in Separators /\ \A i \in 2 .. n : area[i] \in Digits
       /\ Value(SubSeq(area, 2, n)) = user
       /\ Suffix(area, n) \in {<<>>} \cup {<<c>> : c \in Separators}
       /\ file # <<>> => Suffix(area, n) # <<>>

\* The file ends up where the user asked: the FCB that BDOS gets names the drive,
\* the user area and, unless a directory was given, the very file of the
\* destination.  Neither parser decides this alone: they meet in a text.  And it
\* names one file: no ? in it, which F_DELETE would take for any character, though
\* parse_target itself would let it pass.
LandsWhereAsked ==
  Parsed =>
    /\ Len(fcb.base) \in 1 .. BaseMax /\ Len(fcb.type) \in 1 .. TypeMax
    /\ Range(fcb.base) \cup Range(fcb.type) \subseteq FileChars
    /\ \E i \in 0 .. Len(destination) : \E j \in i .. Len(destination) :
         LET file == Suffix(destination, j)
         IN  /\ Uppercase(First(destination, i)) = fcb.drive
             /\ NamesArea(SubSeq(destination, i + 1, j), file, fcb.user)
             /\ file = <<>> \/ Uppercase(file) = fcb.base \o <<".">> \o fcb.type

\* An 8.3 name.  After the separator alone a digit would begin a user area.
FullName(file) ==
  \E n \in 1 .. BaseMax :
    /\ Len(file) \in n + 2 .. n + 1 + TypeMax /\ file[n + 1] = "."
    /\ Range(First(file, n)) \cup Range(Suffix(file, n + 1)) \subseteq FileChars

\* The destinations of README.md: "A:/ and A:/0/ both mean drive A, user area 0;
\* A:/1/ through A:/15/ select the other CP/M user areas.  A directory target
\* gets an automatically derived 8.3 filename", and an explicit 8.3 name.
Documented ==
  \E area \in {<<"/">>} \cup {<<"/">> \o Decimal(u) \o <<"/">> : u \in 0 .. LastUser} :
    LET s == AfterDrive(destination)
        file == Suffix(s, Len(area))
    IN  /\ First(s, Len(area)) = area
        /\ \/ file = <<>>
           \/ FullName(file) /\ (file[1] \in Digits => Len(area) > 1)

\* Both parsers accept all of them, whatever the package and its format are
\* called: what the first writes, the second can read.
DocumentedAccepted == Documented => stage \notin {"refused", "unreadable"}
=============================================================================
