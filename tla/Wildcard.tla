------------------------------ MODULE Wildcard ------------------------------
(***************************************************************************)
(* What a pattern on the command line selects: paket_search_anchor and     *)
(* paket_wildcard_match of src/src/command.c, as paket_visit_catalog calls *)
(* them.  The anchor is taken from the pattern first and sent to the       *)
(* server, which answers with the packages that contain it; the matcher    *)
(* then decides about each of them.  The two loops are modelled turn by    *)
(* turn, pointers as positions that start at 1.                            *)
(***************************************************************************)
EXTENDS Naturals, Sequences, Ascii

CONSTANTS Letters,     \* the characters of names and patterns
          Star, One,   \* the wildcards, * and ?
          TextChars,   \* the characters of names
          AnchorMax,   \* search_anchor_max
          MaxPattern, MaxText  \* bounds: characters of a pattern, of a name

ASSUME WildcardAssumption == /\ AnchorMax \in Nat
                             /\ MaxPattern \in Nat /\ MaxText \in Nat
                             /\ Star # One
\* A name holds no *: the matcher would take it for the * of the pattern.
ASSUME PlainAssumption == \A c \in TextChars : Upper(c) # Upper(Star)

VARIABLES pattern, text,
          cursor, best, best_size,  \* paket_search_anchor
          p, t, star, retry,        \* paket_wildcard_match; star = 0 is NULL
          verdict                   \* anchor, match, then yes or no

anchorVars == <<cursor, best, best_size>>
matchVars  == <<p, t, star, retry>>
wildcardVars == <<pattern, text, anchorVars, matchVars, verdict>>

Strings(S, n) == UNION {[1 .. k -> S] : k \in 0 .. n}

WildcardInit ==
  /\ pattern \in Strings(Letters \cup {Star, One}, MaxPattern)
  /\ text \in Strings(TextChars, MaxText)
  /\ cursor = 1 /\ best = 1 /\ best_size = 0
  /\ p = 1 /\ t = 1 /\ star = 0 /\ retry = 0
  /\ verdict = "anchor"

Literal(i) == pattern[i] \notin {Star, One}

\* The end of the literal run that starts at i: the next wildcard or the end.
RunEndMutant(i) == CHOOSE e \in i .. Len(pattern) + 1 :  \* ? does not end a run
                     /\ \A k \in i .. e - 1 : pattern[k] # Star
                     /\ e <= Len(pattern) => pattern[e] = Star
RunEnd(i) == CHOOSE e \in i .. Len(pattern) + 1 :
               /\ \A k \in i .. e - 1 : Literal(k)
               /\ e <= Len(pattern) => ~Literal(e)

\* One run of the scan: it is kept if it is longer than the best so far.
ScanRun ==
  /\ verdict = "anchor" /\ cursor <= Len(pattern)
  /\ LET end == RunEnd(cursor)
     IN  /\ IF end - cursor > best_size
            THEN best' = cursor /\ best_size' = end - cursor
            ELSE UNCHANGED <<best, best_size>>
         /\ cursor' = IF end <= Len(pattern) THEN end + 1 ELSE end
  /\ UNCHANGED <<pattern, text, matchVars, verdict>>

\* The copy is cut to AnchorMax characters.
CutAnchor ==
  /\ verdict = "anchor" /\ cursor > Len(pattern)
  /\ best_size' = IF best_size > AnchorMax THEN AnchorMax ELSE best_size
  /\ verdict' = "match"
  /\ UNCHANGED <<pattern, text, cursor, best, matchVars>>

\* What an entry's character has to be.
Fits(i, j) == \/ pattern[i] = One
              \/ Upper(pattern[i]) = Upper(text[j])

Reading == verdict = "match" /\ t <= Len(text)
Single  == p <= Len(pattern) /\ Fits(p, t)
AtStar  == p <= Len(pattern) /\ pattern[p] = Star

TakeOne == /\ Reading /\ Single
           /\ p' = p + 1 /\ t' = t + 1
           /\ UNCHANGED <<pattern, text, anchorVars, star, retry, verdict>>

OpenStar == /\ Reading /\ ~Single /\ AtStar
            /\ star' = p /\ retry' = t /\ p' = p + 1
            /\ UNCHANGED <<pattern, text, anchorVars, t, verdict>>

\* The last star takes one more character.
RetryFromMutant == t + 1  \* goes on from the mismatch instead
StuckRetryMutant == retry   \* ++retry is forgotten
RetryFrom == retry + 1
WidenStar == /\ Reading /\ ~Single /\ ~AtStar /\ star # 0
             /\ p' = star + 1 /\ retry' = RetryFrom /\ t' = RetryFrom
             /\ UNCHANGED <<pattern, text, anchorVars, star, verdict>>

Refuse == /\ Reading /\ ~Single /\ ~AtStar /\ star = 0
          /\ verdict' = "no"
          /\ UNCHANGED <<pattern, text, anchorVars, matchVars>>

SkipStar == /\ verdict = "match" /\ t > Len(text) /\ AtStar
            /\ p' = p + 1
            /\ UNCHANGED <<pattern, text, anchorVars, t, star, retry, verdict>>

\* The name is used up: what is left of the pattern must be empty.
UsedUp == p > Len(pattern)
Decide == /\ verdict = "match" /\ t > Len(text) /\ ~AtStar
          /\ verdict' = IF UsedUp THEN "yes" ELSE "no"
          /\ UNCHANGED <<pattern, text, anchorVars, matchVars>>

WildcardNext == ScanRun \/ CutAnchor \/ TakeOne \/ OpenStar \/ WidenStar
                \/ Refuse \/ SkipStar \/ Decide

WildcardSpec == WildcardInit /\ [][WildcardNext]_wildcardVars
-----------------------------------------------------------------------------
(* What a match is: every character of the pattern is given the stretch of *)
(* the name from f[i] up to f[i + 1], one character unless it is a star.   *)

Alignment(f) ==
  /\ f[1] = 1 /\ f[Len(pattern) + 1] = Len(text) + 1
  /\ \A i \in 1 .. Len(pattern) :
       IF pattern[i] = Star THEN f[i] <= f[i + 1]
       ELSE f[i + 1] = f[i] + 1 /\ f[i] <= Len(text) /\ Fits(i, f[i])

Matches == \E f \in [1 .. Len(pattern) + 1 -> 1 .. Len(text) + 1] : Alignment(f)

\* command.h: "'*' matches any byte range and '?' matches one byte".  A package
\* is listed only if its name matches,
ListedMatches == verdict = "yes" => Matches

\* and every package whose name matches is listed, however the stars have to
\* be stretched.
MatchesListed == verdict = "no" => ~Matches

\* The server, asked for the anchor, cannot withhold a package that matches:
\* a matching name contains the anchor, in upper or lower case.
AnchorInMatch ==
  verdict = "match" /\ Matches =>
    \E j \in 1 .. Len(text) + 1 :
      /\ j + best_size - 1 <= Len(text)
      /\ \A k \in 0 .. best_size - 1 :
           Upper(pattern[best + k]) = Upper(text[j + k])
=============================================================================
