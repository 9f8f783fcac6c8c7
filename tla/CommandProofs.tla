---------------------------- MODULE CommandProofs ----------------------------
(***************************************************************************)
(* paket_wildcard_match decides exactly, for every pattern and name;       *)
(* paket_parse_options reads every command line right; and what            *)
(* paket_make_target_path writes, parse_target reads back.                 *)
(*                                                                         *)
(* Two invariants meet in the verdict of the matcher.  What it has read so *)
(* far is aligned (Found); and no alignment can place the pattern's rest   *)
(* further to the left than the matcher stands (Missed), which is why it   *)
(* is enough to go back to the last star.  The anchor is a run of literals *)
(* (AnchorInv), which an alignment keeps together.                         *)
(*                                                                         *)
(* The path of a download is a text between two parsers.  TargetInv says   *)
(* of that text what was asked for when it was written; the lemmas before  *)
(* it cut the destination, and then the path, where they were joined.      *)
(***************************************************************************)
EXTENDS CommandLine, CommonLemmas, SequenceTheorems, TLAPS

Placements == [1 .. Len(pattern) + 1 -> 1 .. Len(text) + 1]

\* Character i of the pattern is given what it may be given.
Allotted(f, i) == IF pattern[i] = Star THEN f[i] <= f[i + 1]
                   ELSE f[i + 1] = f[i] + 1 /\ f[i] <= Len(text) /\ Fits(i, f[i])

\* The pattern up to i is aligned with the name up to j.
Prefix(i, j) == \E f \in Placements :
                  f[1] = 1 /\ f[i] = j /\ \A k \in 1 .. i - 1 : Allotted(f, k)

Positions ==
  /\ pattern \in Seq(Letters \cup {Star, One}) /\ text \in Seq(TextChars)
  /\ p \in 1 .. Len(pattern) + 1 /\ t \in 1 .. Len(text) + 1
  /\ star \in 0 .. Len(pattern)
  /\ star # 0 => /\ star < p /\ pattern[star] = Star
                 /\ retry \in 1 .. t

Found == Prefix(p, t) /\ (star # 0 => \E j \in 1 .. retry : Prefix(star, j))

\* Where any alignment f stands when the matcher is at p: not before t; and while
\* there is something left to read, at the same distance from the last star.
Behind(f) ==
  /\ f[p] >= t
  /\ t <= Len(text) =>
       IF star = 0 THEN f[p] = t
       ELSE f[star + 1] >= retry /\ f[p] - f[star + 1] = t - retry
Missed == \A f \in Placements : Alignment(f) => Behind(f)

MatchInv == Positions /\ Found /\ Missed /\ MatchIsExact
-----------------------------------------------------------------------------
LEMMA StringsAreSequences ==
  ASSUME NEW S, NEW n \in Nat, NEW s \in Strings(S, n)
  PROVE  s \in Seq(S)
<1>1. PICK k \in 0 .. n : s \in [1 .. k -> S]
  BY DEF Strings
<1> QED BY <1>1

\* An alignment gives every character what it may be given.
LEMMA Aligned ==
  ASSUME NEW f \in Placements
  PROVE  Alignment(f) <=> /\ f[1] = 1 /\ f[Len(pattern) + 1] = Len(text) + 1
                          /\ \A i \in 1 .. Len(pattern) : Allotted(f, i)
BY DEF Alignment, Allotted

\* One more character of the pattern.
LEMMA Extend ==
  ASSUME Positions, NEW i \in 1 .. Len(pattern), NEW j \in 1 .. Len(text) + 1,
         NEW m \in 1 .. Len(text) + 1, Prefix(i, j),
         IF pattern[i] = Star THEN j <= m ELSE m = j + 1 /\ Fits(i, j)
  PROVE  Prefix(i + 1, m)
<1>1. PICK f \in Placements : f[1] = 1 /\ f[i] = j /\ \A k \in 1 .. i - 1 : Allotted(f, k)
  BY DEF Prefix
<1> DEFINE g == [f EXCEPT ![i + 1] = m]
<1>2. Len(pattern) \in Nat /\ Len(text) \in Nat
  BY DEF Positions
<1>3. g \in Placements /\ g[1] = 1 /\ g[i + 1] = m /\ g[i] = j
  BY <1>1, <1>2 DEF Placements
<1>4. \A k \in 1 .. i - 1 : g[k] = f[k] /\ g[k + 1] = f[k + 1]
  BY <1>1, <1>2 DEF Placements
<1>5. \A k \in 1 .. i - 1 : Allotted(g, k)
  BY <1>1, <1>4 DEF Allotted
<1>6. Allotted(g, i)
  BY <1>2, <1>3 DEF Allotted
<1> HIDE DEF g
<1>7. \A k \in 1 .. (i + 1) - 1 : k \in 1 .. i - 1 \/ k = i
  OBVIOUS
<1>8. \A k \in 1 .. (i + 1) - 1 : Allotted(g, k)
  BY <1>5, <1>6, <1>7
<1> QED BY <1>3, <1>8 DEF Prefix

-----------------------------------------------------------------------------
\* A call begins with nothing read.
LEMMA MatchBegins == CommandInit => MatchInv
<1> SUFFICES ASSUME CommandInit PROVE MatchInv
  OBVIOUS
<1>1. /\ pattern \in Seq(Letters \cup {Star, One}) /\ text \in Seq(TextChars)
      /\ p = 1 /\ t = 1 /\ star = 0 /\ verdict = "anchor"
  <2>1. CASE WildcardInit
    <3>1. MaxPattern \in Nat /\ MaxText \in Nat
      BY WildcardAssumption
    <3>2. /\ pattern \in Strings(Letters \cup {Star, One}, MaxPattern)
          /\ text \in Strings(TextChars, MaxText)
      BY <2>1 DEF WildcardInit
    <3>3. pattern \in Seq(Letters \cup {Star, One}) /\ text \in Seq(TextChars)
      BY <3>1, <3>2, StringsAreSequences
    <3> QED BY <2>1, <3>3 DEF WildcardInit
  <2>2. CASE NoWildcard
    BY <2>2 DEF NoWildcard
  <2> QED BY <2>1, <2>2 DEF CommandInit
<1>2. Len(pattern) \in Nat /\ Len(text) \in Nat
  BY <1>1
<1>3. Positions
  BY <1>1, <1>2 DEF Positions
<1>4. Prefix(1, 1)
  <2> DEFINE f == [i \in 1 .. Len(pattern) + 1 |-> 1]
  <2>1. f \in Placements /\ f[1] = 1
    BY <1>2 DEF Placements
  <2> HIDE DEF f
  <2> QED BY <2>1 DEF Prefix
<1>5. Found
  BY <1>1, <1>4 DEF Found
<1>6. Missed
  BY <1>1, <1>2, Aligned DEF Missed, Behind, Placements
<1> QED BY <1>1, <1>3, <1>5, <1>6 DEF MatchInv, MatchIsExact, ListedMatches, MatchesListed

\* What a step that leaves the pattern, the name and the positions alone preserves.
LEMMA Undisturbed ==
  ASSUME Positions, Found, Missed, UNCHANGED <<pattern, text, matchVars>>
  PROVE  Positions' /\ Found' /\ Missed' /\ (Matches <=> Matches')
<1>1. pattern' = pattern /\ text' = text /\ p' = p /\ t' = t /\ star' = star /\ retry' = retry
  BY DEF matchVars
<1>2. Placements' = Placements /\ \A f, i : Allotted(f, i)' <=> Allotted(f, i)
  BY <1>1 DEF Placements, Allotted, Fits
<1>3. \A i, j : Prefix(i, j)' <=> Prefix(i, j)
  BY <1>1, <1>2 DEF Prefix
<1>4. \A f : Alignment(f)' <=> Alignment(f)
  BY <1>1 DEF Alignment, Fits
<1>5. Positions'
  BY <1>1 DEF Positions
<1>6. Found'
  BY <1>1, <1>3 DEF Found
<1>7. Missed'
  BY <1>1, <1>2, <1>4 DEF Missed, Behind
<1>8. Matches <=> Matches'
  BY <1>1, <1>4 DEF Matches
<1> QED BY <1>5, <1>6, <1>7, <1>8

\* The steps that read.  Of the alignments nothing changes but where the matcher is.
LEMMA Reads ==
  ASSUME MatchInv, UNCHANGED <<pattern, text>>
  PROVE  /\ Placements' = Placements
         /\ \A f, i : Allotted(f, i)' <=> Allotted(f, i)
         /\ \A i, j : Prefix(i, j)' <=> Prefix(i, j)
         /\ \A f : Alignment(f)' <=> Alignment(f)
         /\ Matches' <=> Matches
         /\ Len(pattern) \in Nat /\ Len(text) \in Nat
         /\ \A f \in Placements : \A i \in 1 .. Len(pattern) + 1 :
              f[i] \in 1 .. Len(text) + 1
         /\ \A f \in Placements : Alignment(f) =>
              /\ f[1] = 1 /\ f[Len(pattern) + 1] = Len(text) + 1
              /\ \A i \in 1 .. Len(pattern) : Allotted(f, i)
<1>1. Placements' = Placements /\ \A f, i : Allotted(f, i)' <=> Allotted(f, i)
  BY DEF Placements, Allotted, Fits
<1>2. \A i, j : Prefix(i, j)' <=> Prefix(i, j)
  BY <1>1 DEF Prefix
<1>3. \A f : Alignment(f)' <=> Alignment(f)
  BY DEF Alignment, Fits
<1>4. Matches' <=> Matches
  BY <1>3 DEF Matches
<1>5. Len(pattern) \in Nat /\ Len(text) \in Nat
  BY DEF MatchInv, Positions
<1>6. \A f \in Placements : \A i \in 1 .. Len(pattern) + 1 : f[i] \in 1 .. Len(text) + 1
  BY DEF Placements
<1>7. \A f \in Placements : Alignment(f) =>
        /\ f[1] = 1 /\ f[Len(pattern) + 1] = Len(text) + 1
        /\ \A i \in 1 .. Len(pattern) : Allotted(f, i)
  BY Aligned
<1> QED BY <1>1, <1>2, <1>3, <1>4, <1>5, <1>6, <1>7

\* A character that fits is no star.
LEMMA SingleIsNoStar ==
  ASSUME Positions, Reading, Single
  PROVE  pattern[p] # Star
<1>1. text[t] \in TextChars
  BY DEF Positions, Reading
<1> QED BY <1>1, PlainAssumption, WildcardAssumption DEF Single, Fits

LEMMA TakeOneStep == ASSUME MatchInv, TakeOne PROVE MatchInv'
<1>1. UNCHANGED <<pattern, text>> /\ p' = p + 1 /\ t' = t + 1 /\ star' = star /\ retry' = retry
      /\ verdict' = verdict /\ verdict = "match"
  BY DEF TakeOne, Reading
<1>2. Positions /\ Found /\ Missed /\ t <= Len(text) /\ p <= Len(pattern) /\ Fits(p, t)
  BY DEF MatchInv, TakeOne, Reading, Single
<1>3. pattern[p] # Star
  BY <1>2, SingleIsNoStar DEF TakeOne
<1>4. Positions'
  BY <1>1, <1>2 DEF Positions
<1>5. Prefix(p + 1, t + 1)
  <2>1. p \in 1 .. Len(pattern) /\ t \in 1 .. Len(text) + 1 /\ t + 1 \in 1 .. Len(text) + 1
    BY <1>2 DEF Positions
  <2>2. Prefix(p, t)
    BY <1>2 DEF Found
  <2> QED BY <1>2, <1>3, <2>1, <2>2, Extend
<1>6. Found'
  BY <1>1, <1>2, <1>5, Reads DEF Found
<1>7. Missed'
  <2> SUFFICES ASSUME NEW f \in Placements, Alignment(f)
               PROVE  Behind(f)'
    BY <1>1, Reads DEF Missed
  <2>1. Behind(f) /\ f[p + 1] = f[p] + 1
    BY <1>1, <1>2, <1>3, Reads DEF Missed, Allotted, Positions
  <2>2. f[p] \in Nat /\ f[p + 1] \in Nat /\ f[star + 1] \in Nat
    BY <1>1, <1>2, Reads DEF Positions
  <2>3. star # 0 => retry \in Nat
    BY <1>2 DEF Positions
  <2>4. t \in Nat /\ p \in Nat /\ Len(text) \in Nat
    BY <1>2 DEF Positions
  <2>5. f[p + 1] >= t + 1
    BY <2>1, <2>2, <2>4 DEF Behind
  <2>6. CASE star = 0
    <3>1. f[p + 1] = t + 1
      BY <1>2, <2>1, <2>2, <2>4, <2>6 DEF Behind
    <3> QED BY <1>1, <2>5, <2>6, <3>1 DEF Behind
  <2>7. CASE star # 0
    <3>1. f[star + 1] >= retry /\ f[p + 1] - f[star + 1] = (t + 1) - retry
      BY <1>2, <2>1, <2>2, <2>3, <2>4, <2>7 DEF Behind
    <3> QED BY <1>1, <2>5, <2>7, <3>1 DEF Behind
  <2> QED BY <2>6, <2>7
<1> QED BY <1>1, <1>4, <1>6, <1>7 DEF MatchInv, MatchIsExact, ListedMatches, MatchesListed

LEMMA OpenStarStep == ASSUME MatchInv, OpenStar PROVE MatchInv'
<1>1. UNCHANGED <<pattern, text>> /\ p' = p + 1 /\ t' = t /\ star' = p /\ retry' = t
      /\ verdict' = verdict /\ verdict = "match"
  BY DEF OpenStar, Reading
<1>2. Positions /\ Found /\ Missed /\ t <= Len(text) /\ p <= Len(pattern) /\ pattern[p] = Star
  BY DEF MatchInv, OpenStar, Reading, AtStar
<1>4. Positions'
  BY <1>1, <1>2 DEF Positions
<1>5. Prefix(p, t) /\ Prefix(p + 1, t)
  <2>1. p \in 1 .. Len(pattern) /\ t \in 1 .. Len(text) + 1
    BY <1>2 DEF Positions
  <2>2. Prefix(p, t)
    BY <1>2 DEF Found
  <2> QED BY <1>2, <2>1, <2>2, Extend DEF Positions
<1>6. Found'
  BY <1>1, <1>2, <1>5, Reads DEF Found, Positions
<1>7. Missed'
  <2> SUFFICES ASSUME NEW f \in Placements, Alignment(f)
               PROVE  Behind(f)'
    BY <1>1, Reads DEF Missed
  <2>1. Behind(f) /\ f[p + 1] >= f[p]
    BY <1>1, <1>2, Reads DEF Missed, Allotted, Positions
  <2>2. f[p] \in Nat /\ f[p + 1] \in Nat
    BY <1>1, <1>2, Reads DEF Positions
  <2>3. p \in Nat /\ p # 0 /\ t \in Nat /\ f[p] >= t /\ f[p + 1] >= t
    BY <1>2, <2>1, <2>2 DEF Behind, Positions
  <2> QED BY <1>1, <2>2, <2>3 DEF Behind
<1> QED BY <1>1, <1>4, <1>6, <1>7 DEF MatchInv, MatchIsExact, ListedMatches, MatchesListed

\* No alignment gives the last star less than one character more: the one that
\* gives it as much as now would have the mismatch in it.
LEMMA WidenStarStep == ASSUME MatchInv, WidenStar PROVE MatchInv'
<1>1. UNCHANGED <<pattern, text>> /\ p' = star + 1 /\ t' = retry + 1 /\ star' = star
      /\ retry' = retry + 1 /\ verdict' = verdict /\ verdict = "match"
  BY DEF WidenStar, Reading, RetryFrom
<1>2. /\ Positions /\ Found /\ Missed /\ t <= Len(text) /\ star # 0
      /\ p <= Len(pattern) => pattern[p] # Star /\ ~Fits(p, t)
  BY DEF MatchInv, WidenStar, Reading, AtStar, Single
<1>3. star \in 1 .. Len(pattern) /\ pattern[star] = Star /\ retry \in 1 .. Len(text)
  BY <1>2 DEF Positions
<1>5. \E j \in 1 .. retry : Prefix(star, j)
  BY <1>2 DEF Found
<1>6. Prefix(star + 1, retry + 1)
  <2>1. PICK j \in 1 .. retry : Prefix(star, j)
    BY <1>5
  <2>2. j \in 1 .. Len(text) + 1 /\ retry + 1 \in 1 .. Len(text) + 1 /\ j <= retry + 1
    BY <1>3, <1>2 DEF Positions
  <2> QED BY <1>2, <1>3, <2>1, <2>2, Extend
<1>7. Found'
  BY <1>1, <1>3, <1>5, <1>6, Reads DEF Found
<1>8. Missed'
  <2> SUFFICES ASSUME NEW f \in Placements, Alignment(f)
               PROVE  Behind(f)'
    BY <1>1, Reads DEF Missed
  <2>1. /\ f[star + 1] >= retry /\ f[p] - f[star + 1] = t - retry
        /\ f[p] \in Nat /\ f[star + 1] \in Nat
    BY <1>1, <1>2, <1>3, Reads DEF Missed, Behind, Positions
  <2>2. f[p] # t
    <3>1. CASE p <= Len(pattern)
      BY <1>1, <1>2, <3>1, Reads DEF Allotted, Positions
    <3>2. CASE p = Len(pattern) + 1
      BY <1>1, <1>2, <3>2, Reads
    <3>3. p \in 1 .. Len(pattern) + 1 /\ Len(pattern) \in Nat
      BY <1>2 DEF Positions
    <3> QED BY <3>1, <3>2, <3>3
  <2>3. f[star + 1] >= retry + 1
    BY <1>2, <1>3, <2>1, <2>2 DEF Positions
  <2> QED BY <1>1, <1>2, <1>3, <2>1, <2>3 DEF Behind
<1>9. Positions'
  BY <1>1, <1>2, <1>3 DEF Positions
<1> QED BY <1>1, <1>7, <1>8, <1>9 DEF MatchInv, MatchIsExact, ListedMatches, MatchesListed

\* The rest of the pattern can only be stars.
LEMMA SkipStarStep == ASSUME MatchInv, SkipStar PROVE MatchInv'
<1>1. UNCHANGED <<pattern, text, t, star, retry, verdict>> /\ p' = p + 1
      /\ verdict = "match"
  BY DEF SkipStar
<1>2. Positions /\ Found /\ Missed /\ t > Len(text) /\ p <= Len(pattern) /\ pattern[p] = Star
  BY DEF MatchInv, SkipStar, AtStar
<1>3. Positions'
  BY <1>1, <1>2 DEF Positions
<1>4. Prefix(p + 1, t)
  <2>1. p \in 1 .. Len(pattern) /\ t \in 1 .. Len(text) + 1
    BY <1>2 DEF Positions
  <2>2. Prefix(p, t)
    BY <1>2 DEF Found
  <2> QED BY <1>2, <2>1, <2>2, Extend DEF Positions
<1>5. Found'
  BY <1>1, <1>2, <1>4, Reads DEF Found
<1>6. Missed'
  <2> SUFFICES ASSUME NEW f \in Placements, Alignment(f)
               PROVE  Behind(f)'
    BY <1>1, Reads DEF Missed
  <2>1. Behind(f) /\ f[p + 1] >= f[p]
    BY <1>1, <1>2, Reads DEF Missed, Allotted, Positions
  <2>2. f[p] \in Nat /\ f[p + 1] \in Nat /\ t \in Nat /\ Len(text) \in Nat
    BY <1>1, <1>2, Reads DEF Positions
  <2>3. f[p + 1] >= t
    BY <2>1, <2>2 DEF Behind
  <2> QED BY <1>1, <1>2, <2>2, <2>3 DEF Behind
<1> QED BY <1>1, <1>3, <1>5, <1>6 DEF MatchInv, MatchIsExact, ListedMatches, MatchesListed

\* A mismatch with no star behind it: every alignment stands here too, and fails.
LEMMA RefuseStep == ASSUME MatchInv, Refuse PROVE MatchInv'
<1>1. UNCHANGED <<pattern, text, matchVars>> /\ verdict' = "no"
  BY DEF Refuse
<1>2. /\ Positions /\ Found /\ Missed /\ t <= Len(text) /\ star = 0
      /\ p <= Len(pattern) => pattern[p] # Star /\ ~Fits(p, t)
  BY DEF MatchInv, Refuse, Reading, AtStar, Single
<1>3. ~Matches
  <2> SUFFICES ASSUME NEW f \in Placements, Alignment(f) PROVE FALSE
    BY DEF Matches, Placements
  <2>1. f[p] = t /\ p \in 1 .. Len(pattern) + 1 /\ Len(pattern) \in Nat
    BY <1>2 DEF Missed, Behind, Positions
  <2>2. CASE p <= Len(pattern)
    BY <1>1, <1>2, <2>1, <2>2, Reads DEF Allotted
  <2>3. CASE p = Len(pattern) + 1
    BY <1>1, <1>2, <2>1, <2>3, Reads
  <2> QED BY <2>1, <2>2, <2>3
<1>4. Positions' /\ Found' /\ Missed' /\ (Matches <=> Matches')
  BY <1>1, <1>2, Undisturbed
<1> QED BY <1>1, <1>3, <1>4 DEF MatchInv, MatchIsExact, ListedMatches, MatchesListed

\* The name is used up: what has been read is an alignment if the pattern is used
\* up too, and else no alignment has room for the rest.
LEMMA DecideStep == ASSUME MatchInv, Decide PROVE MatchInv'
<1>1. UNCHANGED <<pattern, text, matchVars>> /\ verdict' = IF p > Len(pattern) THEN "yes" ELSE "no"
  BY DEF Decide, UsedUp
<1>2. /\ Positions /\ Found /\ Missed /\ t > Len(text)
      /\ p <= Len(pattern) => pattern[p] # Star
  BY DEF MatchInv, Decide, AtStar
<1>3. /\ p \in 1 .. Len(pattern) + 1 /\ Len(pattern) \in Nat /\ Len(text) \in Nat
      /\ t = Len(text) + 1
  BY <1>2 DEF Positions
<1>4. CASE p > Len(pattern)
  <2>1. p = Len(pattern) + 1
    BY <1>3, <1>4
  <2>2. PICK f \in Placements :
          f[1] = 1 /\ f[p] = t /\ \A k \in 1 .. p - 1 : Allotted(f, k)
    BY <1>2 DEF Found, Prefix
  <2>3. \A k \in 1 .. Len(pattern) : Allotted(f, k)
    BY <1>3, <2>1, <2>2
  <2>4. Alignment(f)
    BY <1>3, <2>1, <2>2, <2>3, Aligned
  <2>5. Matches
    BY <2>4 DEF Matches, Placements
  <2>6. Positions' /\ Found' /\ Missed' /\ (Matches <=> Matches')
    BY <1>1, <1>2, Undisturbed
  <2> QED BY <1>1, <1>4, <2>5, <2>6 DEF MatchInv, MatchIsExact, ListedMatches, MatchesListed
<1>5. CASE ~(p > Len(pattern))
  <2>1. ~Matches
    <3> SUFFICES ASSUME NEW f \in Placements, Alignment(f) PROVE FALSE
      BY DEF Matches, Placements
    <3>1. p \in 1 .. Len(pattern) /\ f[p] >= t /\ f[p] \in 1 .. Len(text) + 1
      BY <1>1, <1>2, <1>3, <1>5, Reads DEF Missed, Behind
    <3>2. Allotted(f, p) /\ pattern[p] # Star
      BY <1>1, <1>2, <3>1, <1>5, <1>3, Reads
    <3> QED BY <1>3, <3>1, <3>2 DEF Allotted
  <2>2. Positions' /\ Found' /\ Missed' /\ (Matches <=> Matches')
    BY <1>1, <1>2, Undisturbed
  <2> QED BY <1>1, <1>5, <2>1, <2>2 DEF MatchInv, MatchIsExact, ListedMatches, MatchesListed
<1> QED BY <1>4, <1>5

\* The anchor is taken before anything is read.
LEMMA AnchorStep == ASSUME MatchInv, ScanRun \/ CutAnchor PROVE MatchInv'
<1>1. UNCHANGED <<pattern, text, matchVars>> /\ verdict' \in {"anchor", "match"}
  BY DEF ScanRun, CutAnchor
<1>2. Positions' /\ Found' /\ Missed'
  BY <1>1, Undisturbed DEF MatchInv
<1> QED BY <1>1, <1>2 DEF MatchInv, MatchIsExact, ListedMatches, MatchesListed

LEMMA OthersStep == ASSUME MatchInv, UNCHANGED wildcardVars PROVE MatchInv'
<1>1. UNCHANGED <<pattern, text, matchVars>> /\ verdict' = verdict
  BY DEF wildcardVars
<1>2. Positions' /\ Found' /\ Missed' /\ (Matches <=> Matches')
  BY <1>1, Undisturbed DEF MatchInv
<1> QED BY <1>1, <1>2 DEF MatchInv, MatchIsExact, ListedMatches, MatchesListed

LEMMA MatchKept == ASSUME MatchInv, [CommandNext]_commandVars PROVE MatchInv'
<1>1. CASE WildcardNext
  BY <1>1, AnchorStep, TakeOneStep, OpenStarStep, WidenStarStep, RefuseStep,
     SkipStarStep, DecideStep DEF WildcardNext
<1>2. CASE UNCHANGED wildcardVars
  BY <1>2, OthersStep
<1>3. WildcardNext \/ UNCHANGED wildcardVars
  BY DEF CommandNext, Match, Target, Parse, commandVars
<1> QED BY <1>1, <1>2, <1>3

\* paket_wildcard_match says yes of exactly the names that match, for every
\* pattern and every name without a *.
THEOREM MatcherDecides == CommandSpec => []MatchIsExact
<1>1. MatchInv => MatchIsExact
  BY DEF MatchInv
<1> QED BY <1>1, MatchBegins, MatchKept, PTL DEF CommandSpec
-----------------------------------------------------------------------------
(* The anchor.                                                             *)

\* What is kept is a run of the pattern without a wildcard.
AnchorInv ==
  /\ cursor \in 1 .. Len(pattern) + 1
  /\ best \in 1 .. Len(pattern) + 1 /\ best_size \in Nat
  /\ best + best_size <= Len(pattern) + 1
  /\ \A i \in best .. best + best_size - 1 : Literal(i)

\* The run ends where RunEnd says.
LEMMA RunEnds ==
  ASSUME NEW n \in Nat, Len(pattern) = n, NEW i \in 1 .. n + 1
  PROVE  /\ RunEnd(i) \in i .. n + 1
         /\ \A k \in i .. RunEnd(i) - 1 : Literal(k)
<1> DEFINE T == {e \in i .. n + 1 : e <= n => ~Literal(e)}
<1>1. T \subseteq Nat /\ n + 1 \in T
  OBVIOUS
<1>2. PICK e \in T : \A y \in T : e <= y
  BY <1>1, Least
<1>3. \A k \in i .. e - 1 : Literal(k)
  BY <1>2
<1>4. \E x \in i .. Len(pattern) + 1 :
        /\ \A k \in i .. x - 1 : Literal(k)
        /\ x <= Len(pattern) => ~Literal(x)
  BY <1>2, <1>3
<1> HIDE DEF T
<1> QED BY <1>4 DEF RunEnd

LEMMA AnchorKept ==
  ASSUME MatchInv, AnchorInv, [CommandNext]_commandVars
  PROVE  AnchorInv'
<1>1. Len(pattern) \in Nat
  BY DEF MatchInv, Positions
<1>2. CASE UNCHANGED <<pattern, anchorVars>>
  BY <1>2 DEF AnchorInv, Literal, anchorVars
<1>3. CASE ScanRun
  <2> DEFINE end == RunEnd(cursor)
  <2>1. cursor \in 1 .. Len(pattern) + 1 /\ cursor <= Len(pattern)
    BY <1>3 DEF AnchorInv, ScanRun
  <2>2. end \in cursor .. Len(pattern) + 1 /\ \A k \in cursor .. end - 1 : Literal(k)
    BY <1>1, <2>1, RunEnds
  <2>3. /\ pattern' = pattern
        /\ IF end - cursor > best_size
           THEN best' = cursor /\ best_size' = end - cursor
           ELSE best' = best /\ best_size' = best_size
        /\ cursor' = IF end <= Len(pattern) THEN end + 1 ELSE end
    BY <1>3 DEF ScanRun
  <2>4. \A i : Literal(i)' <=> Literal(i)
    BY <2>3 DEF Literal
  <2> HIDE DEF end
  <2> QED BY <1>1, <2>1, <2>2, <2>3, <2>4 DEF AnchorInv
<1>4. CASE CutAnchor
  <2>1. pattern' = pattern /\ best' = best /\ cursor' = cursor
        /\ best_size' = IF best_size > AnchorMax THEN AnchorMax ELSE best_size
    BY <1>4 DEF CutAnchor
  <2>2. \A i : Literal(i)' <=> Literal(i)
    BY <2>1 DEF Literal
  <2> QED BY <1>1, <2>1, <2>2, WildcardAssumption DEF AnchorInv
<1> QED
  BY <1>2, <1>3, <1>4
     DEF CommandNext, Match, Target, Parse, commandVars, wildcardVars, WildcardNext,
         TakeOne, OpenStar, WidenStar, Refuse, SkipStar, Decide

\* An alignment puts a run of literals on as many characters in a row.
LEMMA RunIsContained ==
  ASSUME Positions, AnchorInv, NEW f \in Placements, Alignment(f),
         NEW k \in 0 .. best_size
  PROVE  f[best + k] = f[best] + k
<1>1. /\ Len(pattern) \in Nat /\ Len(text) \in Nat /\ best_size \in Nat
      /\ best \in 1 .. Len(pattern) + 1 /\ best + best_size <= Len(pattern) + 1
  BY DEF Positions, AnchorInv
<1>2. \A i \in 1 .. Len(pattern) + 1 : f[i] \in 1 .. Len(text) + 1
  BY DEF Placements
<1>3. \A i \in best .. best + best_size - 1 : f[i + 1] = f[i] + 1
  BY <1>1, Aligned DEF AnchorInv, Literal, Allotted
<1> DEFINE T == {x \in 0 .. best_size : f[best + x] # f[best] + x}
<1> SUFFICES ASSUME T # {} PROVE FALSE
  OBVIOUS
<1>4. PICK x \in T : \A y \in T : x <= y
  <2>1. T \subseteq Nat
    BY <1>1
  <2> HIDE DEF T
  <2> QED BY <2>1, Least
<1>5. x \in 1 .. best_size
  <2>1. x \in 0 .. best_size /\ f[best + x] # f[best] + x
    BY <1>4
  <2>2. best + 0 = best /\ f[best] + 0 = f[best]
    BY <1>1, <1>2
  <2>3. x # 0
    BY <2>1, <2>2
  <2> QED BY <1>1, <2>1, <2>3
<1>6. x - 1 \in 0 .. best_size /\ x - 1 \notin T
  BY <1>1, <1>4, <1>5
<1>7. f[best + (x - 1)] = f[best] + (x - 1)
  BY <1>6
<1>8. best + (x - 1) \in best .. best + best_size - 1 /\ (best + (x - 1)) + 1 = best + x
  BY <1>1, <1>5
<1>9. f[best + x] = f[best + (x - 1)] + 1
  BY <1>3, <1>8
<1> QED BY <1>1, <1>2, <1>4, <1>5, <1>7, <1>9

\* The server that is asked for the anchor withholds no package whose name
\* matches, for every pattern, name and length of the anchor.
THEOREM AnchorWithholdsNone == CommandSpec => []AnchorInMatch
<1>1. CommandInit => AnchorInv
  <2> SUFFICES ASSUME CommandInit PROVE AnchorInv
    OBVIOUS
  <2>1. cursor = 1 /\ best = 1 /\ best_size = 0
    BY DEF CommandInit, WildcardInit, NoWildcard
  <2>2. Len(pattern) \in Nat
    BY MatchBegins DEF MatchInv, Positions
  <2> QED BY <2>1, <2>2 DEF AnchorInv
<1>2. MatchInv /\ AnchorInv => AnchorInMatch
  <2> SUFFICES ASSUME MatchInv, AnchorInv, Matches
               PROVE  \E j \in 1 .. Len(text) + 1 :
                        /\ j + best_size - 1 <= Len(text)
                        /\ \A k \in 0 .. best_size - 1 :
                             Upper(pattern[best + k]) = Upper(text[j + k])
    BY DEF AnchorInMatch
  <2>1. PICK f \in Placements : Alignment(f)
    BY DEF Matches, Placements
  <2>2. Positions /\ Len(pattern) \in Nat /\ Len(text) \in Nat
    BY DEF MatchInv, Positions
  <2>3. /\ best_size \in Nat /\ best \in 1 .. Len(pattern) + 1
        /\ best + best_size <= Len(pattern) + 1
    BY DEF AnchorInv
  <2>4. f[best] \in 1 .. Len(text) + 1 /\ f[best + best_size] \in 1 .. Len(text) + 1
    BY <2>2, <2>3 DEF Placements
  <2>5. f[best + best_size] = f[best] + best_size
    BY <2>1, <2>2, <2>3, RunIsContained
  <2>6. ASSUME NEW k \in 0 .. best_size - 1
        PROVE  Upper(pattern[best + k]) = Upper(text[f[best] + k])
    <3>1. f[best + k] = f[best] + k
      BY <2>1, <2>2, <2>3, RunIsContained
    <3>2. Allotted(f, best + k) /\ Literal(best + k)
      BY <2>1, <2>2, <2>3, Aligned DEF AnchorInv
    <3> QED BY <3>1, <3>2 DEF Allotted, Fits, Literal
  <2>7. f[best] + best_size - 1 <= Len(text)
    BY <2>2, <2>3, <2>4, <2>5
  <2>8. f[best] \in 1 .. Len(text) + 1
    BY <2>4
  <2> DEFINE j == f[best]
  <2>9. \A k \in 0 .. best_size - 1 : Upper(pattern[best + k]) = Upper(text[j + k])
    BY <2>6
  <2>10. j \in 1 .. Len(text) + 1 /\ j + best_size - 1 <= Len(text)
    BY <2>7, <2>8
  <2> HIDE DEF j
  <2> QED BY <2>9, <2>10
<1>3. MatchInv /\ [CommandNext]_commandVars => MatchInv'
  BY MatchKept
<1> QED BY <1>1, <1>2, <1>3, MatchBegins, AnchorKept, PTL DEF CommandSpec
-----------------------------------------------------------------------------
(* The options.  Of the command line up to read_index the parser knows     *)
(* which options it had and with what values; the words it had are what    *)
(* was written, and what is still to be read has not been written over.    *)

OptionNames == DOMAIN Defaults
Settings == Arguments \cup {Defaults[o] : o \in OptionNames}

OthersTo(n) == {i \in 1 .. n : i \in Others}
GivenTo(o, n) == {i \in 1 .. n : typed[i] = Option(o)}

ReadSoFar ==
  /\ argv \in Seq(Arguments) /\ Len(argv) = Len(typed)
  /\ read_index \in 1 .. Len(typed) + 1 /\ write_index \in 1 .. read_index
  /\ \A i \in read_index .. Len(typed) : argv[i] = typed[i]
  /\ read_index > 1 => ~IsOption(typed[read_index - 1])

Sorted ==
  /\ Picks(SubSeq(argv, 1, write_index - 1), typed, OthersTo(read_index - 1))
  /\ found \subseteq OptionNames /\ options \in [OptionNames -> Settings]
  /\ \A o \in OptionNames :
       IF o \in found
       THEN \E i \in 1 .. read_index - 2 :
              /\ GivenTo(o, read_index - 1) = {i}
              /\ ValidFor(o, typed[i + 1]) /\ options[o] = typed[i + 1]
       ELSE GivenTo(o, read_index - 1) = {} /\ options[o] = Defaults[o]

ParseInv == /\ typed \in Seq(Arguments)
            /\ parse = "running" => ReadSoFar /\ Sorted
            /\ parse # "running" => OptionsExact

LEMMA ParseBegins == CommandInit => ParseInv
<1> SUFFICES ASSUME CommandInit PROVE ParseInv
  OBVIOUS
<1>1. /\ typed \in Seq(Arguments) /\ argv = typed /\ read_index = 1 /\ write_index = 1
      /\ found = {} /\ options = Defaults /\ parse = "running"
  <2>1. CASE NoOptions
    BY <2>1 DEF NoOptions
  <2>2. CASE OptionsInit
    <3>1. PICK n \in 0 .. MaxArguments : typed \in [1 .. n -> Arguments]
      BY <2>2 DEF OptionsInit
    <3>2. n \in Nat
      BY OptionsAssumption
    <3>3. typed \in Seq(Arguments)
      BY <3>1, <3>2
    <3> QED BY <2>2, <3>3 DEF OptionsInit
  <2> QED BY <2>1, <2>2 DEF CommandInit
<1>2. ReadSoFar
  BY <1>1 DEF ReadSoFar
<1>3. OthersTo(0) = {} /\ SubSeq(argv, 1, 0) = <<>> /\ \A o : GivenTo(o, 0) = {}
  BY <1>1 DEF OthersTo, GivenTo
<1>4. options \in [OptionNames -> Settings]
  BY <1>1 DEF OptionNames, Settings, Defaults
<1>5. Sorted
  <2>1. read_index - 1 = 0 /\ write_index - 1 = 0
    BY <1>1
  <2> QED BY <1>1, <1>3, <1>4, <2>1, PicksNothing DEF Sorted, OptionNames
<1> QED BY <1>1, <1>2, <1>5 DEF ParseInv

\* What one argument more is.
LEMMA OneMore ==
  ASSUME NEW n \in Nat
  PROVE  /\ n + 1 \in Others => OthersTo(n + 1) = OthersTo(n) \cup {n + 1}
         /\ n + 1 \notin Others => OthersTo(n + 1) = OthersTo(n)
<1>1. \A i : i \in 1 .. n + 1 <=> i \in 1 .. n \/ i = n + 1
  OBVIOUS
<1> QED BY <1>1 DEF OthersTo

LEMMA OneMoreGiven ==
  ASSUME NEW n \in Nat, NEW q
  PROVE  GivenTo(q, n + 1) = IF typed[n + 1] = Option(q) THEN GivenTo(q, n) \cup {n + 1}
                             ELSE GivenTo(q, n)
<1>1. \A i : i \in 1 .. n + 1 <=> i \in 1 .. n \/ i = n + 1
  OBVIOUS
<1> QED BY <1>1 DEF GivenTo

LEMMA ValuesAreNoOptions ==
  ASSUME NEW o \in OptionNames, NEW v, ValidFor(o, v)
  PROVE  ~IsOption(v)
<1>1. OptionNames = {"P", "C", "M"}
  BY DEF OptionNames, Defaults
<1>2. v[1] # "option"
  <2>1. CASE o = "P"
    BY <2>1 DEF ValidFor, ValidPort, Number
  <2>2. CASE o = "C"
    <3>1. ValidProfile(v)
      BY <2>2 DEF ValidFor
    <3>2. PICK b, q, s : v = <<"profile", b, q, s>>
      BY <3>1 DEF ValidProfile, Profile
    <3> QED BY <3>2
  <2>3. CASE o = "M"
    BY <2>3 DEF ValidFor, ValidPayload, Number
  <2> QED BY <1>1, <2>1, <2>2, <2>3
<1> QED BY <1>2 DEF IsOption, Option

LEMMA OptionsDiffer ==
  ASSUME NEW a, IsOption(a)
  PROVE  a[2] \in OptionNames /\ \A o : a = Option(o) <=> o = a[2]
BY DEF IsOption, Option, OptionNames

LEMMA RejectStep == ASSUME ParseInv, Reject PROVE ParseInv'
<1> DEFINE r == read_index
           o == argv[r][2]
<1>1. /\ typed \in Seq(Arguments) /\ ReadSoFar /\ Sorted
      /\ r <= Len(argv) /\ IsOption(argv[r]) /\ ~TakesValue(o)
      /\ parse' = "error" /\ UNCHANGED typed
  BY DEF Reject, More, ParseInv
<1>2. /\ r \in 1 .. Len(typed) /\ Len(argv) = Len(typed) /\ argv[r] = typed[r]
      /\ r < Len(typed) => argv[r + 1] = typed[r + 1]
  BY <1>1 DEF ReadSoFar
<1>3. o \in OptionNames /\ typed[r] = Option(o)
  BY <1>1, <1>2, OptionsDiffer
<1>4. r \in Given(o)
  <2>1. r \in DOMAIN typed
    BY <1>1, <1>2
  <2> QED BY <1>3, <2>1 DEF Given
<1>5. ~WellFormed
  <2> SUFFICES ASSUME WellFormed PROVE FALSE
    OBVIOUS
  <2>1. Given(o) = {r} /\ r < Len(typed) /\ ValidFor(o, typed[r + 1])
    BY <1>3, <1>4 DEF WellFormed, OptionNames
  <2>2. o \in found
    BY <1>1, <1>2, <2>1 DEF TakesValue
  <2>3. PICK i \in 1 .. r - 2 : GivenTo(o, r - 1) = {i}
    BY <1>1, <1>3, <2>2 DEF Sorted
  <2>4. i \in Given(o) /\ i # r
    BY <1>1, <1>2, <2>3 DEF GivenTo, Given
  <2> QED BY <2>1, <2>4
<1>6. WellFormed' <=> WellFormed
  BY <1>1 DEF WellFormed, Given
<1> QED BY <1>1, <1>5, <1>6 DEF ParseInv, OptionsExact

LEMMA TakeStep == ASSUME ParseInv, Take PROVE ParseInv'
<1>0. PICK r : r = read_index
  OBVIOUS
<1> DEFINE o == argv[r][2]
<1>1. /\ typed \in Seq(Arguments) /\ ReadSoFar /\ Sorted
      /\ r <= Len(argv) /\ IsOption(argv[r]) /\ TakesValue(o)
      /\ options' = [options EXCEPT ![o] = argv[r + 1]] /\ found' = found \cup {o}
      /\ read_index = r /\ read_index' = r + 2 /\ parse = "running"
      /\ UNCHANGED <<typed, argv, write_index, parse>>
  BY <1>0 DEF Take, More, ParseInv
<1>2. /\ argv \in Seq(Arguments) /\ Len(argv) = Len(typed) /\ Len(typed) \in Nat
      /\ r \in 1 .. Len(typed) /\ r + 1 \in 1 .. Len(typed) /\ argv[r] = typed[r]
      /\ argv[r + 1] = typed[r + 1] /\ o \notin found /\ ValidFor(o, typed[r + 1])
  BY <1>1 DEF ReadSoFar, TakesValue
<1>3. o \in OptionNames /\ typed[r] = Option(o) /\ \A q : typed[r] = Option(q) <=> q = o
  BY <1>1, <1>2, OptionsDiffer
<1>4. ~IsOption(typed[r + 1]) /\ \A q \in OptionNames : typed[r + 1] # Option(q)
  BY <1>2, <1>3, ValuesAreNoOptions DEF IsOption, OptionNames
<1>5. ReadSoFar'
  <2>1. /\ r + 2 \in 1 .. Len(typed) + 1 /\ write_index \in 1 .. r + 2
        /\ \A i \in r + 2 .. Len(typed) : argv[i] = typed[i]
        /\ (r + 2) - 1 = r + 1
    BY <1>1, <1>2 DEF ReadSoFar
  <2> QED BY <1>1, <1>2, <1>4, <2>1 DEF ReadSoFar, IsOption
<1>6. r - 1 \in Nat /\ (r - 1) + 1 = r /\ r \in Nat
  BY <1>2
<1>7. r \notin Others /\ r + 1 \notin Others
  <2>1. (r + 1) - 1 = r /\ r + 1 > 1
    BY <1>2
  <2> QED BY <1>1, <1>2, <2>1 DEF Others
<1>8. OthersTo(r + 1) = OthersTo(r - 1)
  BY <1>6, <1>7, OneMore
<1>9. ASSUME NEW q \in OptionNames
      PROVE  GivenTo(q, r + 1) = IF q = o THEN GivenTo(o, r - 1) \cup {r} ELSE GivenTo(q, r - 1)
  <2>1. /\ q = o => GivenTo(q, r) = GivenTo(q, r - 1) \cup {r}
        /\ q # o => GivenTo(q, r) = GivenTo(q, r - 1)
    BY <1>3, <1>6, OneMoreGiven
  <2>2. GivenTo(q, r + 1) = GivenTo(q, r)
    BY <1>4, <1>6, OneMoreGiven
  <2> QED BY <2>1, <2>2
<1>10. GivenTo(o, r - 1) = {}
  BY <1>1, <1>2, <1>3 DEF Sorted
<1>11. options' \in [OptionNames -> Settings] /\ options'[o] = typed[r + 1]
       /\ \A q \in OptionNames \ {o} : options'[q] = options[q]
  <2>1. argv[r + 1] \in Settings
    BY <1>2 DEF Settings
  <2> HIDE DEF o
  <2> QED BY <1>1, <1>2, <1>3, <2>1 DEF Sorted
<1>12. ASSUME NEW q \in OptionNames
       PROVE  IF q \in found'
              THEN \E i \in 1 .. r :
                     /\ GivenTo(q, r + 1) = {i}
                     /\ ValidFor(q, typed[i + 1]) /\ options'[q] = typed[i + 1]
              ELSE GivenTo(q, r + 1) = {} /\ options'[q] = Defaults[q]
  <2> HIDE DEF o
  <2>1. CASE q = o
    <3>1. GivenTo(q, r + 1) = {r} /\ r \in 1 .. r
      BY <1>2, <1>9, <1>10, <2>1
    <3> QED BY <1>1, <1>2, <1>11, <2>1, <3>1
  <2>2. CASE q # o
    <3>1. GivenTo(q, r + 1) = GivenTo(q, r - 1) /\ options'[q] = options[q]
          /\ (q \in found' <=> q \in found)
      BY <1>1, <1>9, <1>11, <2>2
    <3>2. \A i \in 1 .. r - 2 : i \in 1 .. r
      BY <1>2
    <3> QED BY <1>1, <3>1, <3>2 DEF Sorted
  <2> QED BY <2>1, <2>2
<1>13. Sorted'
  <2>1. /\ found' \subseteq OptionNames /\ read_index' - 1 = r + 1 /\ read_index' - 2 = r
    BY <1>1, <1>2, <1>3 DEF Sorted
  <2>2. /\ OthersTo(r + 1)' = OthersTo(r + 1)
        /\ \A q : GivenTo(q, r + 1)' = GivenTo(q, r + 1)
    BY <1>1 DEF OthersTo, Others, GivenTo, IsOption
  <2>3. Picks(SubSeq(argv, 1, write_index - 1), typed, OthersTo(r + 1))
    BY <1>1, <1>8 DEF Sorted
  <2> HIDE DEF o
  <2>4. \A q \in OptionNames :
          IF q \in found'
          THEN \E i \in 1 .. read_index' - 2 :
                 /\ GivenTo(q, r + 1)' = {i}
                 /\ ValidFor(q, typed'[i + 1]) /\ options'[q] = typed'[i + 1]
          ELSE GivenTo(q, r + 1)' = {} /\ options'[q] = Defaults[q]
    BY <1>1, <1>12, <2>1, <2>2
  <2>5. Picks(SubSeq(argv', 1, write_index' - 1), typed', OthersTo(r + 1)')
    BY <1>1, <2>2, <2>3
  <2> QED BY <1>11, <2>1, <2>4, <2>5 DEF Sorted, OptionNames
<1> QED BY <1>1, <1>5, <1>13 DEF ParseInv

LEMMA KeepStep == ASSUME ParseInv, Keep PROVE ParseInv'
<1>0. PICK r, w : r = read_index /\ w = write_index
  OBVIOUS
<1> DEFINE a == typed[r]
<1>1. /\ typed \in Seq(Arguments) /\ ReadSoFar /\ Sorted
      /\ r <= Len(argv) /\ ~IsOption(argv[r])
      /\ argv' = [argv EXCEPT ![w] = argv[r]]
      /\ read_index = r /\ read_index' = r + 1 /\ write_index = w /\ write_index' = w + 1
      /\ parse = "running"
      /\ UNCHANGED <<typed, found, options, parse>>
  BY <1>0 DEF Keep, More, ParseInv
<1>2. /\ argv \in Seq(Arguments) /\ Len(argv) = Len(typed) /\ Len(typed) \in Nat
      /\ r \in 1 .. Len(typed) /\ w \in 1 .. r /\ argv[r] = a /\ a \in Arguments
      /\ r > 1 => ~IsOption(typed[r - 1])
  BY <1>1 DEF ReadSoFar
<1>3. /\ argv' \in Seq(Arguments) /\ Len(argv') = Len(argv) /\ argv'[w] = a
      /\ \A i \in 1 .. Len(argv) : i # w => argv'[i] = argv[i]
  BY <1>1, <1>2
<1>4. ReadSoFar'
  <2>1. \A i \in r + 1 .. Len(typed) : argv'[i] = typed[i]
    <3> SUFFICES ASSUME NEW i \in r + 1 .. Len(typed) PROVE argv'[i] = typed[i]
      OBVIOUS
    <3>1. i \in r .. Len(typed) /\ i \in 1 .. Len(argv) /\ i # w
      BY <1>2
    <3> QED BY <1>1, <1>3, <3>1 DEF ReadSoFar
  <2>2. /\ r + 1 \in 1 .. Len(typed) + 1 /\ w + 1 \in 1 .. r + 1 /\ (r + 1) - 1 = r
    BY <1>2
  <2> QED BY <1>1, <1>2, <1>3, <2>1, <2>2 DEF ReadSoFar, IsOption
<1>5. r - 1 \in Nat /\ (r - 1) + 1 = r
  BY <1>2
<1>6. r \in Others
  BY <1>1, <1>2 DEF Others
<1>7. OthersTo(r) = OthersTo(r - 1) \cup {r}
  BY <1>5, <1>6, OneMore
<1>8. \A q \in OptionNames : GivenTo(q, r) = GivenTo(q, r - 1)
  <2>1. \A q \in OptionNames : typed[r] # Option(q)
    BY <1>1, <1>2 DEF IsOption, OptionNames
  <2> QED BY <1>5, <2>1, OneMoreGiven
<1>9. SubSeq(argv', 1, w) = Append(SubSeq(argv, 1, w - 1), a)
  BY <1>2, <1>3
<1>10. Picks(SubSeq(argv', 1, w), typed, OthersTo(r))
  <2>1. /\ SubSeq(argv, 1, w - 1) \in Seq(Arguments) /\ OthersTo(r - 1) \in SUBSET (1 .. r - 1)
        /\ Picks(SubSeq(argv, 1, w - 1), typed, OthersTo(r - 1))
    BY <1>1, <1>2 DEF Sorted, OthersTo
  <2>2. PICK n \in Nat : n = r - 1 /\ n + 1 = r
    BY <1>5
  <2>3. Picks(Append(SubSeq(argv, 1, w - 1), a), typed, OthersTo(r - 1) \cup {n + 1})
    BY <1>2, <2>1, <2>2, PicksNext
  <2> QED BY <1>7, <1>9, <2>2, <2>3
<1>11. \A i \in 1 .. r - 2 : i \in 1 .. r - 1
  BY <1>2
<1>12. Sorted'
  <2>1. /\ read_index' - 1 = r /\ read_index' - 2 = r - 1 /\ write_index' - 1 = w
    BY <1>1, <1>2
  <2>2. /\ OthersTo(r)' = OthersTo(r) /\ \A q : GivenTo(q, r)' = GivenTo(q, r)
    BY <1>1 DEF OthersTo, Others, GivenTo, IsOption
  <2>3. \A q \in OptionNames :
          IF q \in found
          THEN \E i \in 1 .. r - 1 :
                 /\ GivenTo(q, r) = {i}
                 /\ ValidFor(q, typed[i + 1]) /\ options[q] = typed[i + 1]
          ELSE GivenTo(q, r) = {} /\ options[q] = Defaults[q]
    BY <1>1, <1>8, <1>11 DEF Sorted
  <2>4. found \subseteq OptionNames /\ options \in [OptionNames -> Settings]
    BY <1>1 DEF Sorted
  <2> QED BY <1>1, <1>10, <2>1, <2>2, <2>3, <2>4 DEF Sorted, OptionNames
<1> QED BY <1>1, <1>4, <1>12 DEF ParseInv

LEMMA CompactStep == ASSUME ParseInv, Compact PROVE ParseInv'
<1> DEFINE N == Len(typed)
<1>1. /\ typed \in Seq(Arguments) /\ ReadSoFar /\ Sorted /\ read_index > Len(argv)
      /\ argv' = SubSeq(argv, 1, write_index - 1) /\ parse' = "ok"
      /\ UNCHANGED <<typed, found, options>>
  BY DEF Compact, ParseInv
<1>2. N \in Nat /\ read_index - 1 = N /\ read_index - 2 = N - 1 /\ DOMAIN typed = 1 .. N
  BY <1>1 DEF ReadSoFar
<1>3. OthersTo(N) = Others /\ \A q : GivenTo(q, N) = Given(q)
  BY <1>2 DEF OthersTo, Others, GivenTo, Given
<1>4. Picks(argv', typed, Others)
  BY <1>1, <1>2, <1>3 DEF Sorted
<1>5. ASSUME NEW q \in OptionNames
      PROVE  IF q \in found
             THEN \E i \in 1 .. N - 1 : /\ Given(q) = {i} /\ ValidFor(q, typed[i + 1])
                                        /\ options[q] = typed[i + 1]
             ELSE Given(q) = {} /\ options[q] = Defaults[q]
  BY <1>1, <1>2, <1>3 DEF Sorted
<1>6. ASSUME NEW q \in OptionNames
      PROVE  /\ \A i \in Given(q) : /\ Given(q) = {i} /\ i < N /\ ValidFor(q, typed[i + 1])
                                    /\ options[q] = typed[i + 1]
             /\ Given(q) = {} => options[q] = Defaults[q]
  <2>1. CASE q \in found
    <3>1. PICK i \in 1 .. N - 1 : /\ Given(q) = {i} /\ ValidFor(q, typed[i + 1])
                                  /\ options[q] = typed[i + 1]
      BY <1>5, <2>1
    <3>2. i < N
      BY <1>2
    <3> HIDE DEF N
    <3> QED BY <3>1, <3>2
  <2>2. CASE q \notin found
    BY <1>5, <2>2
  <2> QED BY <2>1, <2>2
<1>7. Others' = Others /\ WellFormed' = WellFormed /\ \A q : Given(q)' = Given(q)
  BY <1>1 DEF Others, WellFormed, Given, IsOption
<1>8. WellFormed
  BY <1>6 DEF WellFormed, OptionNames
<1>9. /\ \A o \in OptionNames : \A i \in Given(o) : options[o] = typed[i + 1]
      /\ \A o \in {"P", "C"} : Given(o) = {} => options[o] = Defaults[o]
  <2>1. ASSUME NEW o \in OptionNames, NEW i \in Given(o) PROVE options[o] = typed[i + 1]
    BY <1>6
  <2>2. ASSUME NEW o \in {"P", "C"}, Given(o) = {} PROVE options[o] = Defaults[o]
    <3>1. o \in OptionNames
      BY DEF OptionNames, Defaults
    <3> QED BY <1>6, <2>2, <3>1
  <2> QED BY <2>1, <2>2
<1>10. DOMAIN Defaults = OptionNames /\ Defaults' = Defaults
  BY DEF Defaults, OptionNames
<1>11. OptionsExact'
  BY <1>1, <1>4, <1>7, <1>8, <1>9, <1>10 DEF OptionsExact
<1> QED BY <1>1, <1>11 DEF ParseInv

LEMMA ParseKept == ASSUME ParseInv, [CommandNext]_commandVars PROVE ParseInv'
<1>1. CASE UNCHANGED optionsVars
  <2>1. UNCHANGED <<typed, argv, read_index, write_index, found, options, parse>>
    BY <1>1 DEF optionsVars
  <2>2. Others' = Others /\ WellFormed' = WellFormed /\ \A q : Given(q)' = Given(q)
    BY <2>1 DEF Others, WellFormed, Given, IsOption
  <2>3. OptionsExact' <=> OptionsExact
    BY <2>1, <2>2 DEF OptionsExact
  <2>4. ReadSoFar' <=> ReadSoFar
    BY <2>1 DEF ReadSoFar, IsOption
  <2>5. PICK n : n = read_index - 1
    OBVIOUS
  <2>6. OthersTo(n)' = OthersTo(n) /\ \A q : GivenTo(q, n)' = GivenTo(q, n)
    BY <2>1, <2>2 DEF OthersTo, GivenTo
  <2>7. Sorted' <=> Sorted
    BY <2>1, <2>5, <2>6 DEF Sorted, OptionNames
  <2> QED BY <2>1, <2>3, <2>4, <2>7 DEF ParseInv
<1>2. CASE OptionsNext
  BY <1>2, TakeStep, RejectStep, KeepStep, CompactStep DEF OptionsNext
<1> QED BY <1>1, <1>2 DEF CommandNext, Match, Target, Parse, commandVars

\* paket_parse_options, for every command line: it takes the options with their
\* values, refuses exactly what is not well formed, and leaves the words in order.
THEOREM CommandLineIsRead == CommandSpec => []OptionsExact
<1>1. ParseInv => OptionsExact
  BY DEF ParseInv, OptionsExact
<1> QED BY <1>1, ParseBegins, ParseKept, PTL DEF CommandSpec
-----------------------------------------------------------------------------
(* Texts.                                                                  *)

Typed == Destinations \cup Packages \cup Formats
Chars == FileChars \cup {".", ":", "[", "]"} \cup UNION {Range(s) : s \in Typed}
Text  == Seq(Chars)

\* Whatever is typed or answered is a text.
LEMMA TypedText == Typed \subseteq Text
<1>1. ASSUME NEW s \in Typed PROVE s \in Text
  <2>1. s \in Seq(Range(s))
    BY TargetAssumption DEF Typed
  <2>2. Range(s) \subseteq Chars
    BY DEF Chars
  <2> QED BY <2>1, <2>2, SeqMonotonic DEF Text
<1> QED BY <1>1

\* The sequence facts, said of texts once, so that the steps below can cite them whole.
LEMMA Element ==
  ASSUME NEW s \in Text
  PROVE  Len(s) \in Nat /\ DOMAIN s = 1 .. Len(s) /\ \A i \in 1 .. Len(s) : s[i] \in Chars
BY DEF Text

LEMMA Same ==
  ASSUME NEW s \in Text, NEW h \in Text, Len(s) = Len(h), \A i \in 1 .. Len(s) : s[i] = h[i]
  PROVE  s = h
BY SeqEqual DEF Text

LEMMA Concat ==
  ASSUME NEW s \in Text, NEW h \in Text
  PROVE  /\ s \o h \in Text /\ Len(s \o h) = Len(s) + Len(h)
         /\ \A i \in 1 .. Len(s) + Len(h) :
              (s \o h)[i] = IF i <= Len(s) THEN s[i] ELSE h[i - Len(s)]
BY ConcatProperties DEF Text

LEMMA Regroup ==
  ASSUME NEW s \in Text, NEW h \in Text, NEW u \in Text
  PROVE  (s \o h) \o u = s \o (h \o u)
BY ConcatAssociative DEF Text

\* What is cut off, from the front and from the back.
LEMMA Ends ==
  ASSUME NEW s \in Text, NEW n \in 0 .. Len(s)
  PROVE  /\ First(s, n) \in Text /\ Len(First(s, n)) = n
         /\ \A i \in 1 .. n : First(s, n)[i] = s[i]
         /\ Suffix(s, n) \in Text /\ Len(Suffix(s, n)) = Len(s) - n
         /\ \A i \in 1 .. Len(s) - n : Suffix(s, n)[i] = s[n + i]
<1>1. Len(s) \in Nat /\ n \in Nat /\ n <= Len(s)
  BY Element
<1>2. \A i \in 1 .. Len(s) : s[i] \in Chars
  BY Element
<1>3. First(s, n) = SubSeq(s, 1, n)
  BY <1>1 DEF First
<1>4. \A i \in 1 .. n : s[i] \in Chars
  BY <1>1, <1>2
<1>5. /\ SubSeq(s, 1, n) \in Seq(Chars) /\ Len(SubSeq(s, 1, n)) = n
      /\ \A i \in 1 .. n : SubSeq(s, 1, n)[i] = s[i]
  BY <1>1, <1>4, SubSeqProperties
<1>6. PICK k \in Int : k = n + 1
  BY <1>1
<1>7. PICK m \in Int : m = Len(s)
  BY <1>1
<1>8. \A i \in k .. m : s[i] \in Chars
  BY <1>1, <1>2, <1>6, <1>7
<1>9. /\ SubSeq(s, k, m) \in Seq(Chars)
      /\ Len(SubSeq(s, k, m)) = IF k <= m THEN m - k + 1 ELSE 0
      /\ \A i \in 1 .. m - k + 1 : SubSeq(s, k, m)[i] = s[k + i - 1]
  BY ONLY <1>6, <1>7, <1>8, SubSeqProperties
<1>10. Suffix(s, n) = SubSeq(s, k, m)
  BY <1>6, <1>7 DEF Suffix
<1>11. (IF k <= m THEN m - k + 1 ELSE 0) = Len(s) - n /\ m - k + 1 = Len(s) - n
  BY <1>1, <1>6, <1>7
<1>12. \A i \in 1 .. Len(s) - n : k + i - 1 = n + i
  BY <1>1, <1>6
<1> QED BY <1>3, <1>5, <1>9, <1>10, <1>11, <1>12 DEF Text

\* A text is its front and the rest.
LEMMA Whole ==
  ASSUME NEW s \in Text, NEW n \in 0 .. Len(s)
  PROVE  s = First(s, n) \o Suffix(s, n)
<1>1. /\ First(s, n) \in Text /\ Len(First(s, n)) = n
      /\ \A i \in 1 .. n : First(s, n)[i] = s[i]
      /\ Suffix(s, n) \in Text /\ Len(Suffix(s, n)) = Len(s) - n
      /\ \A i \in 1 .. Len(s) - n : Suffix(s, n)[i] = s[n + i]
  BY Ends
<1>2. Len(s) \in Nat
  BY Element
<1> DEFINE a == First(s, n)
           b == Suffix(s, n)
<1> HIDE DEF a, b
<1>3. /\ a \o b \in Text /\ Len(a \o b) = Len(a) + Len(b)
      /\ \A i \in 1 .. Len(a) + Len(b) : (a \o b)[i] = IF i <= Len(a) THEN a[i] ELSE b[i - Len(a)]
  BY <1>1, Concat DEF a, b
<1>4. /\ Len(a) = n /\ Len(b) = Len(s) - n
      /\ \A i \in 1 .. n : a[i] = s[i]
      /\ \A i \in 1 .. Len(s) - n : b[i] = s[n + i]
  BY <1>1 DEF a, b
<1>5. Len(s) = Len(a \o b) /\ \A i \in 1 .. Len(s) : s[i] = (a \o b)[i]
  <2>1. Len(s) = Len(a \o b) /\ n \in Nat /\ n <= Len(s)
    BY <1>2, <1>3, <1>4
  <2>2. ASSUME NEW i \in 1 .. Len(s), i <= n PROVE s[i] = (a \o b)[i]
    <3>1. i \in 1 .. Len(a) + Len(b) /\ i \in 1 .. n /\ i <= Len(a)
      BY <1>2, <1>4, <2>1, <2>2
    <3> QED BY <1>3, <1>4, <3>1
  <2>3. ASSUME NEW i \in 1 .. Len(s), i > n PROVE s[i] = (a \o b)[i]
    <3>1. /\ i \in 1 .. Len(a) + Len(b) /\ i - n \in 1 .. Len(s) - n /\ ~(i <= Len(a))
          /\ n + (i - n) = i /\ i - Len(a) = i - n
      BY <1>2, <1>4, <2>1, <2>3
    <3>2. (a \o b)[i] = b[i - n] /\ b[i - n] = s[i]
      BY <1>3, <1>4, <3>1
    <3> QED BY <3>2
  <2> QED BY <2>1, <2>2, <2>3
<1>6. s = a \o b
  BY <1>3, <1>5, Same
<1> QED BY <1>6 DEF a, b

\* What was joined is cut at the joint.
LEMMA CutJoined ==
  ASSUME NEW a \in Text, NEW b \in Text
  PROVE  First(a \o b, Len(a)) = a /\ Suffix(a \o b, Len(a)) = b
<1>1. /\ a \o b \in Text /\ Len(a \o b) = Len(a) + Len(b) /\ Len(a) \in Nat /\ Len(b) \in Nat
      /\ \A i \in 1 .. Len(a) + Len(b) : (a \o b)[i] = IF i <= Len(a) THEN a[i] ELSE b[i - Len(a)]
  BY Concat, Element
<1> DEFINE s == a \o b
<1> HIDE DEF s
<1>2. Len(a) \in 0 .. Len(s) /\ s \in Text /\ Len(s) = Len(a) + Len(b)
  BY <1>1 DEF s
<1>3. /\ First(s, Len(a)) \in Text /\ Len(First(s, Len(a))) = Len(a)
      /\ \A i \in 1 .. Len(a) : First(s, Len(a))[i] = s[i]
      /\ Suffix(s, Len(a)) \in Text /\ Len(Suffix(s, Len(a))) = Len(s) - Len(a)
      /\ \A i \in 1 .. Len(s) - Len(a) : Suffix(s, Len(a))[i] = s[Len(a) + i]
  BY <1>2, Ends
<1>4. \A i \in 1 .. Len(a) : s[i] = a[i]
  BY <1>1 DEF s
<1>5. \A i \in 1 .. Len(b) : s[Len(a) + i] = b[i]
  <2>1. SUFFICES ASSUME NEW i \in 1 .. Len(b) PROVE s[Len(a) + i] = b[i]
    OBVIOUS
  <2>2. Len(a) + i \in 1 .. Len(a) + Len(b) /\ ~(Len(a) + i <= Len(a)) /\ Len(a) + i - Len(a) = i
    BY <1>1
  <2> QED BY <1>1, <2>2 DEF s
<1>6. First(s, Len(a)) = a
  BY <1>3, <1>4, Same
<1>7. Len(s) - Len(a) = Len(b)
  BY <1>1, <1>2
<1>8. Suffix(s, Len(a)) = b
  BY <1>3, <1>5, <1>7, Same
<1> QED BY <1>6, <1>8 DEF s
-----------------------------------------------------------------------------
(* What a span is, and a number.                                           *)

IsSpan(s, S, n) == /\ \A i \in 1 .. n : s[i] \in S
                   /\ n < Len(s) => s[n + 1] \notin S

\* A text has a span: there is a first character outside the set, or none.
LEMMA SpanFound ==
  ASSUME NEW s \in Text, NEW S
  PROVE  Span(s, S) \in 0 .. Len(s) /\ IsSpan(s, S, Span(s, S))
<1> DEFINE T == {n \in 0 .. Len(s) : n = Len(s) \/ s[n + 1] \notin S}
<1>1. Len(s) \in Nat
  BY Element
<1>2. Len(s) \in T
  BY <1>1
<1>3. PICK n \in T : \A k \in T : n <= k
  <2>1. T \subseteq Nat
    OBVIOUS
  <2> HIDE DEF T
  <2> QED BY <1>2, <2>1, Least
<1>4. ASSUME NEW i \in 1 .. n PROVE s[i] \in S
  <2>1. n \in 0 .. Len(s)
    BY <1>3
  <2>2. i - 1 \in 0 .. Len(s) /\ ~(n <= i - 1) /\ i - 1 # Len(s) /\ i - 1 + 1 = i
    BY <1>1, <2>1
  <2>3. i - 1 \notin T
    BY <1>3, <2>2, Zenon
  <2> QED BY <2>2, <2>3
<1>5. IsSpan(s, S, n) /\ n \in 0 .. Len(s)
  BY <1>3, <1>4 DEF IsSpan
<1>6. \E k \in 0 .. Len(s) : IsSpan(s, S, k)
  BY <1>5
<1>7. Span(s, S) = CHOOSE k \in 0 .. Len(s) : IsSpan(s, S, k)
  BY DEF Span, IsSpan
<1> QED BY <1>6, <1>7

\* A text of S, then an end or something else.
LEMMA SpanIs ==
  ASSUME NEW a \in Text, NEW b \in Text, NEW S, \A i \in 1 .. Len(a) : a[i] \in S,
         b # <<>> => b[1] \notin S
  PROVE  Span(a \o b, S) = Len(a)
<1> DEFINE s == a \o b
           n == Span(s, S)
<1>1. /\ s \in Text /\ Len(s) = Len(a) + Len(b) /\ Len(a) \in Nat /\ Len(b) \in Nat
      /\ \A i \in 1 .. Len(a) + Len(b) : s[i] = IF i <= Len(a) THEN a[i] ELSE b[i - Len(a)]
  BY Concat, Element
<1>2. n \in 0 .. Len(s) /\ IsSpan(s, S, n)
  BY <1>1, SpanFound
<1> HIDE DEF s, n
<1>3. \A i \in 1 .. Len(a) : s[i] \in S
  BY <1>1
<1>4. Len(b) > 0 => s[Len(a) + 1] \notin S
  <2>1. SUFFICES ASSUME Len(b) > 0 PROVE s[Len(a) + 1] \notin S
    OBVIOUS
  <2>2. Len(a) + 1 \in 1 .. Len(a) + Len(b) /\ ~(Len(a) + 1 <= Len(a)) /\ Len(a) + 1 - Len(a) = 1
    BY <1>1, <2>1
  <2>3. b # <<>>
    BY <2>1
  <2> QED BY <1>1, <2>2, <2>3
<1>5. ~(n < Len(a))
  <2>1. SUFFICES ASSUME n < Len(a) PROVE FALSE
    OBVIOUS
  <2>2. n < Len(s) /\ n + 1 \in 1 .. Len(a)
    BY <1>1, <1>2, <2>1
  <2> QED BY <1>2, <1>3, <2>2 DEF IsSpan
<1>6. ~(n > Len(a))
  <2>1. SUFFICES ASSUME n > Len(a) PROVE FALSE
    OBVIOUS
  <2>2. Len(b) > 0 /\ Len(a) + 1 \in 1 .. n
    BY <1>1, <1>2, <2>1
  <2> QED BY <1>2, <1>4, <2>2 DEF IsSpan
<1>7. n = Len(a)
  BY <1>1, <1>2, <1>5, <1>6
<1> QED BY <1>7 DEF s, n

\* Digits and their values.
LEMMA Numerals ==
  \A n \in 0 .. 9 : Numeral(n) \in Digits /\ DigitValue(Numeral(n)) = n
<1>1. ASSUME NEW n \in 0 .. 9 PROVE Numeral(n) \in Digits /\ DigitValue(Numeral(n)) = n
  <2>1. Numeral(n) \in Digits
    BY DEF Numeral, Digits
  <2>2. \A k \in 0 .. 9 : Numeral(k) = Numeral(n) => k = n
    BY DEF Numeral
  <2> HIDE DEF Numeral
  <2>3. DigitValue(Numeral(n)) = n
    BY <2>2 DEF DigitValue
  <2> QED BY <2>1, <2>3
<1> QED BY <1>1

LEMMA DigitValues == \A c \in Digits : DigitValue(c) \in 0 .. 9
<1>1. ASSUME NEW c \in Digits PROVE DigitValue(c) \in 0 .. 9
  <2>1. \E n \in 0 .. 9 : Numeral(n) = c
    <3>1. /\ Numeral(0) = "0" /\ Numeral(1) = "1" /\ Numeral(2) = "2" /\ Numeral(3) = "3"
          /\ Numeral(4) = "4" /\ Numeral(5) = "5" /\ Numeral(6) = "6" /\ Numeral(7) = "7"
          /\ Numeral(8) = "8" /\ Numeral(9) = "9"
      BY DEF Numeral
    <3> HIDE DEF Numeral
    <3> QED BY <3>1 DEF Digits
  <2> QED BY <2>1 DEF DigitValue
<1> QED BY <1>1

\* The value so far, digit by digit.
ValueSteps(v, digits) ==
  v = [i \in 0 .. Len(digits) |-> IF i = 0 THEN 0 ELSE 10 * v[i - 1] + DigitValue(digits[i])]

\* The value of digits is the last of the values of their beginnings.
LEMMA ValueFound ==
  ASSUME NEW digits \in Seq(Digits)
  PROVE  \E v \in [0 .. Len(digits) -> Nat] : ValueSteps(v, digits) /\ Value(digits) = v[Len(digits)]
<1> DEFINE n == Len(digits)
           step == [i \in 1 .. n |-> [x \in Nat |-> 10 * x + DigitValue(digits[i])]]
           v == CHOOSE w : ValueSteps(w, digits)
<1>1. n \in Nat /\ \A i \in 1 .. n : DigitValue(digits[i]) \in Nat
  BY DigitValues
<1>2. step \in [1 .. n -> [Nat -> Nat]]
  BY <1>1
<1>3. PICK f \in [0 .. n -> Nat] : Steps(f, n, 0, step)
  <2> HIDE DEF step
  <2>1. 0 \in Nat
    OBVIOUS
  <2> QED BY <1>1, <1>2, <2>1, Recursion
<1>4. ValueSteps(f, digits)
  <2>1. ASSUME NEW i \in 1 .. n
        PROVE  step[i][f[i - 1]] = 10 * f[i - 1] + DigitValue(digits[i])
    <3>1. f[i - 1] \in Nat
      <4> HIDE DEF step
      <4>1. i - 1 \in 0 .. n /\ f \in [0 .. n -> Nat]
        BY <1>1, <1>3
      <4> HIDE DEF n
      <4> QED BY <4>1
    <3> QED BY <3>1
  <2>2. \A i \in 0 .. n : f[i] = IF i = 0 THEN 0 ELSE step[i][f[i - 1]]
    BY <1>3 DEF Steps
  <2>3. \A i \in 0 .. n : f[i] = IF i = 0 THEN 0 ELSE 10 * f[i - 1] + DigitValue(digits[i])
    <3> HIDE DEF step
    <3>1. \A i \in 0 .. n : i = 0 \/ i \in 1 .. n
      BY <1>1
    <3> QED BY <2>1, <2>2, <3>1
  <2> QED BY <1>3, <2>3 DEF ValueSteps
<1>5. ValueSteps(v, digits)
  BY <1>4
<1>6. Value(digits) = v[n]
  BY Zenon DEF Value, ValueSteps
<1> HIDE DEF v
<1>7. /\ DOMAIN v = 0 .. n /\ v = [i \in 0 .. n |-> v[i]]
      /\ v[0] = 0 /\ \A i \in 1 .. n : v[i] = 10 * v[i - 1] + DigitValue(digits[i])
  BY <1>1, <1>5 DEF ValueSteps
<1>8. \A i \in 0 .. n : v[i] \in Nat
  <2>1. v[0] \in Nat /\ \A i \in 1 .. n : v[i - 1] \in Nat => v[i] \in Nat
    <3>1. v[0] \in Nat
      BY <1>7
    <3>2. ASSUME NEW i \in 1 .. n, v[i - 1] \in Nat PROVE v[i] \in Nat
      <4>1. DigitValue(digits[i]) \in Nat /\ v[i] = 10 * v[i - 1] + DigitValue(digits[i])
        BY <1>1, <1>7
      <4> QED BY <3>2, <4>1
    <3> QED BY <3>1, <3>2
  <2> QED BY <1>1, <2>1, Climbs
<1>9. v \in [0 .. n -> Nat]
  BY <1>7, <1>8
<1> QED BY <1>5, <1>6, <1>9

\* What snprintf writes of a user area is read as that user area.
LEMMA DecimalValue ==
  ASSUME NEW u \in 0 .. 99
  PROVE  /\ Decimal(u) \in Seq(Digits) /\ Len(Decimal(u)) \in 1 .. 2
         /\ Value(Decimal(u)) = u
<1>1. CASE u < 10
  <2>1. Decimal(u) = <<Numeral(u)>> /\ Numeral(u) \in Digits /\ DigitValue(Numeral(u)) = u
    BY <1>1, Numerals DEF Decimal
  <2>2. Decimal(u) \in Seq(Digits) /\ Len(Decimal(u)) = 1 /\ Decimal(u)[1] = Numeral(u)
    BY <2>1
  <2>3. PICK v \in [0 .. 1 -> Nat] : ValueSteps(v, Decimal(u)) /\ Value(Decimal(u)) = v[1]
    BY <2>2, ValueFound
  <2>4. v[0] = 0 /\ v[1] = 10 * v[0] + u
    BY <2>1, <2>2, <2>3 DEF ValueSteps
  <2> QED BY <2>2, <2>3, <2>4
<1>2. CASE u >= 10
  <2> DEFINE a == u \div 10
             b == u % 10
  <2>1. a \in 0 .. 9 /\ b \in 0 .. 9 /\ 10 * a + b = u
    BY <1>2, Z3
  <2> HIDE DEF a, b
  <2>2. Decimal(u) = <<Numeral(a), Numeral(b)>>
    BY <1>2 DEF Decimal, a, b
  <2>3. /\ Numeral(a) \in Digits /\ DigitValue(Numeral(a)) = a
        /\ Numeral(b) \in Digits /\ DigitValue(Numeral(b)) = b
    BY <2>1, Numerals
  <2>4. /\ Decimal(u) \in Seq(Digits) /\ Len(Decimal(u)) = 2
        /\ Decimal(u)[1] = Numeral(a) /\ Decimal(u)[2] = Numeral(b)
    BY <2>2, <2>3
  <2>5. PICK v \in [0 .. 2 -> Nat] : ValueSteps(v, Decimal(u)) /\ Value(Decimal(u)) = v[2]
    BY <2>4, ValueFound
  <2>6. v[0] = 0 /\ v[1] = 10 * v[0] + a /\ v[2] = 10 * v[1] + b
    BY <2>3, <2>4, <2>5 DEF ValueSteps
  <2> QED BY <2>1, <2>4, <2>5, <2>6
<1> QED BY <1>1, <1>2
-----------------------------------------------------------------------------
(* Characters.                                                             *)

FileText == Seq(FileChars)
Uppers == {c \in FileChars : Upper(c) = c}

\* The characters of a file name: no dot, no colon, no bracket, the upper-case ones among them.
LEMMA Characters ==
  /\ \A c \in FileChars : Upper(c) \in Uppers
  /\ \A c : c \notin {"a", "b"} => Upper(c) = c
  /\ \A c : Upper(Upper(c)) = Upper(c)
  /\ Digits \subseteq FileChars /\ Alphas \subseteq FileChars /\ FileChars \subseteq Chars
  /\ \A c \in Chars : Upper(c) \in Chars
  /\ \A c \in FileChars : c \notin {".", ":", "[", "]", "/", "\\"}
  /\ {".", ":", "[", "]", "/", "\\"} \cap Alphas = {}
  /\ \A c \in Alphas : Upper(c) \in Alphas
<1>1. \A c \in FileChars : Upper(c) \in Uppers
  BY DEF Upper, Uppers, FileChars, Alphas, Digits
<1>2. \A c : c \notin {"a", "b"} => Upper(c) = c
  BY DEF Upper
<1>3. \A c : Upper(Upper(c)) = Upper(c)
  BY DEF Upper
<1>4. Digits \subseteq FileChars /\ Alphas \subseteq FileChars
  BY DEF FileChars
<1>5. FileChars \subseteq Chars
  BY DEF Chars
<1>9. \A c \in Chars : Upper(c) \in Chars
  <2>1. "A" \in FileChars /\ "B" \in FileChars
    BY DEF FileChars, Alphas
  <2>2. \A c : Upper(c) \in {"A", "B", c}
    BY DEF Upper
  <2> QED BY <1>5, <2>1, <2>2
<1>6. \A c \in FileChars : c \notin {".", ":", "[", "]", "/", "\\"}
  BY DEF FileChars, Alphas, Digits
<1>7. {".", ":", "[", "]", "/", "\\"} \cap Alphas = {}
  BY <1>4, <1>6
<1>8. \A c \in Alphas : Upper(c) \in Alphas
  BY DEF Upper, Alphas
<1> QED BY <1>1, <1>2, <1>3, <1>4, <1>5, <1>6, <1>7, <1>8, <1>9

\* Folding changes characters, not the length.
LEMMA UppercaseText ==
  ASSUME NEW s \in Text
  PROVE  /\ Uppercase(s) \in Text /\ Len(Uppercase(s)) = Len(s)
         /\ \A i \in 1 .. Len(s) : Uppercase(s)[i] = Upper(s[i])
         /\ (s \in FileText => Uppercase(s) \in Seq(Uppers))
<1>1. Len(s) \in Nat /\ DOMAIN s = 1 .. Len(s) /\ \A i \in 1 .. Len(s) : s[i] \in Chars
  BY Element
<1>2. Uppercase(s) = [i \in 1 .. Len(s) |-> Upper(s[i])]
  BY <1>1 DEF Uppercase
<1>3. \A i \in 1 .. Len(s) : Upper(s[i]) \in Chars
  BY <1>1, Characters
<1>4. /\ Uppercase(s) \in Seq(Chars) /\ Len(Uppercase(s)) = Len(s)
      /\ \A i \in 1 .. Len(s) : Uppercase(s)[i] = Upper(s[i])
  BY <1>1, <1>2, <1>3
<1>5. ASSUME s \in FileText PROVE Uppercase(s) \in Seq(Uppers)
  <2>1. \A i \in 1 .. Len(s) : s[i] \in FileChars
    BY <1>5 DEF FileText
  <2>2. \A i \in 1 .. Len(s) : Upper(s[i]) \in Uppers
    BY <2>1, Characters
  <2> QED BY <1>1, <1>2, <2>2
<1> QED BY <1>4, <1>5 DEF Text

\* What is in upper case stays as it is.
LEMMA StaysUpper ==
  ASSUME NEW s \in Seq(Uppers) PROVE Uppercase(s) = s /\ s \in Text /\ s \in FileText
<1>1. \A i \in 1 .. Len(s) : s[i] \in FileChars /\ Upper(s[i]) = s[i]
  BY DEF Uppers
<1>2. s \in FileText
  <2>1. Uppers \subseteq FileChars
    BY DEF Uppers
  <2> QED BY <2>1, SeqMonotonic DEF FileText
<1>3. s \in Text
  BY <1>2, Characters, SeqMonotonic DEF FileText, Text
<1>4. Uppercase(s) \in Text /\ Len(Uppercase(s)) = Len(s) /\ \A i \in 1 .. Len(s) : Uppercase(s)[i] = s[i]
  BY <1>1, <1>3, UppercaseText
<1> QED BY <1>2, <1>3, <1>4, Same

\* Folding a joined text folds its parts.
LEMMA UppercaseJoined ==
  ASSUME NEW s \in Text, NEW h \in Text
  PROVE  Uppercase(s \o h) = Uppercase(s) \o Uppercase(h)
<1> DEFINE a == Uppercase(s)
           b == Uppercase(h)
           c == Uppercase(s \o h)
<1>1. /\ s \o h \in Text /\ Len(s \o h) = Len(s) + Len(h) /\ Len(s) \in Nat /\ Len(h) \in Nat
      /\ \A i \in 1 .. Len(s) + Len(h) : (s \o h)[i] = IF i <= Len(s) THEN s[i] ELSE h[i - Len(s)]
  BY Concat, Element
<1>2. /\ a \in Text /\ Len(a) = Len(s) /\ b \in Text /\ Len(b) = Len(h)
      /\ \A i \in 1 .. Len(s) : a[i] = Upper(s[i])
      /\ \A i \in 1 .. Len(h) : b[i] = Upper(h[i])
  BY UppercaseText
<1>3. /\ c \in Text /\ Len(c) = Len(s) + Len(h)
      /\ \A i \in 1 .. Len(s) + Len(h) : c[i] = Upper((s \o h)[i])
  BY <1>1, UppercaseText
<1> HIDE DEF a, b, c
<1>4. /\ a \o b \in Text /\ Len(a \o b) = Len(a) + Len(b)
      /\ \A i \in 1 .. Len(a) + Len(b) : (a \o b)[i] = IF i <= Len(a) THEN a[i] ELSE b[i - Len(a)]
  BY <1>2, Concat
<1>5. ASSUME NEW i \in 1 .. Len(s) + Len(h) PROVE c[i] = (a \o b)[i]
  <2>1. CASE i <= Len(s)
    <3>1. i \in 1 .. Len(s)
      BY <1>1, <2>1
    <3> QED BY <1>1, <1>2, <1>3, <1>4, <2>1, <3>1
  <2>2. CASE ~(i <= Len(s))
    <3>1. i - Len(s) \in 1 .. Len(h)
      BY <1>1, <2>2
    <3>2. c[i] = Upper(h[i - Len(s)]) /\ (a \o b)[i] = b[i - Len(s)]
      BY <1>1, <1>2, <1>3, <1>4, <2>2
    <3> QED BY <1>2, <3>1, <3>2
  <2> QED BY <2>1, <2>2
<1>6. c = a \o b
  BY <1>2, <1>3, <1>4, <1>5, Same
<1> QED BY <1>6 DEF a, b, c
-----------------------------------------------------------------------------
(* Names of files.                                                         *)

\* A text of certain characters.
LEMMA RangeOf ==
  ASSUME NEW s \in Text, NEW S
  PROVE  Range(s) \subseteq S <=> s \in Seq(S)
<1>1. Len(s) \in Nat /\ DOMAIN s = 1 .. Len(s) /\ s = [i \in 1 .. Len(s) |-> s[i]]
  BY Element DEF Text
<1>2. Range(s) = {s[i] : i \in 1 .. Len(s)}
  BY <1>1 DEF Range
<1>3. ASSUME Range(s) \subseteq S PROVE s \in Seq(S)
  <2>1. \A i \in 1 .. Len(s) : s[i] \in S
    BY <1>2, <1>3
  <2>2. [i \in 1 .. Len(s) |-> s[i]] \in Seq(S)
    BY <1>1, <2>1
  <2> QED BY <1>1, <2>2
<1>4. ASSUME s \in Seq(S) PROVE Range(s) \subseteq S
  BY <1>2, <1>4
<1> QED BY <1>3, <1>4

\* Only letters and digits of a package's name get into a suggested name.
LEMMA PlainText ==
  ASSUME NEW s \in Text PROVE Plain(s) \in FileText
<1> DEFINE n == Len(s)
           keep == [i \in 1 .. n |-> [x \in FileText |->
                      IF s[i] \in Alphas \cup Digits THEN Append(x, s[i]) ELSE x]]
           Kept(f) == f = [i \in 0 .. n |->
                        IF i = 0 THEN <<>>
                        ELSE IF s[i] \in Alphas \cup Digits THEN Append(f[i - 1], s[i])
                        ELSE f[i - 1]]
           k == CHOOSE f : Kept(f)
<1>1. n \in Nat /\ \A i \in 1 .. n : s[i] \in Chars
  BY Element
<1>2. ASSUME NEW c \in Alphas \cup Digits, NEW x \in FileText PROVE Append(x, c) \in FileText
  <2>1. c \in FileChars
    BY <1>2, Characters
  <2> QED BY <2>1, AppendProperties DEF FileText
<1>3. keep \in [1 .. n -> [FileText -> FileText]]
  BY <1>1, <1>2
<1>4. <<>> \in FileText
  BY DEF FileText
<1>5. PICK f \in [0 .. n -> FileText] : Steps(f, n, <<>>, keep)
  <2> HIDE DEF keep
  <2> QED BY <1>1, <1>3, <1>4, Recursion
<1>6. Kept(f)
  <2>1. ASSUME NEW i \in 1 .. n
        PROVE  keep[i][f[i - 1]] = IF s[i] \in Alphas \cup Digits THEN Append(f[i - 1], s[i])
                                   ELSE f[i - 1]
    <3>1. f[i - 1] \in FileText
      <4> HIDE DEF keep
      <4>1. i - 1 \in 0 .. n /\ f \in [0 .. n -> FileText]
        BY <1>1, <1>5
      <4> HIDE DEF n
      <4> QED BY <4>1
    <3> QED BY <3>1
  <2>2. \A i \in 0 .. n : f[i] = IF i = 0 THEN <<>> ELSE keep[i][f[i - 1]]
    BY <1>5 DEF Steps
  <2> HIDE DEF keep
  <2>3. \A i \in 0 .. n : i = 0 \/ i \in 1 .. n
    BY <1>1
  <2>4. \A i \in 0 .. n : f[i] = IF i = 0 THEN <<>>
                               ELSE IF s[i] \in Alphas \cup Digits THEN Append(f[i - 1], s[i])
                               ELSE f[i - 1]
    BY <2>1, <2>2, <2>3
  <2> QED BY <1>5, <2>4
<1>7. Kept(k)
  BY <1>6
<1>8. Plain(s) = k[n]
  BY Zenon DEF Plain
<1> HIDE DEF k, keep
<1>9. /\ k[0] = <<>>
      /\ \A i \in 1 .. n : k[i] = IF s[i] \in Alphas \cup Digits THEN Append(k[i - 1], s[i])
                                ELSE k[i - 1]
  <2>1. \A i \in 0 .. n : k[i] = IF i = 0 THEN <<>>
                               ELSE IF s[i] \in Alphas \cup Digits THEN Append(k[i - 1], s[i])
                               ELSE k[i - 1]
    BY <1>7
  <2>2. 0 \in 0 .. n /\ \A i \in 1 .. n : i \in 0 .. n /\ i # 0
    BY <1>1
  <2> QED BY <2>1, <2>2
<1> HIDE DEF Kept
<1>10. \A i \in 0 .. n : k[i] \in FileText
  <2>1. k[0] \in FileText /\ \A i \in 1 .. n : k[i - 1] \in FileText => k[i] \in FileText
    BY <1>2, <1>4, <1>9
  <2> HIDE DEF n
  <2> QED BY <1>1, <2>1, Climbs
<1> QED BY <1>1, <1>8, <1>10

\* What files are called: in upper case, no longer than 8.3, the type optional.
IsName(base, type) == /\ base \in Seq(Uppers) /\ Len(base) \in 1 .. BaseMax
                      /\ type \in Seq(Uppers) /\ Len(type) \in 0 .. TypeMax
NameText(base, type) == base \o (IF type = <<>> THEN <<>> ELSE <<".">> \o type)

\* An 8.3 name is made of any package and format.
LEMMA Shortened ==
  ASSUME NEW s \in Text, NEW n \in Nat \ {0}, NEW default \in Seq(Uppers), default # <<>>,
         Len(default) <= n
  PROVE  LET h == OrElse(First(Uppercase(Plain(s)), n), default)
         IN  h \in Seq(Uppers) /\ Len(h) \in 1 .. n
<1> DEFINE u == Uppercase(Plain(s))
<1>1. u \in Seq(Uppers) /\ u \in Text
  <2>1. Plain(s) \in FileText
    BY PlainText
  <2>2. Plain(s) \in Text
    BY <2>1, Characters, SeqMonotonic DEF FileText, Text
  <2> QED BY <2>1, <2>2, UppercaseText
<1> HIDE DEF u
<1>2. First(u, n) \in Seq(Uppers) /\ Len(First(u, n)) <= n /\ Len(First(u, n)) \in Nat
  <2> DEFINE m == IF n <= Len(u) THEN n ELSE Len(u)
  <2>1. m \in Nat /\ m <= n /\ m <= Len(u)
    BY <1>1
  <2>2. First(u, n) = SubSeq(u, 1, m)
    BY DEF First
  <2>3. \A i \in 1 .. m : u[i] \in Uppers
    BY <1>1, <2>1
  <2> HIDE DEF m
  <2>4. SubSeq(u, 1, m) \in Seq(Uppers) /\ Len(SubSeq(u, 1, m)) = m
    BY <2>1, <2>3, SubSeqProperties
  <2> QED BY <2>1, <2>2, <2>4
<1>3. Len(default) \in 1 .. n
  <2>1. Len(default) \in Nat /\ Len(default) # 0
    OBVIOUS
  <2> QED BY <2>1
<1>4. CASE First(u, n) = <<>>
  BY <1>3, <1>4 DEF OrElse, u
<1>5. CASE First(u, n) # <<>>
  <2>1. Len(First(u, n)) # 0
    BY <1>2, <1>5
  <2> QED BY <1>2, <1>5, <2>1 DEF OrElse, u
<1> QED BY <1>4, <1>5

\* A suggested name is one, and has a type.
LEMMA Suggested ==
  ASSUME package \in Text, format \in Text
  PROVE  \E base, type : IsName(base, type) /\ type # <<>> /\ SuggestedName = NameText(base, type)
<1> DEFINE package0 == <<"P", "A", "C", "K", "A", "G", "E">>
           base == OrElse(First(Uppercase(Plain(package)), BaseMax), package0)
           kind == OrElse(First(Uppercase(Plain(format)), TypeMax), <<"P", "A", "K">>)
           type == IF many THEN <<"Z", "I", "P">> ELSE kind
<1>1. BaseMax \in Nat \ {0} /\ BaseMax >= 7 /\ TypeMax \in Nat \ {0} /\ TypeMax >= 3
  BY TargetAssumption
<1>2. {"P", "A", "C", "K", "G", "E", "Z", "I"} \subseteq Uppers
  BY DEF Uppers, FileChars, Alphas, Upper
<1>3. package0 \in Seq(Uppers) /\ Len(package0) = 7
  BY <1>2
<1>4. /\ <<"P", "A", "K">> \in Seq(Uppers) /\ Len(<<"P", "A", "K">>) = 3
      /\ <<"Z", "I", "P">> \in Seq(Uppers) /\ Len(<<"Z", "I", "P">>) = 3
  BY <1>2
<1>5. base \in Seq(Uppers) /\ Len(base) \in 1 .. BaseMax
  <2>1. package0 # <<>> /\ Len(package0) <= BaseMax
    BY <1>1, <1>3
  <2> HIDE DEF package0
  <2> QED BY <1>1, <1>3, <2>1, Shortened
<1>6. kind \in Seq(Uppers) /\ Len(kind) \in 1 .. TypeMax
  <2>1. <<"P", "A", "K">> # <<>> /\ Len(<<"P", "A", "K">>) <= TypeMax
    BY <1>1, <1>4
  <2> QED BY <1>1, <1>4, <2>1, Shortened
<1>7. SuggestedName = (base \o <<".">>) \o type
  BY DEF SuggestedName
<1> HIDE DEF base, kind
<1>8. type \in Seq(Uppers) /\ Len(type) \in 1 .. TypeMax
  BY <1>1, <1>4, <1>6
<1> HIDE DEF type
<1>9. type # <<>>
  BY <1>8
<1>10. SuggestedName = NameText(base, type)
  <2>1. base \in Text /\ type \in Text
    BY <1>5, <1>8, StaysUpper
  <2>2. <<".">> \in Text
    BY DEF Text, Chars
  <2> QED BY <1>7, <1>9, <2>1, <2>2, Regroup DEF NameText
<1>11. IsName(base, type)
  BY <1>1, <1>5, <1>8 DEF IsName
<1> QED BY <1>9, <1>10, <1>11
-----------------------------------------------------------------------------
(* What is typed.                                                          *)

\* What consists of file characters, folded.
LEMMA FileTextIs ==
  ASSUME NEW s \in FileText PROVE s \in Text /\ Uppercase(s) \in Seq(Uppers) /\ Len(Uppercase(s)) = Len(s)
<1>1. s \in Text
  BY Characters, SeqMonotonic DEF FileText, Text
<1> QED BY <1>1, UppercaseText

\* The marks between the parts.
LEMMA Dot == /\ <<".">> \in Text /\ Len(<<".">>) = 1 /\ Uppercase(<<".">>) = <<".">>
             /\ <<"[">> \in Text /\ <<"]">> \in Text
<1>1. <<".">> \in Text /\ Len(<<".">>) = 1 /\ <<"[">> \in Text /\ <<"]">> \in Text
  BY DEF Text, Chars
<1>2. Upper(".") = "."
  BY Characters
<1>3. /\ Uppercase(<<".">>) \in Text /\ Len(Uppercase(<<".">>)) = 1
      /\ Uppercase(<<".">>)[1] = "."
  <2>1. 1 \in 1 .. Len(<<".">>) /\ <<".">>[1] = "."
    BY <1>1
  <2> QED BY <1>1, <1>2, <2>1, UppercaseText
<1>4. Uppercase(<<".">>) = <<".">>
  BY <1>1, <1>3, Same
<1> QED BY <1>1, <1>4

\* A text is what comes before a character, the character, and what follows.
LEMMA Around ==
  ASSUME NEW s \in Text, NEW n \in Nat, n < Len(s)
  PROVE  /\ First(s, n) \in Text /\ Len(First(s, n)) = n
         /\ Suffix(s, n + 1) \in Text /\ Len(Suffix(s, n + 1)) = Len(s) - n - 1
         /\ Suffix(s, n) = <<s[n + 1]>> \o Suffix(s, n + 1)
         /\ s = First(s, n) \o (<<s[n + 1]>> \o Suffix(s, n + 1))
         /\ <<s[n + 1]>> \in Text
<1>1. Len(s) \in Nat /\ n \in 0 .. Len(s) /\ n + 1 \in 1 .. Len(s) /\ n + 1 \in 0 .. Len(s)
  BY Element
<1>2. s[n + 1] \in Chars
  BY <1>1, Element
<1>3. <<s[n + 1]>> \in Text /\ Len(<<s[n + 1]>>) = 1
  BY <1>2 DEF Text
<1> DEFINE a == Suffix(s, n)
           b == Suffix(s, n + 1)
           c == <<s[n + 1]>>
<1>4. /\ First(s, n) \in Text /\ Len(First(s, n)) = n
      /\ a \in Text /\ Len(a) = Len(s) - n /\ \A i \in 1 .. Len(s) - n : a[i] = s[n + i]
  BY <1>1, Ends
<1>5. /\ b \in Text /\ Len(b) = Len(s) - (n + 1)
      /\ \A i \in 1 .. Len(s) - (n + 1) : b[i] = s[(n + 1) + i]
  BY <1>1, Ends
<1>6. c[1] = s[n + 1] /\ c \in Text /\ Len(c) = 1
  BY <1>3
<1> HIDE DEF a, b, c
<1>7. /\ c \o b \in Text /\ Len(c \o b) = 1 + Len(b)
      /\ \A i \in 1 .. 1 + Len(b) : (c \o b)[i] = IF i <= 1 THEN c[i] ELSE b[i - 1]
  <2>1. /\ c \o b \in Text /\ Len(c \o b) = Len(c) + Len(b)
        /\ \A i \in 1 .. Len(c) + Len(b) : (c \o b)[i] = IF i <= Len(c) THEN c[i] ELSE b[i - Len(c)]
    BY <1>5, <1>6, Concat, Zenon
  <2> QED BY <1>6, <2>1, Zenon
<1>8. ASSUME NEW i \in 1 .. Len(a) PROVE a[i] = (c \o b)[i]
  <2>1. CASE i = 1
    BY <1>1, <1>4, <1>5, <1>6, <1>7, <2>1
  <2>2. CASE i # 1
    <3>1. i - 1 \in 1 .. Len(s) - (n + 1) /\ (n + 1) + (i - 1) = n + i /\ i \in 1 .. 1 + Len(b)
          /\ ~(i <= 1) /\ i \in 1 .. Len(s) - n
      BY <1>1, <1>4, <1>5, <2>2
    <3>2. a[i] = s[n + i] /\ b[i - 1] = s[n + i]
      BY <1>4, <1>5, <3>1
    <3> QED BY <1>7, <3>1, <3>2
  <2> QED BY <2>1, <2>2
<1>9. Len(a) = Len(c \o b)
  BY <1>1, <1>4, <1>5, <1>7
<1>10. a = c \o b
  BY <1>4, <1>7, <1>8, <1>9, Same
<1>11. s = First(s, n) \o a
  BY <1>1, Whole DEF a
<1>12. Len(s) - (n + 1) = Len(s) - n - 1
  BY <1>1
<1> QED BY <1>3, <1>4, <1>5, <1>10, <1>11, <1>12 DEF a, b, c

\* copy_explicit_name lets only names through.
LEMMA Explicit ==
  ASSUME NEW s \in Text, ExplicitName(s).valid
  PROVE  \E base, type : /\ IsName(base, type)
                         /\ Uppercase(s) = NameText(base, type)
                         /\ type = <<>> => \A i \in 1 .. Len(s) : s[i] # "."
<1> DEFINE S == Range(s) \ {"."}
           n == Span(s, S)
           b == First(s, n)
           h == Suffix(s, n + 1)
<1>1. /\ b # <<>> /\ Len(b) <= BaseMax /\ Allowed(b)
      /\ n < Len(s) => h # <<>> /\ Len(h) <= TypeMax /\ Allowed(h)
  BY DEF ExplicitName
<1>2. n \in 0 .. Len(s) /\ IsSpan(s, S, n) /\ Len(s) \in Nat
  BY SpanFound, Element
<1>3. b \in Text /\ Len(b) = n
  BY <1>2, Ends
<1>4. b \in FileText
  BY <1>1, <1>3, RangeOf DEF Allowed, FileText
<1> DEFINE base == Uppercase(b)
<1>5. base \in Seq(Uppers) /\ Len(base) \in 1 .. BaseMax
  <2>1. base \in Seq(Uppers) /\ Len(base) = Len(b)
    BY <1>4, FileTextIs
  <2>2. BaseMax \in Nat /\ Len(b) \in Nat /\ Len(b) # 0
    BY <1>1, <1>3, TargetAssumption
  <2> QED BY <1>1, <2>1, <2>2
<1>6. CASE n < Len(s)
  <2> DEFINE type == Uppercase(h)
  <2>1. h \in Text /\ s = b \o (<<s[n + 1]>> \o h)
    <3>1. n \in Nat
      BY <1>2
    <3> QED BY <1>6, <3>1, Around, Zenon
  <2>2. s[n + 1] = "."
    <3>1. s[n + 1] \notin S
      BY <1>2, <1>6 DEF IsSpan
    <3>2. s[n + 1] \in Range(s)
      <4>1. n + 1 \in DOMAIN s
        BY <1>2, <1>6, Element
      <4> QED BY <4>1 DEF Range
    <3> QED BY <3>1, <3>2
  <2>3. h \in FileText /\ h # <<>> /\ Len(h) <= TypeMax
    BY <1>1, <1>6, <2>1, RangeOf DEF Allowed, FileText
  <2>4. type \in Seq(Uppers) /\ Len(type) = Len(h) /\ Len(h) \in Nat /\ Len(h) # 0 /\ TypeMax \in Nat
    <3>1. type \in Seq(Uppers) /\ Len(type) = Len(h)
      BY <2>3, FileTextIs
    <3> HIDE DEF type, h
    <3>2. Len(h) \in Nat /\ Len(h) # 0 /\ TypeMax \in Nat
      BY <2>1, <2>3, Element, TargetAssumption
    <3> QED BY <3>1, <3>2
  <2> HIDE DEF b, h, n, S
  <2>5. <<".">> \o h \in Text
    BY <2>1, Dot, Concat
  <2>6. Uppercase(<<".">> \o h) = <<".">> \o type
    BY <2>1, Dot, UppercaseJoined
  <2>7. Uppercase(s) = base \o (<<".">> \o type)
    <3>1. s = b \o (<<".">> \o h)
      BY <2>1, <2>2
    <3>2. Uppercase(b \o (<<".">> \o h)) = Uppercase(b) \o Uppercase(<<".">> \o h)
      BY <1>3, <2>5, UppercaseJoined, Zenon
    <3> QED BY <2>6, <3>1, <3>2, Zenon
  <2> HIDE DEF base, type
  <2>8. type # <<>>
    BY <2>4
  <2>9. IsName(base, type)
    BY <1>5, <2>3, <2>4 DEF IsName
  <2> QED BY <2>7, <2>8, <2>9 DEF NameText
<1>7. CASE n = Len(s)
  <2>1. b = s
    <3>1. \A i \in 1 .. n : b[i] = s[i]
      BY <1>2, Ends
    <3> HIDE DEF b, n
    <3> QED BY <1>3, <1>7, <3>1, Same
  <2>2. \A i \in 1 .. Len(s) : s[i] # "."
    BY <1>2, <1>7 DEF IsSpan
  <2> HIDE DEF b, n, S, h
  <2>3. base \o <<>> = base
    <3> HIDE DEF base
    <3> QED BY <1>5
  <2>4. IsName(base, <<>>)
    <3>1. TypeMax \in Nat /\ <<>> \in Seq(Uppers) /\ Len(<<>>) = 0
      BY TargetAssumption
    <3> QED BY <1>5, <3>1 DEF IsName
  <2>5. Uppercase(s) = NameText(base, <<>>)
    BY <2>1, <2>3 DEF NameText
  <2> HIDE DEF base
  <2> QED BY <2>2, <2>4, <2>5
<1> QED BY <1>2, <1>6, <1>7

\* It lets every full name through.
LEMMA FullNameValid ==
  ASSUME NEW s \in Text, FullName(s)
  PROVE  ExplicitName(s).valid /\ (\E i \in 1 .. Len(s) : s[i] = ".")
<1>1. PICK n \in 1 .. BaseMax :
        /\ Len(s) \in n + 2 .. n + 1 + TypeMax /\ s[n + 1] = "."
        /\ Range(First(s, n)) \cup Range(Suffix(s, n + 1)) \subseteq FileChars
  BY DEF FullName
<1> DEFINE b == First(s, n)
           h == Suffix(s, n + 1)
           S == Range(s) \ {"."}
<1>2. n \in Nat /\ Len(s) \in Nat /\ n < Len(s) /\ BaseMax \in Nat /\ TypeMax \in Nat
      /\ n + 1 \in 1 .. Len(s)
  BY <1>1, TargetAssumption, Element
<1>3. /\ b \in Text /\ Len(b) = n /\ h \in Text /\ Len(h) = Len(s) - n - 1
      /\ Suffix(s, n) = <<".">> \o h /\ s = b \o (<<".">> \o h)
  <2>1. /\ First(s, n) \in Text /\ Len(First(s, n)) = n
        /\ Suffix(s, n + 1) \in Text /\ Len(Suffix(s, n + 1)) = Len(s) - n - 1
        /\ Suffix(s, n) = <<s[n + 1]>> \o Suffix(s, n + 1)
        /\ s = First(s, n) \o (<<s[n + 1]>> \o Suffix(s, n + 1))
    BY <1>2, Around, Zenon
  <2> QED BY <1>1, <2>1, Zenon
<1>4. \A i \in 1 .. n : b[i] = s[i] /\ s[i] \in Range(s)
  <2>1. n \in 0 .. Len(s)
    BY <1>2
  <2>2. \A i \in 1 .. n : b[i] = s[i]
    BY <2>1, Ends
  <2>3. \A i \in 1 .. n : i \in DOMAIN s
    BY <1>2, Element
  <2> QED BY <2>2, <2>3 DEF Range
<1>5. \A i \in 1 .. n : b[i] \in FileChars
  <2>1. \A i \in 1 .. n : i \in DOMAIN b
    BY <1>3, Element
  <2> QED BY <1>1, <2>1 DEF Range
<1>6. \A i \in 1 .. n : b[i] \in S
  BY <1>4, <1>5, Characters
<1> HIDE DEF b, h
<1>7. <<".">> \o h \in Text /\ (<<".">> \o h)[1] = "."
  BY <1>3, Dot, Concat
<1>8. Span(s, S) = n
  <2>1. "." \notin S
    OBVIOUS
  <2> HIDE DEF S
  <2>2. Span(b \o (<<".">> \o h), S) = Len(b)
    BY <1>3, <1>6, <1>7, <2>1, SpanIs
  <2> QED BY <1>3, <2>2
<1>9. Allowed(b) /\ Allowed(h)
  BY <1>1 DEF Allowed, b, h
<1>10. b # <<>> /\ Len(b) <= BaseMax /\ h # <<>> /\ Len(h) <= TypeMax
  <2>1. Len(b) # 0 /\ Len(b) <= BaseMax /\ Len(h) # 0 /\ Len(h) <= TypeMax
    BY <1>1, <1>2, <1>3
  <2>2. Len(<<>>) = 0
    OBVIOUS
  <2> QED BY <2>1, <2>2
<1>11. ExplicitName(s).valid
  BY <1>8, <1>9, <1>10 DEF ExplicitName, b, h
<1> QED BY <1>1, <1>2, <1>11
-----------------------------------------------------------------------------
(* The user area.                                                          *)

\* A piece out of the middle of a text.
LEMMA Middle ==
  ASSUME NEW s \in Text, NEW a \in Nat \ {0}, NEW b \in Nat, a <= b + 1, b <= Len(s)
  PROVE  /\ SubSeq(s, a, b) \in Text /\ Len(SubSeq(s, a, b)) = b - a + 1
         /\ \A i \in 1 .. b - a + 1 : SubSeq(s, a, b)[i] = s[a + i - 1]
<1>1. \A i \in a .. b : s[i] \in Chars
  BY Element
<1>2. /\ SubSeq(s, a, b) \in Seq(Chars)
      /\ Len(SubSeq(s, a, b)) = IF a <= b THEN b - a + 1 ELSE 0
      /\ \A i \in 1 .. b - a + 1 : SubSeq(s, a, b)[i] = s[a + i - 1]
  BY <1>1, SubSeqProperties
<1>3. (IF a <= b THEN b - a + 1 ELSE 0) = b - a + 1
  OBVIOUS
<1> QED BY <1>2, <1>3 DEF Text

\* The digits are the same in the front that holds them.
LEMMA MiddleOfFirst ==
  ASSUME NEW s \in Text, NEW k \in 1 .. Len(s), NEW m \in 1 .. k
  PROVE  SubSeq(First(s, k), 2, m) = SubSeq(s, 2, m)
<1>1. Len(s) \in Nat /\ k \in 0 .. Len(s)
  BY Element
<1>2. First(s, k) \in Text /\ Len(First(s, k)) = k /\ \A i \in 1 .. k : First(s, k)[i] = s[i]
  BY <1>1, Ends
<1> DEFINE f == First(s, k)
<1> HIDE DEF f
<1>3. f \in Text /\ Len(f) = k /\ \A i \in 1 .. k : f[i] = s[i]
  BY <1>2 DEF f
<1>4. m \in Nat /\ 2 \in Nat \ {0} /\ 2 <= m + 1 /\ m <= Len(f) /\ m <= Len(s)
  BY <1>1, <1>3
<1>5. /\ SubSeq(f, 2, m) \in Text /\ Len(SubSeq(f, 2, m)) = m - 2 + 1
      /\ \A i \in 1 .. m - 2 + 1 : SubSeq(f, 2, m)[i] = f[2 + i - 1]
  BY <1>3, <1>4, Middle
<1>6. /\ SubSeq(s, 2, m) \in Text /\ Len(SubSeq(s, 2, m)) = m - 2 + 1
      /\ \A i \in 1 .. m - 2 + 1 : SubSeq(s, 2, m)[i] = s[2 + i - 1]
  BY <1>4, Middle
<1>7. \A i \in 1 .. m - 2 + 1 : SubSeq(f, 2, m)[i] = SubSeq(s, 2, m)[i]
  <2>1. \A i \in 1 .. m - 2 + 1 : 2 + i - 1 \in 1 .. k
    BY <1>1, <1>4
  <2> QED BY <1>3, <1>5, <1>6, <2>1
<1>8. SubSeq(f, 2, m) = SubSeq(s, 2, m)
  BY <1>5, <1>6, <1>7, Same
<1> QED BY <1>8 DEF f

\* Cut twice is cut once, further on.
LEMMA SuffixTwice ==
  ASSUME NEW s \in Text, NEW a \in Nat, NEW b \in Nat, a + b <= Len(s)
  PROVE  Suffix(Suffix(s, a), b) = Suffix(s, a + b)
<1>1. Len(s) \in Nat /\ a \in 0 .. Len(s) /\ a + b \in 0 .. Len(s)
  BY Element
<1> DEFINE h == Suffix(s, a)
           u == Suffix(s, a + b)
<1>2. h \in Text /\ Len(h) = Len(s) - a /\ \A i \in 1 .. Len(s) - a : h[i] = s[a + i]
  BY <1>1, Ends
<1>3. /\ u \in Text /\ Len(u) = Len(s) - (a + b)
      /\ \A i \in 1 .. Len(s) - (a + b) : u[i] = s[(a + b) + i]
  BY <1>1, Ends
<1> HIDE DEF h, u
<1>4. b \in 0 .. Len(h)
  BY <1>1, <1>2
<1>5. /\ Suffix(h, b) \in Text /\ Len(Suffix(h, b)) = Len(h) - b
      /\ \A i \in 1 .. Len(h) - b : Suffix(h, b)[i] = h[b + i]
  BY <1>2, <1>4, Ends
<1>6. Len(Suffix(h, b)) = Len(u)
  BY <1>1, <1>2, <1>3, <1>5
<1>7. \A i \in 1 .. Len(u) : Suffix(h, b)[i] = u[i]
  <2>1. SUFFICES ASSUME NEW i \in 1 .. Len(u) PROVE Suffix(h, b)[i] = u[i]
    OBVIOUS
  <2>2. /\ i \in 1 .. Len(h) - b /\ b + i \in 1 .. Len(s) - a /\ a + (b + i) = (a + b) + i
        /\ i \in 1 .. Len(s) - (a + b)
    BY <1>1, <1>2, <1>3
  <2>3. Suffix(h, b)[i] = h[b + i] /\ h[b + i] = s[a + (b + i)] /\ u[i] = s[(a + b) + i]
    BY <1>2, <1>3, <1>5, <2>2
  <2> QED BY <2>2, <2>3
<1>8. Suffix(h, b) = u
  BY <1>3, <1>5, <1>6, <1>7, Same
<1> QED BY <1>8 DEF h, u

\* Cut at either end.
LEMMA NoSuffix ==
  ASSUME NEW s \in Text
  PROVE  /\ Suffix(s, 0) = s /\ First(s, 0) = <<>>
         /\ Suffix(s, Len(s)) = <<>> /\ First(s, Len(s)) = s
<1>1. Len(s) \in Nat /\ 0 \in 0 .. Len(s) /\ Len(s) \in 0 .. Len(s)
  BY Element
<1>2. /\ Suffix(s, 0) \in Text /\ Len(Suffix(s, 0)) = Len(s) - 0
      /\ \A i \in 1 .. Len(s) - 0 : Suffix(s, 0)[i] = s[0 + i]
      /\ First(s, 0) \in Text /\ Len(First(s, 0)) = 0
  BY <1>1, Ends
<1>3. Suffix(s, Len(s)) \in Text /\ Len(Suffix(s, Len(s))) = Len(s) - Len(s)
  BY <1>1, Ends
<1>4. First(s, Len(s)) \in Text /\ Len(First(s, Len(s))) = Len(s)
      /\ \A i \in 1 .. Len(s) : First(s, Len(s))[i] = s[i]
  BY <1>1, Ends
<1>5. \A h \in Text : Len(h) = 0 => h = <<>>
  BY DEF Text
<1>6. Len(Suffix(s, 0)) = Len(s) /\ \A i \in 1 .. Len(s) : Suffix(s, 0)[i] = s[i]
  BY <1>1, <1>2
<1>7. Suffix(s, 0) = s
  BY <1>2, <1>6, Same
<1>8. First(s, Len(s)) = s
  BY <1>4, Same
<1>9. Len(Suffix(s, Len(s))) = 0
  BY <1>1, <1>3
<1> QED BY <1>2, <1>3, <1>5, <1>7, <1>8, <1>9

\* The user area and the file are what Place takes them for, and the area exists.
LEMMA PlaceIs ==
  ASSUME NEW s \in Text, Place(s).valid
  PROVE  LET place == Place(s)
         IN  /\ place.user \in 0 .. LastUser
             /\ \E k \in 0 .. Len(s) : /\ place.file = Suffix(s, k)
                                       /\ NamesArea(First(s, k), place.file, place.user)
<1> DEFINE d == Suffix(s, 1)
           n == Span(d, Digits)
           user == Value(SubSeq(s, 2, n + 1))
           rest == Suffix(s, n + 1)
<1>0. Len(s) \in Nat /\ LastUser \in Nat /\ 0 \in 0 .. Len(s)
  BY Element, TargetAssumption
<1>1. CASE s = <<>> \/ s[1] \notin Separators
  <2>1. Place(s) = [valid |-> TRUE, user |-> 0, file |-> s]
    BY <1>1 DEF Place, NoUser
  <2>2. s = Suffix(s, 0) /\ NamesArea(First(s, 0), s, 0)
    <3>1. s = Suffix(s, 0) /\ First(s, 0) = <<>>
      BY NoSuffix
    <3> QED BY <3>1 DEF NamesArea
  <2> QED BY <1>0, <2>1, <2>2
<1>2. CASE s # <<>> /\ s[1] \in Separators
  <2>1. Len(s) >= 1 /\ 1 \in 0 .. Len(s) /\ 1 \in Nat
    <3>1. Len(s) # 0
      BY <1>2 DEF Text
    <3> QED BY <1>0, <3>1
  <2>2. d \in Text /\ Len(d) = Len(s) - 1 /\ \A i \in 1 .. Len(s) - 1 : d[i] = s[1 + i]
    BY <2>1, Ends
  <2>3. n \in 0 .. Len(d) /\ IsSpan(d, Digits, n)
    BY <2>2, SpanFound
  <2>4. CASE n = 0
    <3>1. Place(s) = [valid |-> TRUE, user |-> 0, file |-> rest]
      BY <1>2, <2>4 DEF Place, NoUser
    <3>2. rest = Suffix(s, 1)
      BY <2>4
    <3>3. First(s, 1) = <<s[1]>>
      <4>1. First(s, 1) \in Text /\ Len(First(s, 1)) = 1 /\ \A i \in 1 .. 1 : First(s, 1)[i] = s[i]
        BY <2>1, Ends
      <4>2. s[1] \in Chars
        BY <1>0, <2>1, Element
      <4>3. <<s[1]>> \in Text /\ Len(<<s[1]>>) = 1 /\ \A i \in 1 .. 1 : <<s[1]>>[i] = s[i]
        BY <4>2 DEF Text
      <4> QED BY <4>1, <4>3, Same
    <3>4. NamesArea(First(s, 1), rest, 0)
      BY <1>2, <3>3 DEF NamesArea
    <3> HIDE DEF rest
    <3> QED BY <1>0, <2>1, <3>1, <3>2, <3>4
  <2>5. CASE n # 0
    <3>1. /\ Place(s).user = user /\ Place(s).file = Suffix(rest, 1)
          /\ ~TooHigh(user) /\ (rest # <<>> => rest[1] \in Separators)
      <4> DEFINE ok == ~TooHigh(user) /\ (rest # <<>> => rest[1] \in Separators)
      <4>1. Place(s) = [valid |-> ok, user |-> user, file |-> Suffix(rest, 1)]
        BY <1>2, <2>5, Zenon DEF Place
      <4> HIDE DEF user, rest, n, d
      <4>2. ok \in BOOLEAN
        OBVIOUS
      <4> HIDE DEF ok
      <4>3. Place(s).valid = ok /\ Place(s).user = user /\ Place(s).file = Suffix(rest, 1)
        BY <4>1, <4>2
      <4>4. ok
        BY <4>2, <4>3, Zenon
      <4> QED BY <4>3, <4>4 DEF ok
    <3>2. n \in Nat /\ n >= 1 /\ n + 1 <= Len(s) /\ n + 1 \in 0 .. Len(s) /\ n + 1 \in Nat
      BY <1>0, <2>2, <2>3, <2>5
    <3> HIDE DEF n
    <3>3. /\ SubSeq(s, 2, n + 1) \in Text /\ Len(SubSeq(s, 2, n + 1)) = n
          /\ \A i \in 1 .. n : SubSeq(s, 2, n + 1)[i] = s[1 + i]
      <4>1. 2 \in Nat \ {0} /\ 2 <= n + 1 + 1 /\ n + 1 - 2 + 1 = n /\ \A i \in 1 .. n : 2 + i - 1 = 1 + i
        BY <3>2
      <4>2. /\ SubSeq(s, 2, n + 1) \in Text /\ Len(SubSeq(s, 2, n + 1)) = n + 1 - 2 + 1
            /\ \A i \in 1 .. n + 1 - 2 + 1 : SubSeq(s, 2, n + 1)[i] = s[2 + i - 1]
        BY <3>2, <4>1, Middle
      <4> QED BY <4>1, <4>2
    <3>4. \A i \in 1 .. n : s[1 + i] \in Digits
      <4>1. \A i \in 1 .. n : d[i] \in Digits /\ i \in 1 .. Len(s) - 1
        BY <1>0, <2>2, <2>3, <3>2 DEF IsSpan
      <4> QED BY <2>2, <4>1
    <3>5. SubSeq(s, 2, n + 1) \in Seq(Digits)
      <4> DEFINE w == SubSeq(s, 2, n + 1)
      <4>1. w \in Text /\ Len(w) = n /\ \A i \in 1 .. n : w[i] \in Digits
        BY <3>3, <3>4
      <4> HIDE DEF w
      <4>2. w = [i \in 1 .. n |-> w[i]]
        BY <4>1 DEF Text
      <4>3. [i \in 1 .. n |-> w[i]] \in Seq(Digits)
        BY <3>2, <4>1
      <4>4. w \in Seq(Digits)
        BY <4>2, <4>3
      <4> QED BY <4>4 DEF w
    <3>6. user \in Nat
      <4>1. PICK v \in [0 .. Len(SubSeq(s, 2, n + 1)) -> Nat] :
              user = v[Len(SubSeq(s, 2, n + 1))]
        BY <3>5, ValueFound
      <4> QED BY <3>2, <3>3, <4>1
    <3>7. rest \in Text /\ Len(rest) = Len(s) - (n + 1)
          /\ \A i \in 1 .. Len(s) - (n + 1) : rest[i] = s[(n + 1) + i]
      BY <3>2, Ends
    <3> DEFINE k == IF rest = <<>> THEN n + 1 ELSE n + 2
               area == First(s, k)
               file == Suffix(s, k)
    <3>8. k \in Nat /\ k <= Len(s) /\ k \in 0 .. Len(s) /\ k \in 1 .. Len(s) /\ n + 1 <= k
      <4>1. rest # <<>> => Len(rest) # 0
        BY <3>7 DEF Text
      <4> HIDE DEF rest
      <4> QED BY <1>0, <3>2, <3>7, <4>1
    <3>9. Suffix(rest, 1) = file
      <4>1. CASE rest = <<>>
        <5>1. file = <<>>
          BY <4>1
        <5>2. Suffix(<<>>, 1) = <<>>
          BY DEF Suffix
        <5> QED BY <4>1, <5>1, <5>2
      <4>2. CASE rest # <<>>
        <5>1. (n + 1) + 1 = n + 2 /\ (n + 1) + 1 <= Len(s)
          BY <3>2, <3>8, <4>2
        <5>2. Suffix(Suffix(s, n + 1), 1) = Suffix(s, (n + 1) + 1)
          BY <2>1, <3>2, <5>1, SuffixTwice
        <5> QED BY <4>2, <5>1, <5>2
      <4> QED BY <4>1, <4>2
    <3>10. area \in Text /\ Len(area) = k /\ \A i \in 1 .. k : area[i] = s[i]
      BY <3>8, Ends
    <3>11. SubSeq(area, 2, n + 1) = SubSeq(s, 2, n + 1)
      <4>1. n + 1 \in 1 .. k
        BY <3>2, <3>8
      <4> HIDE DEF k
      <4> QED BY <3>8, <4>1, MiddleOfFirst
    <3>12. /\ Suffix(area, n + 1) \in {<<>>} \cup {<<c>> : c \in Separators}
           /\ file # <<>> => Suffix(area, n + 1) # <<>>
      <4>1. CASE rest = <<>>
        <5>1. k = n + 1 /\ file = <<>>
          BY <4>1
        <5>2. Suffix(area, k) = <<>>
          BY <3>10, NoSuffix
        <5> QED BY <5>1, <5>2
      <4>2. CASE rest # <<>>
        <5> DEFINE z == Suffix(area, n + 1)
        <5>1. k = n + 2 /\ rest[1] \in Separators /\ n + 2 <= Len(s)
          BY <3>1, <3>8, <4>2
        <5> HIDE DEF k
        <5> HIDE DEF area, rest
        <5>2. n + 1 \in 0 .. Len(area) /\ Len(area) - (n + 1) = 1
          BY <3>2, <3>10, <5>1
        <5>3. z \in Text /\ Len(z) = 1 /\ z[1] = area[(n + 1) + 1]
          <6>1. /\ z \in Text /\ Len(z) = Len(area) - (n + 1)
                /\ \A i \in 1 .. Len(area) - (n + 1) : z[i] = area[(n + 1) + i]
            BY <3>10, <5>2, Ends
          <6>2. 1 \in 1 .. Len(area) - (n + 1)
            BY <5>2
          <6> HIDE DEF z
          <6> QED BY <5>2, <6>1, <6>2
        <5>4. area[(n + 1) + 1] = rest[1]
          <6>1. (n + 1) + 1 \in 1 .. k /\ 1 \in 1 .. Len(s) - (n + 1)
            BY <1>0, <3>2, <5>1
          <6> QED BY <3>7, <3>10, <6>1
        <5>5. z = <<rest[1]>>
          <6> HIDE DEF z
          <6>1. z[1] = rest[1]
            BY <5>3, <5>4
          <6> QED BY <5>3, <6>1 DEF Text
        <5> HIDE DEF z
        <5>6. z # <<>>
          BY <5>5
        <5> QED BY <5>1, <5>5, <5>6 DEF z
      <4> QED BY <4>1, <4>2
    <3>13. area[1] \in Separators /\ \A i \in 2 .. n + 1 : area[i] \in Digits
      <4>1. area[1] = s[1]
        BY <3>8, <3>10
      <4>2. ASSUME NEW i \in 2 .. n + 1 PROVE area[i] \in Digits
        <5>1. i - 1 \in 1 .. n /\ 1 + (i - 1) = i /\ i \in 1 .. k
          BY <3>2, <3>8
        <5> QED BY <3>4, <3>10, <5>1
      <4> QED BY <1>2, <4>1, <4>2
    <3>14. n + 1 \in 2 .. Len(area)
      BY <3>2, <3>8, <3>10
    <3> HIDE DEF area, file, k, rest
    <3>15. NamesArea(area, file, user)
      BY <3>11, <3>12, <3>13, <3>14 DEF NamesArea
    <3> HIDE DEF user
    <3>16. user \in 0 .. LastUser
      BY <1>0, <3>1, <3>6 DEF TooHigh
    <3> QED BY <3>1, <3>8, <3>9, <3>15, <3>16 DEF area, file
  <2> QED BY <2>4, <2>5
<1> QED BY <1>1, <1>2
-----------------------------------------------------------------------------
(* The documented destinations.                                            *)

\* A text that begins with another.
LEMMA Begins ==
  ASSUME NEW s \in Text, NEW a, First(s, Len(a)) = a, Len(a) \in Nat
  PROVE  Len(a) <= Len(s) /\ a \in Text /\ s = a \o Suffix(s, Len(a)) /\ Suffix(s, Len(a)) \in Text
<1>1. Len(s) \in Nat
  BY Element
<1>2. Len(a) <= Len(s)
  <2>1. SUFFICES ASSUME ~(Len(a) <= Len(s)) PROVE FALSE
    OBVIOUS
  <2>2. First(s, Len(a)) = First(s, Len(s))
    BY <1>1, <2>1 DEF First
  <2>3. a = s
    BY <2>2, NoSuffix
  <2> QED BY <1>1, <2>1, <2>3
<1>3. Len(a) \in 0 .. Len(s)
  BY <1>1, <1>2
<1>4. First(s, Len(a)) \in Text /\ Suffix(s, Len(a)) \in Text
  BY <1>3, Ends
<1>5. s = First(s, Len(a)) \o Suffix(s, Len(a))
  BY <1>3, Whole, Zenon
<1> QED BY <1>2, <1>4, <1>5, Zenon

\* A separator alone: user area 0.
LEMMA RootPlace ==
  ASSUME NEW s \in Text, First(s, 1) = <<"/">>, Suffix(s, 1) # <<>> => Suffix(s, 1)[1] \notin Digits
  PROVE  Place(s) = [valid |-> TRUE, user |-> 0, file |-> Suffix(s, 1)]
<1> DEFINE a == <<"/">>
           d == Suffix(s, 1)
           n == Span(d, Digits)
<1>1. Len(a) = 1
  OBVIOUS
<1>2. First(s, Len(a)) = a
  BY <1>1
<1> HIDE DEF a
<1>3. 1 <= Len(s) /\ a \in Text /\ d \in Text
  <2>1. Len(a) \in Nat
    BY <1>1
  <2> QED BY <1>1, <1>2, <2>1, Begins
<1>4. Len(s) \in Nat /\ 1 \in 0 .. Len(s)
  BY <1>3, Element
<1>5. s[1] = "/" /\ s # <<>>
  <2>1. First(s, 1)[1] = s[1]
    BY <1>4, Ends
  <2> QED BY <1>2, <1>3, <2>1 DEF a
<1>6. n \in 0 .. Len(d) /\ IsSpan(d, Digits, n) /\ Len(d) \in Nat
  BY <1>3, SpanFound, Element
<1>7. n = 0
  <2>1. CASE d = <<>>
    BY <1>6, <2>1
  <2>2. CASE d # <<>>
    <3> HIDE DEF n, d
    <3>1. d[1] \notin Digits
      BY <2>2 DEF d
    <3>2. ~(1 \in 1 .. n)
      BY <1>6, <3>1 DEF IsSpan
    <3> QED BY <1>6, <3>2
  <2> QED BY <2>1, <2>2
<1>8. s[1] \in Separators
  BY <1>5 DEF Separators
<1>9. Suffix(s, n + 1) = d
  BY <1>7
<1> QED BY <1>5, <1>7, <1>8, <1>9 DEF Place, NoUser

\* A user area between separators.
LEMMA AreaPlace ==
  ASSUME NEW s \in Text, NEW u \in 0 .. LastUser,
         LET a == <<"/">> \o Decimal(u) \o <<"/">> IN First(s, Len(a)) = a
  PROVE  LET a == <<"/">> \o Decimal(u) \o <<"/">>
         IN  s # <<>> /\ Place(s) = [valid |-> TRUE, user |-> u, file |-> Suffix(s, Len(a))]
<1> DEFINE c == <<"/">>
           d == Decimal(u)
           a == (c \o d) \o c
           file == Suffix(s, Len(a))
           k == Len(d)
<1>1. d \in Seq(Digits) /\ k \in 1 .. 2 /\ Value(d) = u
  <2>1. u \in 0 .. 99
    BY TargetAssumption
  <2> QED BY <2>1, DecimalValue
<1>2. d \in Text /\ \A i \in 1 .. k : d[i] \in Digits
  <2>1. Digits \subseteq Chars
    BY Characters
  <2> HIDE DEF d
  <2> QED BY <1>1, <2>1, SeqMonotonic DEF Text
<1> HIDE DEF d
<1>3. Len(a) = 2 + k
  <2> DEFINE D == Digits \cup {"/"}
  <2>1. c \in Seq(D) /\ Len(c) = 1
    OBVIOUS
  <2>2. d \in Seq(D)
    BY <1>1, SeqMonotonic
  <2> HIDE DEF c, D
  <2>3. c \o d \in Seq(D) /\ Len(c \o d) = 1 + k
    BY <2>1, <2>2, ConcatProperties
  <2>4. Len((c \o d) \o c) = (1 + k) + 1
    BY <2>1, <2>3, ConcatProperties
  <2> QED BY <1>1, <2>4
<1>4. First(s, Len(a)) = a
  BY DEF d
<1>5. c[1] = "/" /\ Len(c) = 1 /\ c # <<>>
  OBVIOUS
<1> HIDE DEF c
<1>6. Len(a) <= Len(s) /\ a \in Text /\ s = a \o file /\ file \in Text /\ Len(s) \in Nat
  <2>1. Len(a) \in Nat
    BY <1>1, <1>3
  <2> HIDE DEF a
  <2> QED BY <1>4, <2>1, Begins, Element
<1>7. c \in Text
  <2>1. a[Len(a)] = "/"
    <3> DEFINE D == Digits \cup {"/"}
    <3>1. c \in Seq(D) /\ d \in Seq(D)
      <4>1. c \in Seq(D)
        BY DEF c
      <4> QED BY <1>1, <4>1, SeqMonotonic
    <3> HIDE DEF D
    <3>2. c \o d \in Seq(D) /\ Len(c \o d) = 1 + k
      <4>1. c \o d \in Seq(D) /\ Len(c \o d) = Len(c) + Len(d)
        BY <3>1, ConcatProperties, Zenon
      <4> QED BY <1>5, <4>1
    <3>3. ((c \o d) \o c)[2 + k] = c[1]
      <4>1. /\ 2 + k \in 1 .. (1 + k) + 1 /\ ~(2 + k <= 1 + k) /\ (2 + k) - (1 + k) = 1
        BY <1>1
      <4>2. \A i \in 1 .. Len(c \o d) + Len(c) : ((c \o d) \o c)[i] =
               IF i <= Len(c \o d) THEN (c \o d)[i] ELSE c[i - Len(c \o d)]
        BY <3>1, <3>2, ConcatProperties
      <4> QED BY <1>5, <3>2, <4>1, <4>2
    <3> QED BY <1>3, <1>5, <3>3
  <2>2. Len(a) \in 1 .. Len(a)
    BY <1>1, <1>3
  <2>3. a[Len(a)] \in Chars
    <3> HIDE DEF a
    <3> QED BY <1>6, <2>2, Element
  <2> QED BY <2>1, <2>3 DEF c, Text
<1> HIDE DEF file
<1>8. /\ s = c \o (d \o (c \o file)) /\ s = (c \o d) \o (c \o file)
      /\ c \o file \in Text /\ c \o d \in Text /\ Len(c \o d) = 1 + k
      /\ d \o (c \o file) \in Text
  <2>1. c \o file \in Text /\ c \o d \in Text /\ Len(c \o d) = 1 + k
    <3>1. c \o file \in Text /\ c \o d \in Text /\ Len(c \o d) = Len(c) + Len(d)
      BY <1>2, <1>6, <1>7, Concat, Zenon
    <3> QED BY <1>5, <3>1
  <2>2. s = (c \o d) \o (c \o file)
    <3>1. s = ((c \o d) \o c) \o file
      BY <1>6
    <3>2. ((c \o d) \o c) \o file = (c \o d) \o (c \o file)
      <4>1. c \o d \in Text /\ c \in Text /\ file \in Text
        BY <1>6, <1>7, <2>1
      <4> QED BY ONLY <4>1, Regroup
    <3> QED BY <3>1, <3>2
  <2>3. (c \o d) \o (c \o file) = c \o (d \o (c \o file))
    BY <1>2, <1>7, <2>1, Regroup
  <2>4. d \o (c \o file) \in Text
    BY <1>2, <2>1, Concat
  <2> QED BY <2>1, <2>2, <2>3, <2>4
<1>9. Suffix(s, 1) = d \o (c \o file)
  BY <1>5, <1>7, <1>8, CutJoined
<1>10. (c \o file)[1] = "/" /\ (c \o file) # <<>> /\ Suffix(c \o file, 1) = file
  <2>1. Len(c \o file) = 1 + Len(file) /\ Len(file) \in Nat
        /\ \A i \in 1 .. 1 + Len(file) : (c \o file)[i] = IF i <= 1 THEN c[i] ELSE file[i - 1]
    <3>1. /\ Len(c \o file) = Len(c) + Len(file) /\ Len(file) \in Nat
          /\ \A i \in 1 .. Len(c) + Len(file) :
               (c \o file)[i] = IF i <= Len(c) THEN c[i] ELSE file[i - Len(c)]
      BY <1>6, <1>7, Concat, Element, Zenon
    <3> QED BY <1>5, <3>1, Zenon
  <2>2. (c \o file)[1] = "/"
    <3>1. 1 \in 1 .. 1 + Len(file)
      BY <2>1
    <3> QED BY <1>5, <2>1, <3>1
  <2>3. Suffix(c \o file, 1) = file
    BY <1>5, <1>6, <1>7, CutJoined
  <2>4. Len(c \o file) # 0
    BY <2>1
  <2>5. Len(<<>>) = 0
    OBVIOUS
  <2> QED BY <2>2, <2>3, <2>4, <2>5, Zenon
<1>11. Span(Suffix(s, 1), Digits) = k
  <2>1. "/" \notin Digits
    BY DEF Digits
  <2>2. PICK b : b = c \o file
    OBVIOUS
  <2>3. b \in Text /\ b[1] \notin Digits
    BY <1>8, <1>10, <2>1, <2>2
  <2>4. Span(d \o b, Digits) = Len(d)
    BY <1>2, <2>3, SpanIs
  <2> QED BY <1>9, <2>2, <2>4, Zenon
<1>12. Suffix(s, k + 1) = c \o file
  <2>1. k + 1 = 1 + k
    BY <1>1
  <2>2. Suffix((c \o d) \o (c \o file), Len(c \o d)) = c \o file
    BY <1>8, CutJoined, Zenon
  <2>3. s = (c \o d) \o (c \o file) /\ Len(c \o d) = 1 + k
    BY <1>8
  <2> QED BY <2>1, <2>2, <2>3, Zenon
<1>13. SubSeq(s, 2, k + 1) = d
  <2>1. 1 + k \in 1 .. Len(s) /\ 1 + k \in 0 .. Len(s) /\ 1 + k \in 1 .. 1 + k /\ k + 1 = 1 + k
    BY <1>1, <1>3, <1>6
  <2>2. First(s, 1 + k) = c \o d
    BY <1>8, CutJoined
  <2>3. SubSeq(First(s, 1 + k), 2, 1 + k) = SubSeq(s, 2, 1 + k)
    BY <2>1, MiddleOfFirst
  <2>4. Suffix(c \o d, 1) = d
    BY <1>2, <1>5, <1>7, CutJoined
  <2>5. Suffix(c \o d, 1) = SubSeq(c \o d, 2, 1 + k)
    BY <1>8 DEF Suffix
  <2> QED BY <2>1, <2>2, <2>3, <2>4, <2>5
<1>14. s # <<>> /\ s[1] \in Separators
  <2>1. s[1] = "/"
    <3>1. Len(d \o (c \o file)) \in Nat
      BY <1>8, Element
    <3>2. 1 \in 1 .. Len(c) + Len(d \o (c \o file)) /\ 1 <= Len(c)
      BY <1>5, <3>1
    <3> QED BY <1>5, <1>7, <1>8, <3>2, Concat
  <2>2. Len(s) # 0
    BY <1>1, <1>3, <1>6
  <2>3. s # <<>>
    BY <2>2
  <2> QED BY <2>1, <2>3 DEF Separators
<1>15. ~TooHigh(u) /\ k # 0
  <2>1. LastUser \in Nat /\ u <= LastUser /\ u \in Nat
    BY TargetAssumption
  <2>2. ~TooHigh(u)
    BY <2>1 DEF TooHigh
  <2>3. k # 0
    <3>1. k \in 1 .. 2
      BY <1>1, Zenon
    <3> HIDE DEF k
    <3> QED BY ONLY <3>1
  <2> QED BY <2>2, <2>3
<1>16. Place(s) = [valid |-> ~TooHigh(Value(d)) /\ (c \o file # <<>> => (c \o file)[1] \in Separators),
                   user |-> Value(d), file |-> Suffix(c \o file, 1)]
  BY <1>11, <1>12, <1>13, <1>14, <1>15, Zenon DEF Place
<1>17. "/" \in Separators
  BY DEF Separators
<1>18. (~TooHigh(Value(d)) /\ (c \o file # <<>> => (c \o file)[1] \in Separators)) = TRUE
  BY <1>1, <1>10, <1>15, <1>17
<1>19. Place(s) = [valid |-> TRUE, user |-> u, file |-> file]
  BY <1>1, <1>10, <1>16, <1>18, Zenon
<1> QED BY <1>14, <1>19, Zenon DEF file, a, c, d
-----------------------------------------------------------------------------
(* Reading back what was written.                                          *)

Stops(b, stop) == /\ stop \subseteq {".", "["}
                  /\ b \in Text /\ Len(b) >= 1 /\ b[1] \in stop
ReadsTo(s, stop, a, b) == /\ s \in Text /\ Len(s) \in Nat /\ Len(a) \in Nat
                          /\ Len(a) < Len(s) /\ Len(s) = Len(a) + Len(b)
                          /\ Span(s, Range(s) \ stop) = Len(a)
                          /\ First(s, Len(a)) = a /\ s[Len(a) + 1] = b[1]
                          /\ Suffix(s, Len(a) + 1) = Suffix(b, 1)

\* parse_target reads a name up to the first mark behind it.
LEMMA ReadsUpTo ==
  ASSUME NEW a \in Seq(Uppers), NEW b, NEW stop, Stops(b, stop)
  PROVE  ReadsTo(a \o b, stop, a, b)
<1> SUFFICES ASSUME NEW s, s = a \o b, b \in Text, stop \subseteq {".", "["},
                    Len(b) >= 1, b[1] \in stop
             PROVE  ReadsTo(s, stop, a, b)
  BY DEF Stops
<1> DEFINE S == Range(s) \ stop
<1>1. Len(b) \in Nat /\ Len(b) >= 1
  BY Element
<1>2. a \in Text /\ Len(a) \in Nat /\ \A i \in 1 .. Len(a) : a[i] \in FileChars
  <2>1. a \in FileText
    BY StaysUpper
  <2>2. a \in Text
    BY <2>1, StaysUpper
  <2> QED BY <2>1, <2>2, Element DEF FileText
<1>3. /\ s \in Text /\ Len(s) = Len(a) + Len(b) /\ Len(s) \in Nat
      /\ \A i \in 1 .. Len(a) + Len(b) : s[i] = IF i <= Len(a) THEN a[i] ELSE b[i - Len(a)]
  <2>1. /\ a \o b \in Text /\ Len(a \o b) = Len(a) + Len(b)
        /\ \A i \in 1 .. Len(a) + Len(b) :
             (a \o b)[i] = IF i <= Len(a) THEN a[i] ELSE b[i - Len(a)]
    BY <1>2, Concat, Zenon
  <2> QED BY <1>1, <1>2, <2>1
<1>6. First(s, Len(a)) = a /\ Suffix(s, Len(a)) = b
  BY <1>2, CutJoined
<1>7. \A i \in 1 .. Len(a) : a[i] \in S
  <2>1. SUFFICES ASSUME NEW i \in 1 .. Len(a) PROVE a[i] \in S
    OBVIOUS
  <2>2. s[i] = a[i] /\ i \in 1 .. Len(s)
    BY <1>1, <1>2, <1>3
  <2>3. a[i] \in Range(s)
    <3>1. i \in DOMAIN s
      BY <1>3, <2>2, Element
    <3> QED BY <2>2, <3>1 DEF Range
  <2>4. a[i] \notin {".", "["}
    BY <1>2, Characters
  <2> QED BY <2>3, <2>4
<1>8. Span(s, S) = Len(a)
  <2>1. b # <<>> => b[1] \notin S
    OBVIOUS
  <2> HIDE DEF S
  <2> QED BY <1>2, <1>7, <2>1, SpanIs
<1>9. s[Len(a) + 1] = b[1]
  <2>1. Len(a) + 1 \in 1 .. Len(a) + Len(b) /\ ~(Len(a) + 1 <= Len(a)) /\ Len(a) + 1 - Len(a) = 1
    BY <1>1, <1>2
  <2> QED BY <1>3, <2>1
<1>10. Suffix(s, Len(a) + 1) = Suffix(b, 1)
  <2>1. 1 \in Nat /\ Len(a) + 1 <= Len(s)
    BY <1>1, <1>2, <1>3
  <2>2. Suffix(Suffix(s, Len(a)), 1) = Suffix(s, Len(a) + 1)
    BY <1>2, <1>3, <2>1, SuffixTwice
  <2> QED BY <1>6, <2>2
<1>11. Len(a) < Len(s)
  BY <1>1, <1>2, <1>3
<1> QED BY <1>2, <1>3, <1>6, <1>8, <1>9, <1>10, <1>11, Zenon DEF ReadsTo

\* A mark and what follows it.
LEMMA Mark ==
  ASSUME NEW c \in {".", "["}, NEW z \in Text
  PROVE  LET b == <<c>> \o z
         IN  /\ b \in Text /\ Len(b) >= 1 /\ b[1] = c /\ Suffix(b, 1) = z
             /\ Len(b) = 1 + Len(z) /\ Len(z) \in Nat
<1> DEFINE b == <<c>> \o z
<1>1. <<c>> \in Text /\ Len(<<c>>) = 1 /\ <<c>>[1] = c
  BY DEF Text, Chars
<1>2. b \in Text /\ Len(b) = 1 + Len(z) /\ Len(z) \in Nat /\ b[1] = c
  <2>1. /\ b \in Text /\ Len(b) = Len(<<c>>) + Len(z) /\ Len(z) \in Nat
        /\ \A i \in 1 .. Len(<<c>>) + Len(z) :
             b[i] = IF i <= Len(<<c>>) THEN <<c>>[i] ELSE z[i - Len(<<c>>)]
    BY <1>1, Concat, Element
  <2>2. 1 \in 1 .. 1 + Len(z) /\ 1 <= 1
    BY <2>1
  <2> QED BY <1>1, <2>1, <2>2
<1>3. Suffix(b, 1) = z
  <2>1. Suffix(<<c>> \o z, Len(<<c>>)) = z
    BY <1>1, CutJoined, Zenon
  <2> QED BY <1>1, <2>1, Zenon
<1> HIDE DEF b
<1>4. Len(b) >= 1
  BY <1>2
<1> QED BY <1>2, <1>3, <1>4, Zenon DEF b

\* A drive, in upper case, is one again.
LEMMA DriveIs ==
  ASSUME NEW s \in Text
  PROVE  LET i == IF HasDrive(s) THEN 2 ELSE 0
         IN  /\ i \in 0 .. Len(s) /\ AfterDrive(s) = Suffix(s, i)
             /\ Uppercase(First(s, i)) = Drive(s) /\ Drive(s) \in Text /\ Len(Drive(s)) = i
             /\ HasDrive(s) => Drive(s)[1] \in Alphas /\ Upper(Drive(s)[1]) = Drive(s)[1]
                               /\ Drive(s)[2] = ":"
<1>1. Len(s) \in Nat
  BY Element
<1>2. CASE HasDrive(s)
  <2>1. Len(s) >= 2 /\ s[1] \in Alphas /\ s[2] = ":" /\ 2 \in 0 .. Len(s)
    BY <1>1, <1>2 DEF HasDrive
  <2> DEFINE d == Drive(s)
             f == First(s, 2)
  <2>2. d = <<Upper(s[1]), ":">>
    BY <1>2 DEF Drive
  <2>3. Upper(s[1]) \in Alphas /\ Upper(s[1]) \in Chars /\ ":" \in Chars /\ Upper(":") = ":"
        /\ Upper(Upper(s[1])) = Upper(s[1])
    <3>1. ":" \in Chars
      BY DEF Chars
    <3> QED BY <2>1, <3>1, Characters
  <2>4. d \in Text /\ Len(d) = 2 /\ d[1] = Upper(s[1]) /\ d[2] = ":"
    BY <2>2, <2>3 DEF Text
  <2>5. f \in Text /\ Len(f) = 2 /\ \A i \in 1 .. 2 : f[i] = s[i]
    BY <2>1, Ends
  <2> HIDE DEF d, f
  <2>6. /\ Uppercase(f) \in Text /\ Len(Uppercase(f)) = 2
        /\ Uppercase(f)[1] = Upper(f[1]) /\ Uppercase(f)[2] = Upper(f[2])
    BY <2>5, UppercaseText
  <2>7. Uppercase(f) = d
    <3>1. \A i \in 1 .. 2 : Uppercase(f)[i] = d[i]
      <4>1. Uppercase(f)[1] = d[1] /\ Uppercase(f)[2] = d[2]
        BY <2>1, <2>3, <2>4, <2>5, <2>6
      <4>2. \A i \in 1 .. 2 : i = 1 \/ i = 2
        OBVIOUS
      <4> QED BY <4>1, <4>2
    <3> QED BY <2>4, <2>6, <3>1, Same
  <2> QED BY <1>2, <2>1, <2>3, <2>4, <2>7 DEF AfterDrive, d, f
<1>3. CASE ~HasDrive(s)
  <2>1. First(s, 0) = <<>> /\ Suffix(s, 0) = s
    BY NoSuffix
  <2>2. Uppercase(<<>>) = <<>>
    BY DEF Uppercase
  <2>3. <<>> \in Text /\ Len(<<>>) = 0 /\ 0 \in 0 .. Len(s)
    BY <1>1 DEF Text
  <2> QED BY <1>3, <2>1, <2>2, <2>3 DEF AfterDrive, Drive
<1> QED BY <1>2, <1>3

\* The user area of a path, and that it reads back.
AreaEnd(user) == Decimal(user) \o <<"]">>

LEMMA AreaEndIs ==
  ASSUME NEW user \in 0 .. LastUser
  PROVE  /\ AreaEnd(user) \in Text /\ Decimal(user) \in Text /\ Decimal(user) # <<>>
         /\ First(AreaEnd(user), Span(AreaEnd(user), Digits)) = Decimal(user)
         /\ Value(Decimal(user)) = user /\ user <= LastUser
         /\ Len(Decimal(user)) \in Nat /\ Len(Decimal(user)) <= 2
<1> DEFINE d == Decimal(user)
           e == <<"]">>
<1>1. user \in 0 .. 99 /\ user <= LastUser
  BY TargetAssumption
<1>2. d \in Seq(Digits) /\ Len(d) \in 1 .. 2 /\ Value(d) = user
  BY <1>1, DecimalValue
<1>3. Digits \subseteq Chars /\ "]" \notin Digits
  BY Characters DEF Digits
<1> HIDE DEF d
<1>4. d \in Text /\ \A i \in 1 .. Len(d) : d[i] \in Digits
  BY <1>2, <1>3, SeqMonotonic DEF Text
<1>5. e \in Text /\ e[1] = "]"
  BY Dot
<1> HIDE DEF e
<1>6. d \o e \in Text /\ Span(d \o e, Digits) = Len(d)
  BY <1>3, <1>4, <1>5, Concat, SpanIs
<1>7. First(d \o e, Len(d)) = d
  BY <1>4, <1>5, CutJoined
<1>8. d # <<>> /\ Len(d) \in Nat /\ Len(d) <= 2
  <2>1. Len(d) # 0 /\ Len(d) \in Nat /\ Len(d) <= 2
    <3>1. PICK n \in 1 .. 2 : n = Len(d)
      BY <1>2, Zenon
    <3>2. n # 0 /\ n \in Nat /\ n <= 2
      OBVIOUS
    <3> QED BY <3>1, <3>2, Zenon
  <2> QED BY <2>1
<1>9. /\ AreaEnd(user) = d \o e /\ First(d \o e, Span(d \o e, Digits)) = d
  BY <1>6, <1>7 DEF AreaEnd, d, e
<1> QED BY <1>1, <1>2, <1>4, <1>6, <1>8, <1>9 DEF d

\* A name is its base, and a dot and its type if it has one.
LEMMA NameShape ==
  ASSUME NEW base, NEW type, IsName(base, type)
  PROVE  /\ NameText(base, type) \in Text
         /\ Len(NameText(base, type)) = Len(base) + (IF type = <<>> THEN 0 ELSE 1 + Len(type))
         /\ base \in Text /\ type \in Text
<1> DEFINE d == <<".">>
<1>1. base \in Text /\ type \in Text /\ Len(base) \in Nat /\ Len(type) \in Nat
  BY StaysUpper, Element DEF IsName
<1>2. d \in Text /\ Len(d) = 1
  BY Dot
<1>3. CASE type = <<>>
  <2>1. base \o <<>> = base
    BY <1>1 DEF Text
  <2>2. NameText(base, type) = base
    BY <1>3, <2>1 DEF NameText
  <2> QED BY <1>1, <1>3, <2>2
<1>4. CASE type # <<>>
  <2>1. NameText(base, type) = base \o (d \o type)
    BY <1>4 DEF NameText
  <2> HIDE DEF d
  <2>2. d \o type \in Text /\ Len(d \o type) = Len(d) + Len(type)
    BY <1>1, <1>2, Concat, Zenon
  <2>3. base \o (d \o type) \in Text /\ Len(base \o (d \o type)) = Len(base) + Len(d \o type)
    BY <1>1, <2>2, Concat, Zenon
  <2> QED BY <1>1, <1>2, <1>4, <2>1, <2>2, <2>3
<1> QED BY <1>3, <1>4

\* A name in front of what follows it, without a type and with one.
LEMMA ShortName ==
  ASSUME NEW base \in Text, NEW type, type = <<>>
  PROVE  NameText(base, type) = base
<1>1. base \o <<>> = base
  BY DEF Text
<1> QED BY <1>1 DEF NameText

LEMMA LongName ==
  ASSUME NEW base \in Text, NEW type \in Text, type # <<>>, NEW z \in Text
  PROVE  NameText(base, type) \o z = base \o (<<".">> \o (type \o z))
<1>1. PICK d : d \in Text /\ d = <<".">>
  BY Dot
<1>2. NameText(base, type) = base \o (d \o type)
  BY <1>1 DEF NameText
<1>3. d \in Text /\ d \o type \in Text
  BY <1>1, Concat, Zenon
<1>4. (base \o (d \o type)) \o z = base \o ((d \o type) \o z)
  BY ONLY <1>3, Regroup, Zenon
<1>5. (d \o type) \o z = d \o (type \o z)
  BY ONLY <1>3, Regroup, Zenon
<1> QED BY <1>1, <1>2, <1>4, <1>5, Zenon

Written(base, type, user) == NameText(base, type) \o (<<"[">> \o AreaEnd(user))
PathText(dest, base, type, user) == Drive(dest) \o Written(base, type, user)

\* The text of a path, and that it fits: 7 characters are a drive, a dot and the user area.
LEMMA PathShape ==
  ASSUME NEW base, NEW type, IsName(base, type), NEW user \in 0 .. LastUser,
         NEW dest \in Text
  PROVE  LET full == Drive(dest) \o NameText(base, type) \o <<"[">>
                     \o Decimal(user) \o <<"]">>
         IN  /\ full = PathText(dest, base, type, user)
             /\ Written(base, type, user) \in Text
             /\ Len(full) \in Nat /\ Len(full) <= BaseMax + TypeMax + 7
<1>1. Drive(dest) \in Text /\ Len(Drive(dest)) \in 0 .. 2
  BY DriveIs
<1>2. /\ NameText(base, type) \in Text
      /\ Len(NameText(base, type)) = Len(base) + (IF type = <<>> THEN 0 ELSE 1 + Len(type))
  BY NameShape, Dot
<1>3. /\ <<"[">> \in Text /\ Len(<<"[">>) = 1 /\ <<"]">> \in Text /\ Len(<<"]">>) = 1
  BY Dot
<1>4. Decimal(user) \in Text /\ Len(Decimal(user)) \in Nat /\ Len(Decimal(user)) <= 2
  BY AreaEndIs
<1>5. PICK D : D \in Text /\ D = Drive(dest)
  BY <1>1
<1>6. PICK N : N \in Text /\ N = NameText(base, type)
  BY <1>2
<1>7. PICK l : l \in Text /\ l = <<"[">>
  BY <1>3
<1>8. PICK u : u \in Text /\ u = Decimal(user)
  BY <1>4
<1>9. PICK r : r \in Text /\ r = <<"]">>
  BY <1>3
<1>10. /\ (((D \o N) \o l) \o u) \o r = D \o (N \o (l \o (u \o r)))
       /\ N \o (l \o (u \o r)) \in Text
       /\ Len(D \o (N \o (l \o (u \o r)))) = Len(D) + (Len(N) + (Len(l) + (Len(u) + Len(r))))
  <2>1. u \o r \in Text /\ Len(u \o r) = Len(u) + Len(r)
    BY <1>8, <1>9, Concat, Zenon
  <2>2. l \o (u \o r) \in Text /\ Len(l \o (u \o r)) = Len(l) + Len(u \o r)
    BY <1>7, <2>1, Concat, Zenon
  <2>3. /\ N \o (l \o (u \o r)) \in Text
        /\ Len(N \o (l \o (u \o r))) = Len(N) + Len(l \o (u \o r))
    BY <1>6, <2>2, Concat, Zenon
  <2>4. Len(D \o (N \o (l \o (u \o r)))) = Len(D) + Len(N \o (l \o (u \o r)))
    BY <1>5, <2>3, Concat, Zenon
  <2>5. D \o N \in Text
    BY <1>5, <1>6, Concat, Zenon
  <2>6. (D \o N) \o l \in Text
    BY <1>7, <2>5, Concat, Zenon
  <2>7. (((D \o N) \o l) \o u) \o r = ((D \o N) \o l) \o (u \o r)
    BY <1>8, <1>9, <2>6, Regroup, Zenon
  <2>8. ((D \o N) \o l) \o (u \o r) = (D \o N) \o (l \o (u \o r))
    BY <1>7, <2>1, <2>5, Regroup, Zenon
  <2>9. (D \o N) \o (l \o (u \o r)) = D \o (N \o (l \o (u \o r)))
    <3>1. PICK w : w \in Text /\ w = l \o (u \o r)
      BY <2>2, Zenon
    <3>2. D \in Text /\ N \in Text /\ w \in Text
      BY <1>5, <1>6, <3>1
    <3>3. (D \o N) \o w = D \o (N \o w)
      BY ONLY <3>2, Regroup, Zenon
    <3> QED BY <3>1, <3>3, Zenon
  <2> QED BY <2>1, <2>2, <2>3, <2>4, <2>7, <2>8, <2>9, Zenon
<1>11. /\ Len(D) \in 0 .. 2 /\ Len(l) = 1 /\ Len(r) = 1 /\ Len(u) \in Nat /\ Len(u) <= 2
       /\ Len(N) = Len(base) + (IF type = <<>> THEN 0 ELSE 1 + Len(type))
  BY <1>1, <1>2, <1>3, <1>4, <1>5, <1>6, <1>7, <1>8, <1>9, Zenon
<1>12. Len(N) \in Nat /\ Len(N) <= BaseMax + 1 + TypeMax /\ BaseMax \in Nat /\ TypeMax \in Nat
  <2>1. /\ BaseMax \in Nat /\ TypeMax \in Nat /\ Len(base) \in Nat /\ Len(type) \in Nat
        /\ Len(base) <= BaseMax /\ Len(type) <= TypeMax
    BY TargetAssumption DEF IsName
  <2> QED BY <1>11, <2>1
<1>13. LET m == Len(D \o (N \o (l \o (u \o r))))
       IN  m \in Nat /\ m <= BaseMax + TypeMax + 7
  <2>1. PICK a \in 0 .. 2 : a = Len(D)
    BY <1>11, Zenon
  <2>2. PICK b \in Nat : b = Len(N) /\ b <= BaseMax + 1 + TypeMax
    BY <1>12, Zenon
  <2>3. PICK c \in Nat : c = Len(u) /\ c <= 2
    BY <1>11, Zenon
  <2>4. Len(D \o (N \o (l \o (u \o r)))) = a + (b + (1 + (c + 1)))
    BY <1>10, <1>11, <2>1, <2>2, <2>3, Zenon
  <2>5. a + (b + (1 + (c + 1))) \in Nat /\ a + (b + (1 + (c + 1))) <= BaseMax + TypeMax + 7
    BY <1>12, <2>2, <2>3
  <2> QED BY <2>4, <2>5, Zenon
<1> QED BY <1>5, <1>6, <1>7, <1>8, <1>9, <1>10, <1>13, Zenon
       DEF AreaEnd, Written, PathText

\* The path is cut where it was joined.
LEMMA PathRead ==
  ASSUME NEW dest \in Text, NEW q \in Text,
         NEW base, NEW type, IsName(base, type), NEW user \in 0 .. LastUser,
         q = PathText(dest, base, type, user)
  PROVE  /\ Drive(q) = Drive(dest)
         /\ AfterDrive(q) = Written(base, type, user)
<1> DEFINE D == Drive(dest)
           z == NameText(base, type) \o (<<"[">> \o AreaEnd(user))
<1>1. AreaEnd(user) \in Text
  BY AreaEndIs
<1>2. z \in Text /\ z = Written(base, type, user)
  BY PathShape DEF Written
<1>3. q = D \o z /\ D \in Text
  BY DriveIs DEF PathText, Written
<1>4. CASE HasDrive(dest)
  <2>1. Len(D) = 2 /\ D[1] \in Alphas /\ Upper(D[1]) = D[1] /\ D[2] = ":"
    BY <1>4, DriveIs
  <2> HIDE DEF D, z
  <2>2. /\ Len(q) = Len(D) + Len(z) /\ Len(z) \in Nat
        /\ \A i \in 1 .. Len(D) + Len(z) : q[i] = IF i <= Len(D) THEN D[i] ELSE z[i - Len(D)]
    <3>1. /\ Len(D \o z) = Len(D) + Len(z) /\ Len(z) \in Nat
          /\ \A i \in 1 .. Len(D) + Len(z) :
               (D \o z)[i] = IF i <= Len(D) THEN D[i] ELSE z[i - Len(D)]
      BY <1>2, <1>3, Concat, Element, Zenon
    <3> QED BY <1>3, <3>1
  <2>3. Len(q) >= 2 /\ q[1] = D[1] /\ q[2] = D[2]
    BY <2>1, <2>2
  <2>4. HasDrive(q)
    BY <2>1, <2>3 DEF HasDrive
  <2>5. Drive(q) = <<D[1], ":">>
    BY <2>1, <2>3, <2>4 DEF Drive
  <2>6. D = <<D[1], ":">>
    <3>1. D = <<Upper(dest[1]), ":">>
      BY <1>4 DEF Drive, D
    <3> QED BY <3>1
  <2>7. Suffix(D \o z, Len(D)) = z
    BY <1>2, <1>3, CutJoined, Zenon
  <2>8. AfterDrive(q) = z
    BY <1>3, <2>1, <2>4, <2>7 DEF AfterDrive
  <2> QED BY <1>2, <2>5, <2>6, <2>8 DEF D
<1>5. CASE ~HasDrive(dest)
  <2>1. D = <<>>
    BY <1>5 DEF Drive
  <2>2. q = z
    <3> HIDE DEF z, D
    <3> QED BY <1>2, <1>3, <2>1 DEF Text
  <2> DEFINE c == IF type = <<>> THEN "[" ELSE "."
             y == IF type = <<>> THEN AreaEnd(user) ELSE type \o (<<"[">> \o AreaEnd(user))
  <2>3. z = base \o (<<c>> \o y)
    <3>1. base \in Text /\ type \in Text
      BY NameShape
    <3>2. <<"[">> \o AreaEnd(user) \in Text
      BY <1>1, Mark, Zenon
    <3>3. CASE type = <<>>
      BY <3>1, <3>3, ShortName DEF z
    <3>4. CASE type # <<>>
      <4>1. PICK w : w \in Text /\ w = <<"[">> \o AreaEnd(user)
        BY <3>2, Zenon
      <4>2. w \in Text
        BY <4>1
      <4>3. NameText(base, type) \o w = base \o (<<".">> \o (type \o w))
        BY ONLY <3>1, <3>4, <4>2, LongName, Zenon
      <4> QED BY <3>4, <4>1, <4>3, Zenon DEF c, y, z
    <3> QED BY <3>3, <3>4
  <2>4. y \in Text
    <3>1. type \in Text /\ <<"[">> \in Text
      BY <1>1, NameShape, Dot
    <3>2. <<"[">> \o AreaEnd(user) \in Text
      BY <1>1, <3>1, Concat
    <3>3. type \o (<<"[">> \o AreaEnd(user)) \in Text
      BY <3>1, <3>2, Concat, Zenon
    <3> QED BY <1>1, <3>3
  <2>5. c \in {".", "["}
    OBVIOUS
  <2>6. base \in Seq(Uppers) /\ Len(base) \in Nat /\ Len(base) >= 1
    BY TargetAssumption DEF IsName
  <2> HIDE DEF D, z, c, y
  <2>8. First(q, Len(base)) = base /\ q[Len(base) + 1] = c /\ Len(base) < Len(q)
        /\ Len(q) \in Nat
    <3>1. PICK b : b \in Text /\ b = <<c>> \o y /\ Len(b) >= 1 /\ b[1] = c
      BY <2>4, <2>5, Mark, Zenon
    <3>2. q = base \o b
      BY <2>2, <2>3, <3>1
    <3>3. base \in Seq(Uppers) /\ Stops(b, {".", "["})
      BY <2>5, <2>6, <3>1 DEF Stops
    <3>4. ReadsTo(q, {".", "["}, base, b)
      <4>1. ReadsTo(base \o b, {".", "["}, base, b)
        BY ONLY <3>3, ReadsUpTo, Zenon
      <4> QED BY <3>2, <4>1, Zenon
    <3> QED BY <3>1, <3>4 DEF ReadsTo
  <2>9. q[2] # ":"
    <3>1. CASE Len(base) = 1
      BY <2>5, <2>8, <3>1
    <3>2. CASE Len(base) # 1
      <4>1. Len(base) \in 0 .. Len(q) /\ 2 \in 1 .. Len(base)
        <5>1. PICK a : a = Len(base) /\ a \in Nat /\ a >= 1 /\ a # 1
          BY <2>6, <3>2, Zenon
        <5>2. PICK m : m = Len(q) /\ m \in Nat /\ a < m
          BY <2>8, <5>1, Zenon
        <5>3. a \in 0 .. m /\ 2 \in 1 .. a
          BY <5>1, <5>2
        <5> QED BY <5>1, <5>2, <5>3, Zenon
      <4>2. base[2] = q[2]
        <5>1. \A i \in 1 .. Len(base) : First(q, Len(base))[i] = q[i]
          BY <4>1, Ends
        <5> QED BY <2>8, <4>1, <5>1
      <4>3. base[2] \in FileChars
        BY <2>6, <4>1 DEF Uppers
      <4> QED BY <4>2, <4>3, Characters
    <3> QED BY <3>1, <3>2
  <2>10. ~HasDrive(q)
    BY <2>9 DEF HasDrive
  <2>11. Drive(q) = <<>> /\ AfterDrive(q) = q
    BY <2>10 DEF Drive, AfterDrive
  <2> QED BY <1>2, <2>1, <2>2, <2>11 DEF D
<1> QED BY <1>2, <1>4, <1>5

\* parse_target finds in a path what paket_make_target_path meant by it.
Readable(s, n, rest, k, tail, area) ==
  /\ n \in 1 .. BaseMax /\ n < Len(s) /\ s[n + 1] = "."
  /\ k \in 1 .. TypeMax /\ k < Len(rest)
  /\ area # <<>> /\ Value(area) <= LastUser /\ tail = area \o <<"]">>

ReadsBack(s, base, type, user) ==
  LET n    == Span(s, Range(s) \ {".", "["})
      rest == Suffix(s, n + 1)
      k    == Span(rest, Range(rest) \ {"["})
      tail == Suffix(rest, k + 1)
      area == First(tail, Span(tail, Digits))
  IN  IF type = <<>> THEN ~Readable(s, n, rest, k, tail, area)
      ELSE /\ Readable(s, n, rest, k, tail, area)
           /\ Uppercase(First(s, n)) = base /\ Uppercase(First(rest, k)) = type
           /\ Value(area) = user

LEMMA ReadBack ==
  ASSUME NEW base, NEW type, IsName(base, type), NEW user \in 0 .. LastUser, NEW s,
         s = Written(base, type, user)
  PROVE  ReadsBack(s, base, type, user)
<1> DEFINE n    == Span(s, Range(s) \ {".", "["})
           rest == Suffix(s, n + 1)
           k    == Span(rest, Range(rest) \ {"["})
           tail == Suffix(rest, k + 1)
           area == First(tail, Span(tail, Digits))
<1>1. PICK b : b = AreaEnd(user)
  OBVIOUS
<1>2. /\ b \in Text /\ First(b, Span(b, Digits)) = Decimal(user) /\ Decimal(user) # <<>>
      /\ Value(Decimal(user)) = user /\ user <= LastUser /\ b = Decimal(user) \o <<"]">>
  BY <1>1, AreaEndIs, Zenon DEF AreaEnd
<1>3. PICK m : /\ m \in Text /\ m = <<"[">> \o b /\ Len(m) >= 1 /\ m[1] = "["
               /\ Suffix(m, 1) = b
  BY <1>2, Mark, Zenon
<1>4. /\ base \in Seq(Uppers) /\ type \in Seq(Uppers) /\ base \in Text /\ type \in Text
      /\ Len(base) \in 1 .. BaseMax /\ Len(type) \in 0 .. TypeMax
  BY NameShape DEF IsName
<1>5. s = NameText(base, type) \o m
  BY <1>1, <1>3 DEF Written
<1>7. CASE type = <<>>
  <2>1. s = base \o m
    BY <1>4, <1>5, <1>7, ShortName, Zenon
  <2>2. Stops(m, {".", "["})
    BY <1>3 DEF Stops
  <2>3. ReadsTo(base \o m, {".", "["}, base, m)
    BY ONLY <1>4, <2>2, ReadsUpTo, Zenon
  <2>4. n = Len(base) /\ s[Len(base) + 1] = "["
    BY <1>3, <2>1, <2>3, Zenon DEF ReadsTo
  <2> HIDE DEF n, rest, k, tail, area
  <2>5. ~Readable(s, n, rest, k, tail, area)
    BY <2>4 DEF Readable
  <2> QED BY <1>7, <2>5, Zenon DEF ReadsBack, n, rest, k, tail, area
<1>8. CASE type # <<>>
  <2>1. PICK y : y \in Text /\ y = type \o m
    BY <1>3, <1>4, Concat, Zenon
  <2>2. PICK w : /\ w \in Text /\ w = <<".">> \o y /\ Len(w) >= 1 /\ w[1] = "."
                 /\ Suffix(w, 1) = y
    BY <2>1, Mark, Zenon
  <2>3. s = base \o w
    <3>1. m \in Text
      BY <1>3
    <3>2. NameText(base, type) \o m = base \o (<<".">> \o (type \o m))
      BY ONLY <1>4, <1>8, <3>1, LongName, Zenon
    <3> QED BY <1>5, <2>1, <2>2, <3>2, Zenon
  <2>4. Stops(m, {"["}) /\ Stops(w, {".", "["})
    BY <1>3, <2>2 DEF Stops
  <2>5. ReadsTo(y, {"["}, type, m)
    <3>1. ReadsTo(type \o m, {"["}, type, m)
      BY ONLY <1>4, <2>4, ReadsUpTo, Zenon
    <3> QED BY <2>1, <3>1, Zenon
  <2>6. /\ Len(y) \in Nat /\ Len(type) \in Nat /\ Len(type) < Len(y)
        /\ Span(y, Range(y) \ {"["}) = Len(type)
        /\ First(y, Len(type)) = type /\ Suffix(y, Len(type) + 1) = b
    BY <1>3, <2>5, Zenon DEF ReadsTo
  <2>7. /\ Len(base) < Len(s) /\ Span(s, Range(s) \ {".", "["}) = Len(base)
        /\ First(s, Len(base)) = base
        /\ s[Len(base) + 1] = "." /\ Suffix(s, Len(base) + 1) = y
    <3>1. ReadsTo(base \o w, {".", "["}, base, w)
      BY ONLY <1>4, <2>4, ReadsUpTo, Zenon
    <3> QED BY <2>2, <2>3, <3>1, Zenon DEF ReadsTo
  <2>8. n = Len(base)
    BY <2>7, Zenon
  <2>9. rest = y
    BY <2>2, <2>7, <2>8, Zenon
  <2>10. k = Len(type)
    BY <2>6, <2>9, Zenon
  <2>11. tail = b
    BY <1>3, <2>6, <2>9, <2>10, Zenon
  <2>12. area = Decimal(user)
    BY <1>2, <2>11, Zenon
  <2> HIDE DEF n, rest, k, tail, area
  <2>13. Len(type) \in 1 .. TypeMax
    <3>1. Len(type) # 0
      BY <1>4, <1>8
    <3> QED BY <1>4, <3>1
  <2>14. Readable(s, n, rest, k, tail, area)
    BY <1>2, <1>4, <2>2, <2>6, <2>7, <2>8, <2>9, <2>10, <2>11, <2>12, <2>13, Zenon DEF Readable
  <2>15. Uppercase(base) = base /\ Uppercase(type) = type
    BY <1>4, StaysUpper
  <2> QED BY <1>2, <1>8, <2>6, <2>7, <2>8, <2>9, <2>10, <2>12, <2>14, <2>15, Zenon
          DEF ReadsBack, n, rest, k, tail, area
<1> QED BY <1>7, <1>8, Zenon

-----------------------------------------------------------------------------
(* The invariant: a path that is named says what was asked for.            *)

Asked(dest, base, type, user) ==
  /\ IsName(base, type) /\ user \in 0 .. LastUser
  /\ \E i \in 0 .. Len(dest) : \E j \in i .. Len(dest) :
       LET file == Suffix(dest, j)
       IN  /\ Uppercase(First(dest, i)) = Drive(dest)
           /\ NamesArea(SubSeq(dest, i + 1, j), file, user)
           /\ file = <<>> \/ Uppercase(file) = NameText(base, type)

TargetInv ==
  /\ destination \in Text /\ package \in Text /\ format \in Text
  /\ stage = "named" => \E base, type, user : /\ Asked(destination, base, type, user)
                                              /\ path = PathText(destination, base, type, user)
                                              /\ Documented => type # <<>>
  /\ LandsWhereAsked /\ DocumentedAccepted

\* The front of the rest is a piece out of the middle.
LEMMA FirstOfSuffix ==
  ASSUME NEW s \in Text, NEW i \in 0 .. Len(s), NEW k \in 0 .. Len(s) - i
  PROVE  First(Suffix(s, i), k) = SubSeq(s, i + 1, i + k)
<1> DEFINE h == Suffix(s, i)
           f == First(h, k)
           m == SubSeq(s, i + 1, i + k)
<1>1. Len(s) \in Nat
  BY Element
<1>2. h \in Text /\ Len(h) = Len(s) - i /\ \A n \in 1 .. Len(s) - i : h[n] = s[i + n]
  BY Ends
<1> HIDE DEF h
<1>3. f \in Text /\ Len(f) = k /\ \A n \in 1 .. k : f[n] = h[n]
  BY <1>2, Ends
<1> HIDE DEF f
<1>4. m \in Text /\ Len(m) = k /\ \A n \in 1 .. k : m[n] = s[(i + 1) + n - 1]
  <2>1. /\ i + 1 \in Nat \ {0} /\ i + k \in Nat /\ i + 1 <= (i + k) + 1 /\ i + k <= Len(s)
        /\ (i + k) - (i + 1) + 1 = k
    BY <1>1
  <2>2. /\ m \in Text /\ Len(m) = (i + k) - (i + 1) + 1
        /\ \A n \in 1 .. (i + k) - (i + 1) + 1 : m[n] = s[(i + 1) + n - 1]
    BY <2>1, Middle
  <2> QED BY <2>1, <2>2
<1> HIDE DEF m
<1>5. \A n \in 1 .. k : f[n] = m[n]
  <2>1. ASSUME NEW n \in 1 .. k PROVE f[n] = m[n]
    <3>1. n \in 1 .. Len(s) - i /\ (i + 1) + n - 1 = i + n
      BY <1>1
    <3>2. f[n] = h[n] /\ h[n] = s[i + n] /\ m[n] = s[(i + 1) + n - 1]
      BY <1>2, <1>3, <1>4, <3>1
    <3> QED BY <3>1, <3>2
  <2> QED BY <2>1
<1>6. f = m
  BY <1>3, <1>4, <1>5, Same
<1> QED BY <1>6 DEF f, h, m

\* What is left of a destination behind its drive.
LEMMA Undriven ==
  ASSUME NEW dest \in Text
  PROVE  \E i \in 0 .. Len(dest) : /\ AfterDrive(dest) = Suffix(dest, i)
                                   /\ AfterDrive(dest) \in Text
                                   /\ Len(AfterDrive(dest)) = Len(dest) - i
                                   /\ Uppercase(First(dest, i)) = Drive(dest)
<1> DEFINE i == IF HasDrive(dest) THEN 2 ELSE 0
<1>1. i \in 0 .. Len(dest) /\ AfterDrive(dest) = Suffix(dest, i)
      /\ Uppercase(First(dest, i)) = Drive(dest)
  BY DriveIs
<1> HIDE DEF i
<1>2. Suffix(dest, i) \in Text /\ Len(Suffix(dest, i)) = Len(dest) - i
  BY <1>1, Ends
<1> QED BY <1>1, <1>2

\* A name and a place that were accepted were asked for.
LEMMA AskedFor ==
  ASSUME NEW dest \in Text, NEW base, NEW type, IsName(base, type), NEW place,
         place = Place(AfterDrive(dest)), place.valid,
         place.file = <<>> \/ Uppercase(place.file) = NameText(base, type)
  PROVE  Asked(dest, base, type, place.user)
<1>1. PICK i \in 0 .. Len(dest) : /\ AfterDrive(dest) = Suffix(dest, i)
                                  /\ AfterDrive(dest) \in Text
                                  /\ Len(AfterDrive(dest)) = Len(dest) - i
                                  /\ Uppercase(First(dest, i)) = Drive(dest)
  BY Undriven
<1>2. PICK s \in Text : s = AfterDrive(dest) /\ s = Suffix(dest, i) /\ Len(s) = Len(dest) - i
  BY <1>1
<1>3. /\ place.user \in 0 .. LastUser
      /\ \E k \in 0 .. Len(s) : /\ place.file = Suffix(s, k)
                                /\ NamesArea(First(s, k), place.file, place.user)
  BY <1>2, PlaceIs
<1>4. PICK k \in 0 .. Len(s) : /\ place.file = Suffix(s, k)
                               /\ NamesArea(First(s, k), place.file, place.user)
  BY <1>3
<1>5. /\ Len(dest) \in Nat /\ i \in Nat /\ k \in Nat /\ i + k <= Len(dest)
      /\ k \in 0 .. Len(dest) - i /\ i + k \in i .. Len(dest)
  BY <1>2, Element
<1>6. Suffix(s, k) = Suffix(dest, i + k)
  BY <1>2, <1>5, SuffixTwice
<1>7. First(s, k) = SubSeq(dest, i + 1, i + k)
  BY <1>2, <1>5, FirstOfSuffix
<1>8. /\ Uppercase(First(dest, i)) = Drive(dest)
      /\ NamesArea(SubSeq(dest, i + 1, i + k), Suffix(dest, i + k), place.user)
      /\ Suffix(dest, i + k) = <<>> \/ Uppercase(Suffix(dest, i + k)) = NameText(base, type)
  BY <1>1, <1>4, <1>6, <1>7
<1> QED BY <1>3, <1>5, <1>8 DEF Asked

\* What is documented names a place, and a full name if any.
LEMMA DocumentedPlace ==
  ASSUME NEW dest \in Text, dest = destination, Documented
  PROVE  LET place == Place(AfterDrive(dest))
         IN  dest # <<>> /\ place.valid /\ (place.file = <<>> \/ FullName(place.file))
<1>1. PICK i \in 0 .. Len(dest) : AfterDrive(dest) \in Text /\ Len(AfterDrive(dest)) = Len(dest) - i
  BY Undriven
<1>2. PICK s \in Text : s = AfterDrive(dest) /\ Len(s) = Len(dest) - i
  BY <1>1
<1>3. PICK area \in {<<"/">>} \cup {<<"/">> \o Decimal(u) \o <<"/">> : u \in 0 .. LastUser} :
        /\ First(s, Len(area)) = area
        /\ \/ Suffix(s, Len(area)) = <<>>
           \/ FullName(Suffix(s, Len(area))) /\ (Suffix(s, Len(area))[1] \in Digits => Len(area) > 1)
  BY <1>2 DEF Documented
<1>4. Place(s).valid /\ (Place(s).file = <<>> \/ FullName(Place(s).file)) /\ s # <<>>
  <2>1. CASE area = <<"/">>
    <3>1. Len(area) = 1 /\ area # <<>>
      BY <2>1
    <3>2. /\ First(s, 1) = <<"/">>
          /\ \/ Suffix(s, 1) = <<>>
             \/ FullName(Suffix(s, 1)) /\ Suffix(s, 1)[1] \notin Digits
      <4>1. /\ First(s, 1) = area
            /\ \/ Suffix(s, 1) = <<>>
               \/ FullName(Suffix(s, 1)) /\ (Suffix(s, 1)[1] \in Digits => 1 > 1)
        BY <1>3, <3>1, Zenon
      <4> QED BY <2>1, <4>1
    <3>3. Place(s) = [valid |-> TRUE, user |-> 0, file |-> Suffix(s, 1)]
      BY <3>2, RootPlace
    <3>4. s # <<>>
      <4>1. First(<<>>, 1) = <<>>
        BY DEF First
      <4> QED BY <3>1, <3>2, <2>1, <4>1
    <3> QED BY <3>2, <3>3, <3>4
  <2>2. CASE area # <<"/">>
    <3>1. PICK u \in 0 .. LastUser : area = <<"/">> \o Decimal(u) \o <<"/">>
      BY <1>3, <2>2
    <3>2. s # <<>> /\ Place(s) = [valid |-> TRUE, user |-> u, file |-> Suffix(s, Len(area))]
      BY <1>3, <3>1, AreaPlace
    <3> QED BY <1>3, <3>2
  <2> QED BY <2>1, <2>2
<1>5. dest # <<>>
  <2>1. SUFFICES ASSUME dest = <<>> PROVE FALSE
    OBVIOUS
  <2>2. Len(s) = 0
    BY <1>1, <1>2, <2>1
  <2> QED BY <1>4, <2>2 DEF Text
<1> QED BY <1>2, <1>4, <1>5

\* The name that is taken is a name, and the one that was typed if one was.
LEMMA NameTaken ==
  ASSUME NEW dest \in Text, dest = destination, package \in Text, format \in Text,
         NEW place, place = Place(AfterDrive(dest)), place.file \in Text,
         NEW name, name.valid,
         name = IF place.file = <<>> THEN [valid |-> TRUE, text |-> SuggestedName]
                ELSE ExplicitName(place.file)
  PROVE  \E base, type : /\ IsName(base, type) /\ name.text = NameText(base, type)
                         /\ place.file = <<>> \/ Uppercase(place.file) = NameText(base, type)
                         /\ Documented => type # <<>>
<1>1. CASE place.file = <<>>
  <2>1. PICK base, type : /\ IsName(base, type) /\ type # <<>>
                          /\ SuggestedName = NameText(base, type)
    BY Suggested
  <2> QED BY <1>1, <2>1
<1>2. CASE place.file # <<>>
  <2>1. PICK f \in Text : f = place.file
    OBVIOUS
  <2>2. ExplicitName(f).valid /\ name.text = Uppercase(f)
    BY <1>2, <2>1 DEF ExplicitName
  <2>3. PICK base, type : /\ IsName(base, type)
                          /\ Uppercase(f) = NameText(base, type)
                          /\ type = <<>> => \A i \in 1 .. Len(f) : f[i] # "."
    BY <2>2, Explicit
  <2>4. Documented => \E i \in 1 .. Len(f) : f[i] = "."
    <3>1. SUFFICES ASSUME Documented PROVE \E i \in 1 .. Len(f) : f[i] = "."
      OBVIOUS
    <3>2. FullName(f)
      BY <1>2, <2>1, <3>1, DocumentedPlace
    <3> QED BY <3>2, FullNameValid
  <2> QED BY <2>1, <2>2, <2>3, <2>4
<1> QED BY <1>1, <1>2

\* Where the target path is made: what is taken was asked for.
LEMMA MakeStep == ASSUME TargetInv, MakeTargetPath PROVE TargetInv'
<1>1. PICK dest \in Text : dest = destination
  BY DEF TargetInv
<1>2. PICK place : place = Place(AfterDrive(dest))
  OBVIOUS
<1>3. PICK name : name = IF place.file = <<>> THEN [valid |-> TRUE, text |-> SuggestedName]
                         ELSE ExplicitName(place.file)
  OBVIOUS
<1>4. PICK full : full = Drive(dest) \o name.text \o <<"[">> \o Decimal(place.user) \o <<"]">>
  OBVIOUS
<1>5. /\ UNCHANGED <<destination, package, format>>
      /\ IF dest # <<>> /\ place.valid /\ name.valid /\ Len(full) < TargetSize
         THEN stage' = "named" /\ path' = full
         ELSE stage' = "refused"
  BY <1>1, <1>2, <1>3, <1>4 DEF MakeTargetPath, inputVars
<1>6. /\ package \in Text /\ format \in Text
      /\ destination' \in Text /\ package' \in Text /\ format' \in Text
  BY <1>5 DEF TargetInv
<1>7. Documented' <=> Documented
  BY <1>5 DEF Documented
<1>8. stage' # "parsed"
  BY <1>5
<1>9. ASSUME place.valid, name.valid
      PROVE  \E base, type : /\ Asked(dest, base, type, place.user)
                             /\ full = PathText(dest, base, type, place.user)
                             /\ Len(full) < TargetSize
                             /\ Documented => type # <<>>
  <2>1. place.file \in Text
    <3>1. PICK i \in 0 .. Len(dest) : AfterDrive(dest) \in Text
      BY Undriven
    <3>2. PICK s \in Text : s = AfterDrive(dest)
      BY <3>1
    <3>3. \E k \in 0 .. Len(s) : place.file = Suffix(s, k)
      BY <1>2, <1>9, <3>2, PlaceIs
    <3> QED BY <3>3, Ends
  <2>2. PICK base, type : /\ IsName(base, type) /\ name.text = NameText(base, type)
                          /\ place.file = <<>> \/ Uppercase(place.file) = NameText(base, type)
                          /\ Documented => type # <<>>
    BY <1>1, <1>2, <1>3, <1>6, <1>9, <2>1, NameTaken
  <2>3. Asked(dest, base, type, place.user)
    BY <1>2, <1>9, <2>2, AskedFor
  <2>4. place.user \in 0 .. LastUser
    BY <2>3 DEF Asked
  <2>5. PICK user \in 0 .. LastUser : user = place.user
    BY <2>4
  <2>6. full = Drive(dest) \o NameText(base, type) \o <<"[">> \o Decimal(user) \o <<"]">>
    BY <1>4, <2>2, <2>5
  <2>7. /\ full = PathText(dest, base, type, user)
        /\ Len(full) \in Nat /\ Len(full) <= BaseMax + TypeMax + 7
    BY <2>2, <2>6, PathShape, Zenon DEF PathText
  <2>8. Len(full) < TargetSize
    BY <2>7, TargetAssumption
  <2> QED BY <2>2, <2>3, <2>5, <2>7, <2>8
<1>10. ASSUME Documented PROVE dest # <<>> /\ place.valid /\ name.valid
  <2>1. dest # <<>> /\ place.valid /\ (place.file = <<>> \/ FullName(place.file))
    BY <1>1, <1>2, <1>10, DocumentedPlace
  <2>2. name.valid
    <3>1. CASE place.file = <<>>
      BY <1>3, <3>1
    <3>2. CASE place.file # <<>>
      <4>1. place.file \in Text
        <5>1. PICK i \in 0 .. Len(dest) : AfterDrive(dest) \in Text
          BY Undriven
        <5>2. PICK s \in Text : s = AfterDrive(dest)
          BY <5>1
        <5>3. \E k \in 0 .. Len(s) : place.file = Suffix(s, k)
          BY <1>2, <2>1, <5>2, PlaceIs
        <5> QED BY <5>3, Ends
      <4>2. ExplicitName(place.file).valid
        BY <2>1, <3>2, <4>1, FullNameValid
      <4> QED BY <1>3, <3>2, <4>2
    <3> QED BY <3>1, <3>2
  <2> QED BY <2>1, <2>2
<1>11. stage' = "named" => \E base, type, user :
         /\ Asked(destination, base, type, user)'
         /\ path' = PathText(destination, base, type, user)'
         /\ Documented' => type # <<>>
  <2>1. SUFFICES ASSUME stage' = "named"
                 PROVE  \E base, type, user : /\ Asked(dest, base, type, user)
                                              /\ path' = PathText(dest, base, type, user)
                                              /\ Documented => type # <<>>
    BY <1>1, <1>5, <1>7
  <2>2. place.valid /\ name.valid /\ path' = full
    BY <1>5, <2>1
  <2> QED BY <1>9, <2>2
<1>12. LandsWhereAsked'
  BY <1>8 DEF LandsWhereAsked, Parsed
<1>13. DocumentedAccepted'
  <2>1. SUFFICES ASSUME Documented PROVE stage' \notin {"refused", "unreadable"}
    BY <1>7 DEF DocumentedAccepted
  <2>2. dest # <<>> /\ place.valid /\ name.valid
    BY <1>10, <2>1
  <2>3. Len(full) < TargetSize
    BY <1>9, <2>2
  <2> QED BY <1>5, <2>2, <2>3
<1> QED BY <1>6, <1>11, <1>12, <1>13 DEF TargetInv

LandsAs(dest, base, type, user) ==
  /\ Len(base) \in 1 .. BaseMax /\ Len(type) \in 1 .. TypeMax
  /\ Range(base) \cup Range(type) \subseteq FileChars
  /\ \E i \in 0 .. Len(dest) : \E j \in i .. Len(dest) :
       LET file == Suffix(dest, j)
       IN  /\ Uppercase(First(dest, i)) = Drive(dest)
           /\ NamesArea(SubSeq(dest, i + 1, j), file, user)
           /\ file = <<>> \/ Uppercase(file) = base \o <<".">> \o type

\* What was asked for and has a type is where LandsWhereAsked wants it.
LEMMA Landed ==
  ASSUME NEW dest, NEW base, NEW type, NEW user, Asked(dest, base, type, user), type # <<>>
  PROVE  LandsAs(dest, base, type, user)
<1>1. IsName(base, type)
  BY DEF Asked
<1>2. /\ base \in Seq(Uppers) /\ type \in Seq(Uppers)
      /\ Len(base) \in 1 .. BaseMax /\ Len(type) \in 0 .. TypeMax
  BY <1>1 DEF IsName
<1>3. Len(type) \in 1 .. TypeMax
  <2>1. Len(type) # 0
    BY <1>2
  <2> QED BY <1>2, <2>1
<1>4. Range(base) \cup Range(type) \subseteq FileChars
  BY <1>2 DEF Range, Uppers
<1>5. NameText(base, type) = base \o <<".">> \o type
  <2>1. PICK d : d \in Text /\ d = <<".">>
    BY Dot
  <2>2. base \in Text /\ d \in Text /\ type \in Text
    BY <1>1, <2>1, NameShape
  <2>3. (base \o d) \o type = base \o (d \o type)
    BY ONLY <2>2, Regroup, Zenon
  <2> QED BY <2>1, <2>3 DEF NameText
<1> QED BY <1>2, <1>3, <1>4, <1>5 DEF Asked, LandsAs

\* Where the path is read: what is found is what was asked for.
LEMMA ParseStep == ASSUME TargetInv, ParseTarget PROVE TargetInv'
<1>1. PICK dest \in Text : dest = destination
  BY DEF TargetInv
<1>2. PICK q : q = path
  OBVIOUS
<1>3. PICK base, type, user : /\ Asked(dest, base, type, user)
                              /\ q = PathText(dest, base, type, user)
                              /\ Documented => type # <<>>
  BY <1>1, <1>2 DEF TargetInv, ParseTarget
<1>4. IsName(base, type) /\ user \in 0 .. LastUser
  BY <1>3 DEF Asked
<1>5. PICK z : z = Written(base, type, user)
  OBVIOUS
<1>6. z \in Text
  BY <1>1, <1>4, <1>5, PathShape
<1>7. q \in Text
  <2>1. PICK d : d \in Text /\ d = Drive(dest)
    BY <1>1, DriveIs
  <2>2. d \o z \in Text
    BY <1>6, <2>1, Concat
  <2> QED BY <1>3, <1>5, <2>1, <2>2 DEF PathText
<1>8. Drive(q) = Drive(dest) /\ AfterDrive(q) = z
  <2>1. Drive(q) = Drive(dest) /\ AfterDrive(q) = Written(base, type, user)
    BY <1>3, <1>4, <1>7, PathRead
  <2> QED BY <1>5, <2>1
<1> DEFINE n    == Span(z, Range(z) \ {".", "["})
           rest == Suffix(z, n + 1)
           k    == Span(rest, Range(rest) \ {"["})
           tail == Suffix(rest, k + 1)
           area == First(tail, Span(tail, Digits))
<1>9. /\ UNCHANGED <<destination, package, format>>
      /\ IF Readable(z, n, rest, k, tail, area)
         THEN /\ stage' = "parsed"
              /\ fcb' = [drive |-> Drive(dest), base |-> Uppercase(First(z, n)),
                         type |-> Uppercase(First(rest, k)), user |-> Value(area)]
         ELSE stage' = "unreadable"
  BY <1>2, <1>8, Zenon DEF ParseTarget, Readable, inputVars
<1>10. IF type = <<>> THEN ~Readable(z, n, rest, k, tail, area)
       ELSE /\ Readable(z, n, rest, k, tail, area)
            /\ Uppercase(First(z, n)) = base /\ Uppercase(First(rest, k)) = type
            /\ Value(area) = user
  <2>1. ReadsBack(z, base, type, user)
    BY <1>4, <1>5, ReadBack
  <2> QED BY <2>1, Zenon DEF ReadsBack
<1> HIDE DEF n, rest, k, tail, area
<1>11. IF type = <<>> THEN stage' = "unreadable"
       ELSE /\ stage' = "parsed"
            /\ fcb' = [drive |-> Drive(dest), base |-> base, type |-> type, user |-> user]
  BY <1>9, <1>10
<1>12. destination' = dest /\ package' \in Text /\ format' \in Text
  BY <1>1, <1>9 DEF TargetInv
<1>13. Documented' <=> Documented
  BY <1>9 DEF Documented
<1>14. stage' # "named"
  BY <1>11
<1>15. DocumentedAccepted'
  BY <1>3, <1>11, <1>13 DEF DocumentedAccepted
<1>16. LandsWhereAsked'
  <2>1. CASE type = <<>>
    BY <1>11, <2>1 DEF LandsWhereAsked, Parsed
  <2>2. CASE type # <<>>
    <3>1. /\ fcb'.drive = Drive(dest) /\ fcb'.base = base /\ fcb'.type = type
          /\ fcb'.user = user
      BY <1>11, <2>2
    <3>2. LandsAs(dest, base, type, user)
      BY <1>3, <2>2, Landed
    <3>3. fcb'.base = base /\ fcb'.type = type /\ fcb'.drive = Drive(dest) /\ fcb'.user = user
      BY <3>1
    <3> QED BY <1>12, <3>2, <3>3, Zenon DEF LandsAs, LandsWhereAsked
  <2> QED BY <2>1, <2>2
<1> QED BY <1>12, <1>14, <1>15, <1>16 DEF TargetInv

\* TargetInv is inductive.
LEMMA TargetBegins == CommandInit => TargetInv
<1> SUFFICES ASSUME CommandInit PROVE TargetInv
  OBVIOUS
<1>1. stage = "start"
  BY DEF CommandInit, TargetInit, NoTarget
<1>2. destination \in Text /\ package \in Text /\ format \in Text
  <2>1. <<>> \in Text
    BY DEF Text
  <2>2. Destinations \subseteq Text /\ Packages \subseteq Text /\ Formats \subseteq Text
    BY TypedText DEF Typed
  <2> QED BY <2>1, <2>2 DEF CommandInit, TargetInit, NoTarget
<1> QED BY <1>1, <1>2 DEF TargetInv, LandsWhereAsked, DocumentedAccepted, Parsed

LEMMA TargetKept == ASSUME TargetInv, [CommandNext]_commandVars PROVE TargetInv'
<1>1. CASE UNCHANGED targetVars
  <2>1. UNCHANGED <<destination, package, format, stage, path, fcb>>
    BY <1>1 DEF targetVars, inputVars
  <2>2. Documented' <=> Documented
    BY <2>1 DEF Documented
  <2>3. LandsWhereAsked'
    BY <2>1 DEF TargetInv, LandsWhereAsked, Parsed
  <2>4. DocumentedAccepted'
    BY <2>1, <2>2 DEF TargetInv, DocumentedAccepted
  <2>5. destination' \in Text /\ package' \in Text /\ format' \in Text
    BY <2>1 DEF TargetInv
  <2>6. stage' = "named" => \E base, type, user :
          /\ Asked(destination, base, type, user)'
          /\ path' = PathText(destination, base, type, user)'
          /\ Documented' => type # <<>>
    BY <2>1, <2>2 DEF TargetInv
  <2> QED BY <2>3, <2>4, <2>5, <2>6 DEF TargetInv
<1>2. CASE TargetNext
  BY <1>2, MakeStep, ParseStep DEF TargetNext
<1> QED BY <1>1, <1>2 DEF CommandNext, Match, Target, Parse, commandVars

\* For every destination, package and format, and every limit that holds a name:
\* the FCB that parse_target fills in names the drive, the user area and the file
\* that paket_make_target_path was asked for.
THEOREM TargetIsAsTyped == CommandSpec => []LandsWhereAsked
<1>1. TargetInv => LandsWhereAsked
  BY DEF TargetInv
<1> QED BY <1>1, TargetBegins, TargetKept, PTL DEF CommandSpec

\* And neither of the two refuses a destination that README.md documents.
THEOREM DocumentedTargets == CommandSpec => []DocumentedAccepted
<1>1. TargetInv => DocumentedAccepted
  BY DEF TargetInv
<1> QED BY <1>1, TargetBegins, TargetKept, PTL DEF CommandSpec
=============================================================================
