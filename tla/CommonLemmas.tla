---------------------------- MODULE CommonLemmas ----------------------------
(***************************************************************************)
(* Lemmas that several of the proofs need: how a subsequence grows, one    *)
(* position at a time, from the left; and recursion on numbers.            *)
(***************************************************************************)
EXTENDS Subsequence, FiniteSetTheorems, WellFoundedInduction, TLAPS

LEMMA SomePositions ==
  ASSUME NEW n \in Nat, NEW S \in SUBSET (1 .. n)
  PROVE  IsFiniteSet(S) /\ Cardinality(S) \in 0 .. n
<1>1. IsFiniteSet(1 .. n) /\ Cardinality(1 .. n) = n
  BY FS_Interval
<1>2. IsFiniteSet(S) /\ Cardinality(S) <= Cardinality(1 .. n)
  BY <1>1, FS_Subset
<1> QED BY <1>1, <1>2, FS_CardinalityType

\* The next position is the last so far, and the places of the others stay.
LEMMA NextPosition ==
  ASSUME NEW n \in Nat, NEW S \in SUBSET (1 .. n)
  PROVE  LET T == S \cup {n + 1}
         IN  /\ Cardinality(T) = Cardinality(S) + 1
             /\ PlaceIn(T, n + 1) = Cardinality(S) + 1
             /\ \A i \in S : PlaceIn(T, i) = PlaceIn(S, i) /\ PlaceIn(S, i) \in 1 .. Cardinality(S)
<1> DEFINE T == S \cup {n + 1}
<1>1. IsFiniteSet(S) /\ Cardinality(S) \in 0 .. n
  BY SomePositions
<1>2. n + 1 \notin S
  OBVIOUS
<1>3. Cardinality(T) = Cardinality(S) + 1
  BY <1>1, <1>2, FS_AddElement
<1>4. {j \in T : j <= n + 1} = T
  <2>1. \A j \in T : j <= n + 1
    OBVIOUS
  <2> HIDE DEF T
  <2> QED BY <2>1
<1>5. ASSUME NEW i \in S
      PROVE  PlaceIn(T, i) = PlaceIn(S, i) /\ PlaceIn(S, i) \in 1 .. Cardinality(S)
  <2> DEFINE B == {j \in S : j <= i}
  <2>1. {j \in T : j <= i} = B
    OBVIOUS
  <2>2. B \subseteq S /\ i \in B
    OBVIOUS
  <2> HIDE DEF B
  <2>3. IsFiniteSet(B) /\ Cardinality(B) <= Cardinality(S)
    BY <1>1, <2>2, FS_Subset
  <2>4. Cardinality(B) \in Nat /\ Cardinality(B) # 0
    BY <2>2, <2>3, FS_CardinalityType, FS_EmptySet
  <2>5. PlaceIn(T, i) = Cardinality(B) /\ PlaceIn(S, i) = Cardinality(B)
    BY <2>1 DEF PlaceIn, B
  <2> QED BY <1>1, <2>3, <2>4, <2>5
<1> QED BY <1>3, <1>4, <1>5 DEF PlaceIn

\* No position, no element.
LEMMA PicksNothing == \A t : Picks(<<>>, t, {})
BY FS_EmptySet DEF Picks

LEMMA PicksNext ==
  ASSUME NEW E, NEW s \in Seq(E), NEW e \in E, NEW t, NEW n \in Nat,
         NEW S \in SUBSET (1 .. n), Picks(s, t, S), e = t[n + 1]
  PROVE  Picks(Append(s, e), t, S \cup {n + 1})
<1> DEFINE T == S \cup {n + 1}
<1>1. /\ Cardinality(T) = Cardinality(S) + 1 /\ PlaceIn(T, n + 1) = Cardinality(S) + 1
      /\ \A i \in S : PlaceIn(T, i) = PlaceIn(S, i) /\ PlaceIn(S, i) \in 1 .. Cardinality(S)
  BY NextPosition
<1>2. Len(s) = Cardinality(S) /\ \A i \in S : s[PlaceIn(S, i)] = t[i]
  BY DEF Picks
<1>3. /\ Len(Append(s, e)) = Len(s) + 1 /\ Append(s, e)[Len(s) + 1] = e
      /\ \A k \in 1 .. Len(s) : Append(s, e)[k] = s[k]
  OBVIOUS
<1>4. ASSUME NEW i \in T PROVE Append(s, e)[PlaceIn(T, i)] = t[i]
  <2>1. CASE i \in S
    BY <1>1, <1>2, <1>3, <2>1
  <2>2. CASE i = n + 1
    BY <1>1, <1>2, <1>3, <2>2
  <2> QED BY <2>1, <2>2
<1> QED BY <1>1, <1>2, <1>3, <1>4 DEF Picks

\* A set of numbers has a least one.
LEMMA Least ==
  ASSUME NEW T, T \subseteq Nat, T # {}
  PROVE  \E x \in T : \A y \in T : x <= y
<1> DEFINE R == OpToRel(<, Nat)
<1>1. IsWellFoundedOn(R, Nat)
  BY NatLessThanWellFounded
<1>2. \A x, y \in Nat : y < x => <<y, x>> \in R
  BY DEF OpToRel
<1> HIDE DEF R
<1>3. PICK x \in T : \A y \in T : ~ (<<y, x>> \in R)
  BY <1>1, WFMin
<1>4. \A y \in T : ~(y < x)
  BY <1>2, <1>3
<1> QED BY <1>3, <1>4

\* Up from 0, one at a time.
LEMMA Climbs ==
  ASSUME NEW n \in Nat, NEW S, NEW f, f[0] \in S,
         \A i \in 1 .. n : f[i - 1] \in S => f[i] \in S
  PROVE  \A i \in 0 .. n : f[i] \in S
<1> DEFINE T == {i \in 0 .. n : f[i] \notin S}
<1>1. SUFFICES ASSUME T # {} PROVE FALSE
  OBVIOUS
<1>2. PICK x \in T : \A y \in T : x <= y
  <2>1. T \subseteq Nat
    OBVIOUS
  <2> HIDE DEF T
  <2> QED BY <1>1, <2>1, Least
<1>3. x \in 1 .. n /\ x - 1 \in 0 .. n /\ x - 1 \notin T
  BY <1>2
<1> QED BY <1>2, <1>3

\* What agrees at 0 and keeps agreeing is the same.
Keeps(f, g, n) == \A i \in 1 .. n : f[i - 1] = g[i - 1] => f[i] = g[i]
Alike(f, g, n) == \A i \in 0 .. n : f[i] = g[i]

LEMMA AlikeUp ==
  ASSUME NEW n \in Nat, NEW f, NEW g, f[0] = g[0], Keeps(f, g, n)
  PROVE  Alike(f, g, n)
<1> USE DEF Keeps, Alike
<1> DEFINE T == {i \in 0 .. n : f[i] # g[i]}
<1>1. SUFFICES ASSUME T # {} PROVE FALSE
  OBVIOUS
<1>2. PICK x \in T : \A y \in T : x <= y
  <2>1. T \subseteq Nat
    OBVIOUS
  <2> HIDE DEF T
  <2> QED BY <1>1, <2>1, Least
<1>3. x \in 1 .. n /\ x - 1 \in 0 .. n /\ x - 1 \notin T
  BY <1>2
<1> QED BY <1>2, <1>3

\* A function may be defined by recursion on a number.
Steps(f, n, a, step) == f = [i \in 0 .. n |-> IF i = 0 THEN a ELSE step[i][f[i - 1]]]

LEMMA Recursion ==
  ASSUME NEW n \in Nat, NEW S, NEW a \in S, NEW step \in [1 .. n -> [S -> S]]
  PROVE  \E f \in [0 .. n -> S] : Steps(f, n, a, step)
<1> DEFINE Defined(m) == \E f \in [0 .. m -> S] : Steps(f, m, a, step)
           T == {m \in 0 .. n : ~Defined(m)}
<1>1. SUFFICES ASSUME T # {} PROVE FALSE
  OBVIOUS
<1>2. PICK m \in T : \A k \in T : m <= k
  <2>1. T \subseteq Nat
    OBVIOUS
  <2> HIDE DEF T
  <2> QED BY <1>1, <2>1, Least
<1>3. CASE m = 0
  <2> DEFINE f == [i \in 0 .. 0 |-> a]
  <2>1. f \in [0 .. 0 -> S]
    OBVIOUS
  <2>2. Steps(f, 0, a, step)
    BY DEF Steps
  <2>3. Defined(0)
    BY <2>1, <2>2
  <2> QED BY <1>2, <1>3, <2>3
<1>4. CASE m # 0
  <2>1. m - 1 \in 0 .. n /\ m - 1 \notin T /\ m \in 1 .. n
    BY <1>2, <1>4
  <2>2. PICK g \in [0 .. m - 1 -> S] : Steps(g, m - 1, a, step)
    BY <2>1
  <2> DEFINE f == [i \in 0 .. m |-> IF i = m THEN step[m][g[m - 1]] ELSE g[i]]
  <2>3. f \in [0 .. m -> S]
    BY <2>1
  <2>4. \A i \in 0 .. m - 1 : g[i] = IF i = 0 THEN a ELSE step[i][g[i - 1]]
    BY <2>2 DEF Steps
  <2>5. \A i \in 0 .. m : f[i] = IF i = 0 THEN a ELSE step[i][f[i - 1]]
    BY <2>1, <2>4
  <2>6. Steps(f, m, a, step)
    BY <2>3, <2>5 DEF Steps
  <2>7. Defined(m)
    BY <2>3, <2>6
  <2> QED BY <1>2, <2>7
<1> QED BY <1>3, <1>4
=============================================================================
