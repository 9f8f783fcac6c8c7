----------------------------- MODULE Subsequence -----------------------------
(***************************************************************************)
(* What a loop leaves that keeps some elements of a sequence and passes    *)
(* over the others: those at the positions S, in their order.              *)
(***************************************************************************)
EXTENDS Naturals, Sequences, FiniteSets

\* The place of position i among those of S.
PlaceIn(S, i) == Cardinality({j \in S : j <= i})

\* s is what t has at the positions S: each once, and in order.
Picks(s, t, S) == /\ Len(s) = Cardinality(S)
                  /\ \A i \in S : s[PlaceIn(S, i)] = t[i]
=============================================================================
