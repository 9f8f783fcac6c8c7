---------------------------- MODULE MCCommandLine ----------------------------
EXTENDS CommandLine

Repeat(c, n) == [i \in 1 .. n |-> c]

\* Destinations of every shape: drives good and bad, user areas up to and past
\* the last, with and without a separator, and names at and past the limits.
MCDestinations ==
  {d \o u \o f :
    d \in {<<>>, <<"a", ":">>, <<"1", ":">>},
    u \in {<<>>, <<"/">>, <<"/", "/">>, <<"\\", "1", "\\">>}
          \cup {<<"/">> \o n \o s :
                  n \in {<<"0">>, <<"1">>, <<"1", "5">>, <<"1", "6">>, <<"0", "1", "5">>},
                  s \in {<<>>, <<"/">>}},
    f \in {<<>>, <<"*">>, <<".">>, <<".", "b">>, <<"b", ".", "?">>, <<"b", ".", "b", ".">>}
          \cup {Repeat("b", k) \o e :
                  k \in {1, 8, 9},
                  e \in {<<>>, <<".">>, <<".", "1">>, <<".">> \o Repeat("b", 3),
                         <<".">> \o Repeat("b", 4)}}}

MCPackages == {<<"-">>, <<"a">>, <<"-", "b", "1">> \o Repeat("a", 8)}
MCFormats  == {<<>>, <<"b">>, <<"a", "-", "b", "b", "b">>}

MCArguments == {Option("P"), Option("C"), Option("M"), Number(3), Number(112),
                Profile(9600, "N", 1), Profile(1200, "N", 1), Word("name")}
=============================================================================
