------------------------------- MODULE Options -------------------------------
(***************************************************************************)
(* paket_parse_options of src/src/command.c: the options are taken out of  *)
(* the argument vector while what is left is moved down in the same vector.*)
(* An argument is what the program can tell about it: an option, a number, *)
(* a communication profile, or another word.                               *)
(***************************************************************************)
EXTENDS Naturals, Sequences, FiniteSets, Subsequence

CONSTANTS Arguments,               \* what may be typed: see Option to Word
          MaxArguments,            \* bound: arguments on the command line
          PayloadMin, PayloadMax,  \* 16 and 112
          DefaultPort, DefaultPayload  \* 2 and 64

ASSUME OptionsAssumption ==
  {MaxArguments, PayloadMin, PayloadMax, DefaultPort, DefaultPayload} \subseteq Nat

VARIABLES typed,   \* the arguments as typed
          argv,    \* argv[1] .. argv[argc - 1]
          read_index, write_index,
          found,   \* found_port, found_communication, found_payload
          options, \* paket_options
          parse    \* running, then ok or error

optionsVars == <<typed, argv, read_index, write_index, found, options, parse>>

Option(o) == <<"option", o>>
Number(n) == <<"number", n>>
Profile(baud, parity, stop) == <<"profile", baud, parity, stop>>
Word(w) == <<"word", w>>
None == <<"none">>

Defaults == [P |-> Number(DefaultPort), C |-> None, M |-> Number(DefaultPayload)]

OptionsInit ==
  /\ typed \in UNION {[1 .. n -> Arguments] : n \in 0 .. MaxArguments}
  /\ argv = typed /\ read_index = 1 /\ write_index = 1
  /\ found = {} /\ options = Defaults /\ parse = "running"

\* -p 2|3|4, -c baud-parity-stop (parse_communication), -m bytes
\* (parse_payload_bytes).
ValidPort(v) == v \in {Number(n) : n \in 2 .. 4}
ValidProfile(v) == v \in {Profile(b, p, s) : b \in {2400, 4800, 9600},
                                             p \in {"N", "O", "E"}, s \in {1, 2}}
ValidPayload(v) == v \in {Number(n) : n \in PayloadMin .. PayloadMax}
ValidFor(o, v) == CASE o = "P" -> ValidPort(v) [] o = "C" -> ValidProfile(v)
                    [] o = "M" -> ValidPayload(v)

More == parse = "running" /\ read_index <= Len(argv)
IsOption(a) == a \in {Option(o) : o \in DOMAIN Defaults}

TakesValueMutant(o) == /\ read_index < Len(argv)  \* found is not looked at
                       /\ ValidFor(o, argv[read_index + 1])
TakesValue(o) == /\ o \notin found /\ read_index < Len(argv)
                 /\ ValidFor(o, argv[read_index + 1])

Take == /\ More /\ IsOption(argv[read_index])
        /\ LET o == argv[read_index][2]
           IN  /\ TakesValue(o)
               /\ options' = [options EXCEPT ![o] = argv[read_index + 1]]
               /\ found' = found \cup {o}
        /\ read_index' = read_index + 2
        /\ UNCHANGED <<typed, argv, write_index, parse>>

\* A missing, invalid or repeated value.
Reject == /\ More /\ IsOption(argv[read_index])
          /\ ~TakesValue(argv[read_index][2])
          /\ parse' = "error"
          /\ UNCHANGED <<typed, argv, read_index, write_index, found, options>>

Keep == /\ More /\ ~IsOption(argv[read_index])
        /\ argv' = [argv EXCEPT ![write_index] = argv[read_index]]
        /\ read_index' = read_index + 1 /\ write_index' = write_index + 1
        /\ UNCHANGED <<typed, found, options, parse>>

\* argc and the closing NULL.
Compact == /\ parse = "running" /\ read_index > Len(argv)
           /\ argv' = SubSeq(argv, 1, write_index - 1)
           /\ parse' = "ok"
           /\ UNCHANGED <<typed, read_index, write_index, found, options>>

OptionsNext == Take \/ Reject \/ Keep \/ Compact
OptionsSpec == OptionsInit /\ [][OptionsNext]_optionsVars
-----------------------------------------------------------------------------
(* What command.h says of the whole command line.                          *)

Given(o) == {i \in DOMAIN typed : typed[i] = Option(o)}

WellFormed ==
  \A o \in DOMAIN Defaults : \A i \in Given(o) :
    /\ Given(o) = {i} /\ i < Len(typed) /\ ValidFor(o, typed[i + 1])

\* The positions of the arguments that belong to no option.
Others == {i \in DOMAIN typed :
             /\ ~IsOption(typed[i])
             /\ i > 1 => ~IsOption(typed[i - 1])}

\* "Extract optional -p, -c and -m pairs from argv [...] The remaining arguments
\* are compacted in place [...] Returns zero on success or -1 for a missing,
\* invalid, or repeated option": wherever the options stand among the words, no
\* word is lost, overwritten or taken for a value, and none is left over.  A port or
\* profile that is not given is the default; nothing is claimed here of the payload
\* that holds without -m, of which command.h (64) and README.md (112) differ.
OptionsExact ==
  /\ parse = "ok" =>
       /\ WellFormed
       /\ Picks(argv, typed, Others)
       /\ \A o \in DOMAIN Defaults : \A i \in Given(o) : options[o] = typed[i + 1]
       /\ \A o \in {"P", "C"} : Given(o) = {} => options[o] = Defaults[o]
  /\ parse = "error" => ~WellFormed
=============================================================================
