\* Every pattern of up to 4 characters against every name of up to 3, with runs
\* longer than the anchor; every command line of up to 5 arguments; names at and
\* past the limits of 8 and 3 characters.
CONSTANTS
  Letters = {"a", "A", "b"}
  TextChars = {"a", "A", "b"}
  Star = "*"
  One = "?"
  AnchorMax = 2
  MaxPattern = 4
  MaxText = 3
  BaseMax = 8
  TypeMax = 3
  LastUser = 15
  TargetSize = 24
  Destinations <- MCDestinations
  Packages <- MCPackages
  Formats <- MCFormats
  Arguments <- MCArguments
  MaxArguments = 5
  PayloadMin = 16
  PayloadMax = 112
  DefaultPort = 2
  DefaultPayload = 64
SPECIFICATION CommandSpec
INVARIANTS
  MatchIsExact
  AnchorInMatch
  LandsWhereAsked
  DocumentedAccepted
  OptionsExact
PROPERTIES
  Decides
CHECK_DEADLOCK FALSE
