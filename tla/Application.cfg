\* Up to 2 packages and 3 metadata values in pages of any size, whose cursors may lead back to
\* the beginning; packages of up to 5 bytes in chunks of up to 3, into records of 2; the
\* arithmetic wraps at 6.
CONSTANTS
  Record = 2
  Pad = 0
  Users = {0, 1}
  Homes = {0}
  Absent = Absent
  Old = Old
  MaxBlock = 3
  Wrap = 6
  Entries <- MCEntries
  Values <- MCValues
  Patterns <- MCPatterns
  Names <- MCNames
  Overlong = "long"
  NoText = "none"
  CountMax = 2
  MaxEntries = 2
  MaxValues = 3
  MaxListed = 2
  Leaps = {0}
SPECIFICATION ApplicationSpec
INVARIANTS
  WrittenInOrder
  CompleteMeansWhole
  FailureLeavesNothing
  UserGivenBack
  CatalogExact
  ResolveExact
  InfoWhole
PROPERTIES
  OneByteFile
  OnlyTheTarget
  Terminates
