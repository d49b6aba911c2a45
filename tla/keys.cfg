SPECIFICATION FairSpec
CONSTANTS
  Call = {c1, c2}
  Cookie = {k1, k2}
  Cli = {p1}
  Item = {i1}
  Holder = {h1}
  MaxEpoch = 3
  MaxVersion = 2
  MaxImport = 1
INVARIANTS TypeOK MemoryMatchesHeader
PROPERTIES ReadableKept UnsealedByPassphrase OldSessionsEnd
