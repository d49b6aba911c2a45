SPECIFICATION Spec
CONSTANTS
  Call = {c1, c2}
  Cookie = {k1, k2}
  Cli = {}
  Item = {i1}
  Holder = {h1}
  MaxEpoch = 2
  MaxVersion = 2
  MaxImport = 1

INVARIANTS SealDropsSessions
