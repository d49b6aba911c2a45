SPECIFICATION Spec
CONSTANTS
  Proc = {p1, p2, p3}
  Row = {r1, r2}
  MaxEpoch = 3
  Nobody = nobody
INVARIANTS TypeOK OpenedCurrent FailureLeavesFile
PROPERTIES HistoryKept RefusedForCause
