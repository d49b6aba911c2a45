SPECIFICATION Spec
CONSTANTS
  Proc = {p1, p2}
  Auditor = {d1}
  Nobody = Nobody
  MaxLen = 3
  MaxReads = 1
  MaxRestores = 1
SYMMETRY Symmetry
INVARIANTS ChainIntact NoFalseAlarm AnchorPinsHistory ReadsRecorded
