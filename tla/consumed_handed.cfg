SPECIFICATION Spec
CONSTANTS
  Token = {t1}
  Item = {i1}
  Approval = {a1}
  Session = {}
  Request = {r1}
  Kinds = {"read", "ask", "poll"}
  Bindings = {FALSE}
  Lifetimes = {3}
  Quotas = {1}
  GrantTtls = {2}
  Durations = {1}
  ApprovalWait = 2
  Ladder <- NoLadder
  Grace = 1
  NoCap = NoCap
  Nobody = Nobody
  Pre = Pre
  MaxTime = 3
  MaxVersion = 1
  MaxReads = 2
  Crashes = FALSE
SYMMETRY Symmetry
INVARIANTS ConsumedMeansHandedOver
