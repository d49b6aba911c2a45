SPECIFICATION Spec
CONSTANTS
  Token = {t1}
  Item = {i1}
  Approval = {a1}
  Session = {s1}
  Request = {r1}
  Kinds = {"read", "ask", "poll", "use"}
  Bindings = {TRUE, FALSE}
  Lifetimes = {3}
  Quotas = {1}
  GrantTtls = {2}
  Durations = {1}
  ApprovalWait = 2
  Ladder <- MCLadder
  Grace = 1
  NoCap = NoCap
  Nobody = Nobody
  Pre = Pre
  MaxTime = 3
  MaxVersion = 1
  MaxReads = 2
  Crashes = TRUE
SYMMETRY Symmetry
INVARIANTS TypeOK CheckedStillHolds GrantBacked GrantWithinToken PendingItemLive QuotaHolds
